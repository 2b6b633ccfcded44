-------------------------------- MODULE Billing --------------------------------
(***************************************************************************)
(* The plan of one account: what Stripe bills, what `subscriptions` mirrors *)
(* of it, and what `users.plan` permits.                                   *)
(*                                                                         *)
(* Stripe is the environment: it opens, changes and ends subscriptions,    *)
(* sends an event for each of these, and delivers every event until it is  *)
(* answered with a 200, in any order, several at a time, possibly again.   *)
(* The webhook of app/api/billing.py runs apply_event of app/billing.py in *)
(* one transaction; its reads, its early flush, its answer and its commit  *)
(* are steps of their own.  Beside it, create_checkout creates the row,    *)
(* and set_plan of app/cli.py writes the plan by hand.                     *)
(***************************************************************************)
EXTENDS Naturals, Sequences

CONSTANTS
  Workers,     (* webhook requests that may be under way at once            *)
  Paid,        (* the plans whose price is configured                       *)
  Free,        (* the plan "free"                                           *)
  Unlisted,    (* a price Stripe knows and the configuration does not       *)
  None,        (* no row                                                    *)
  EarlyReply,  (* TRUE: the session commits in the dependency's teardown,   *)
               (* after the 200 has been sent; FALSE: before it             *)
  MaxSent,     (* bound: events of Stripe                                   *)
  MaxExtras    (* bound: failures, repetitions and calls of users           *)

ASSUME ConstantsAssumption ==
  /\ Free \notin Paid /\ Unlisted \notin Paid \cup {Free}
  /\ EarlyReply \in BOOLEAN
  /\ MaxSent \in Nat /\ MaxExtras \in Nat

VARIABLES
  live,        (* Stripe: the account's subscriptions                       *)
  sent,        (* Stripe: the events so far; an event's id is its index     *)
  unacked,     (* Stripe: the events it still delivers                      *)
  mirror,      (* the row of `subscriptions`, or None                       *)
  plan,        (* users.plan                                                *)
  recorded,    (* billing_events: the ids                                   *)
  pc,          (* where each webhook request is                             *)
  job,         (* the event it carries                                      *)
  seen,        (* row and plan as its session read them                     *)
  answered,    (* it has sent its 200                                       *)
  extras,      (* failures, repetitions and users' calls so far             *)
  granted,     (* history: the plan is the operator's word, by set_plan or  *)
               (* as the default plan of a new account                      *)
  failed,      (* history: events whose delivery failed and is retried      *)
  lost,        (* history: events answered 200 whose commit failed          *)
  upset        (* history: what was not orderly so far                      *)

stripe == <<live, sent, unacked>>
db == <<mirror, plan, recorded>>
requests == <<pc, job, seen, answered>>
history == <<granted, failed, lost, upset>>
vars == <<stripe, db, requests, extras, history>>

----------------------------------------------------------------------------
Granting == {"active", "past_due"}
Statuses == Granting \cup {"unpaid", "canceled", "inactive"}
Kinds == {"checkout", "subscription", "deleted", "payment_failed", "other"}
Prices == Paid \cup {Unlisted}

Subscriptions == [id : Nat, price : Prices, status : Statuses]
Events == [kind : Kinds, price : Prices, status : Statuses]
Rows == [plan : Paid \cup {Free}, status : Statuses]
ASSUME NoneAssumption == None \notin Rows

Blank == [plan |-> Free, status |-> "inactive"]
Row(r) == IF r = None THEN Blank ELSE r

(* What the mirror entitles the account to.                                *)
Target(r) == IF r.status \in Granting THEN r.plan ELSE Free

(* Mutants of Applied: a price nobody configured becomes the plan; a       *)
(* cancellation leaves the status alone.                                   *)
Applied_AnyPrice(r, e) ==
  CASE e.kind = "checkout"       -> [r EXCEPT !.status = "active"]
    [] e.kind = "payment_failed" -> [r EXCEPT !.status = "past_due"]
    [] e.kind = "deleted"        -> [r EXCEPT !.status = "canceled"]
    [] e.kind = "subscription"   -> [r EXCEPT !.status = e.status, !.plan = e.price]
    [] OTHER -> r
Applied_DeletedIgnored(r, e) ==
  CASE e.kind = "checkout"       -> [r EXCEPT !.status = "active"]
    [] e.kind = "payment_failed" -> [r EXCEPT !.status = "past_due"]
    [] e.kind = "subscription"   ->
         [r EXCEPT !.status = e.status,
                   !.plan = IF e.price \in Paid THEN e.price ELSE @]
    [] OTHER -> r

(* The row an event leaves behind; a price that is not configured leaves   *)
(* the plan as it was.                                                     *)
Applied(r, e) ==
  CASE e.kind = "checkout"       -> [r EXCEPT !.status = "active"]
    [] e.kind = "payment_failed" -> [r EXCEPT !.status = "past_due"]
    [] e.kind = "deleted"        -> [r EXCEPT !.status = "canceled"]
    [] e.kind = "subscription"   ->
         [r EXCEPT !.status = e.status,
                   !.plan = IF e.price \in Paid THEN e.price ELSE @]
    [] OTHER -> r

Handled(w) == sent[job[w]].kind # "other"
New(w) == Applied(Row(seen[w].mirror), sent[job[w]])
Inserts(w) == Handled(w) /\ seen[w].mirror = None
MovesPlan(w) == Handled(w) /\ Target(New(w)) # seen[w].plan

(* A request between its first flush and its commit holds the rows of the  *)
(* account, on SQLite the whole database.                                  *)
Held == \E w \in Workers : pc[w] = "flushed"
Busy == \E w \in Workers : pc[w] # "rest"

Goto(w, to) == pc' = [pc EXCEPT ![w] = to]
Rest(w) ==
  /\ Goto(w, "rest")
  /\ job' = [job EXCEPT ![w] = 0]
  /\ seen' = [seen EXCEPT ![w] = [mirror |-> None, plan |-> Free]]
  /\ answered' = [answered EXCEPT ![w] = FALSE]
Extra == extras < MaxExtras /\ extras' = extras + 1
Upset(what) == upset' = upset \cup {what}

----------------------------------------------------------------------------
(* Stripe                                                                  *)

Event(kind, s) == [kind |-> kind, price |-> s.price, status |-> s.status]
Send(es) ==
  /\ Len(sent \o es) <= MaxSent
  /\ sent' = sent \o es
  /\ unacked' = unacked \cup (Len(sent) + 1)..Len(sent \o es)

(* Somebody pays at a checkout: completion and creation in either order;   *)
(* or the subscription is opened in Stripe's dashboard.                    *)
Buy(p) ==
  LET s == [id |-> Len(sent), price |-> p, status |-> "active"]
      paid == Event("checkout", s)
      created == Event("subscription", s) IN
  /\ Send(<<paid, created>>) \/ Send(<<created, paid>>) \/ Send(<<created>>)
  /\ live' = live \cup {s}
  /\ IF live = {} THEN UNCHANGED upset ELSE Upset("two")
  /\ UNCHANGED <<db, requests, extras, granted, failed, lost>>

(* The price changes; a failed payment is made up for, or given up.        *)
Change(s, new) ==
  /\ Send(<<Event("subscription", new)>>)
  /\ live' = (live \ {s}) \cup {new}
  /\ UNCHANGED <<db, requests, extras, history>>

Reprice(s, p) == p # s.price /\ Change(s, [s EXCEPT !.price = p])

Settle(s, status) ==
  /\ s.status = "past_due" \/ (s.status = "unpaid" /\ status = "active")
  /\ Change(s, [s EXCEPT !.status = status])

(* A charge fails.                                                         *)
Lapse(s) ==
  LET new == [s EXCEPT !.status = "past_due"] IN
  /\ s.status \in Granting
  /\ Send(<<Event("payment_failed", s), Event("subscription", new)>>)
  /\ live' = (live \ {s}) \cup {new}
  /\ UNCHANGED <<db, requests, extras, history>>

End(s) ==
  /\ Send(<<Event("deleted", s)>>)
  /\ live' = live \ {s}
  /\ UNCHANGED <<db, requests, extras, history>>

(* An event of a type apply_event does not handle.                         *)
Notify(s) ==
  /\ Send(<<Event("other", s)>>)
  /\ UNCHANGED <<live, db, requests, extras, history>>

(* The 200 was lost on its way: the event is delivered again.              *)
Redeliver(n) ==
  /\ n \in 1..Len(sent) /\ n \notin unacked
  /\ Extra
  /\ unacked' = unacked \cup {n}
  /\ UNCHANGED <<live, sent, db, requests, history>>

----------------------------------------------------------------------------
(* The webhook                                                             *)

(* Mutant of Duplicate: a duplicate is refused, not answered with a 200.   *)
Duplicate_Refused(w, n) ==
  /\ pc[w] = "rest" /\ n \in unacked /\ n \in recorded
  /\ UNCHANGED vars

(* The duplicate check, then the user: an event already recorded is        *)
(* answered and done.                                                      *)
Duplicate(w, n) ==
  /\ pc[w] = "rest" /\ n \in unacked /\ n \in recorded
  /\ unacked' = unacked \ {n}
  /\ UNCHANGED <<live, sent, db, requests, extras, history>>

Receive(w, n) ==
  /\ pc[w] = "rest" /\ n \in unacked /\ n \notin recorded
  /\ Goto(w, "received")
  /\ job' = [job EXCEPT ![w] = n]
  /\ seen' = [seen EXCEPT ![w].plan = plan]
  /\ upset' = upset \cup (IF Busy THEN {"overlap"} ELSE {})
                   \cup (IF 1..(n - 1) \subseteq recorded THEN {} ELSE {"order"})
  /\ UNCHANGED <<stripe, db, answered, extras, granted, failed, lost>>

(* The SELECT of get_or_create_subscription.                               *)
Load(w) ==
  /\ pc[w] = "received"
  /\ seen' = [seen EXCEPT ![w].mirror = mirror]
  /\ Goto(w, "loaded")
  /\ UNCHANGED <<stripe, db, job, answered, extras, history>>

(* The INSERT of a new row, and sync_user_plan's flush when the plan       *)
(* changes; otherwise nothing is written before the commit.                *)
Flush(w) ==
  /\ pc[w] = "loaded"
  /\ IF Inserts(w) \/ MovesPlan(w)
       THEN ~Held /\ (Inserts(w) => mirror = None) /\ Goto(w, "flushed")
       ELSE Goto(w, "clean")
  /\ UNCHANGED <<stripe, db, job, seen, answered, extras, history>>

(* Mutant of FlushFails: the conflict is swallowed.                        *)
FlushFails_Swallowed(w) ==
  /\ pc[w] = "loaded" /\ ~Held /\ Inserts(w) /\ mirror # None
  /\ unacked' = unacked \ {job[w]}
  /\ Rest(w)
  /\ UNCHANGED <<live, sent, db, extras, history>>

(* Somebody else has inserted the row: the unique key makes it a 500.      *)
FlushFails(w) ==
  /\ pc[w] = "loaded" /\ ~Held /\ Inserts(w) /\ mirror # None
  /\ failed' = failed \cup {job[w]}
  /\ Rest(w)
  /\ UNCHANGED <<stripe, db, extras, granted, lost, upset>>

Reply(w) ==
  /\ EarlyReply /\ pc[w] \in {"flushed", "clean"} /\ ~answered[w]
  /\ answered' = [answered EXCEPT ![w] = TRUE]
  /\ unacked' = unacked \ {job[w]}
  /\ UNCHANGED <<live, sent, db, pc, job, seen, extras, history>>

(* The columns that differ from what was read are written.                 *)
Written(w) ==
  IF Inserts(w) THEN New(w)
  ELSE [c \in DOMAIN mirror |->
          IF New(w)[c] # seen[w].mirror[c] THEN New(w)[c] ELSE mirror[c]]

MayCommit(w) ==
  /\ pc[w] = "flushed" \/ (pc[w] = "clean" /\ ~Held)
  /\ EarlyReply => answered[w]

(* Mutants of Commit: the plan is only ever raised; the event's row is     *)
(* merged instead of inserted.                                             *)
Commit_NeverDowngrades(w) ==
  /\ MayCommit(w) /\ job[w] \notin recorded
  /\ mirror' = IF Handled(w) THEN Written(w) ELSE mirror
  /\ plan' = IF MovesPlan(w) /\ seen[w].plan = Free THEN Target(New(w)) ELSE plan
  /\ recorded' = recorded \cup {job[w]}
  /\ unacked' = IF EarlyReply THEN unacked ELSE unacked \ {job[w]}
  /\ granted' = (granted /\ ~Handled(w))
  /\ Rest(w)
  /\ UNCHANGED <<live, sent, extras, failed, lost, upset>>
Commit_Merges(w) ==
  /\ MayCommit(w)
  /\ mirror' = IF Handled(w) THEN Written(w) ELSE mirror
  /\ plan' = IF MovesPlan(w) THEN Target(New(w)) ELSE plan
  /\ recorded' = recorded \cup {job[w]}
  /\ unacked' = IF EarlyReply THEN unacked ELSE unacked \ {job[w]}
  /\ granted' = (granted /\ ~Handled(w))
  /\ Rest(w)
  /\ UNCHANGED <<live, sent, extras, failed, lost, upset>>

Commit(w) ==
  /\ MayCommit(w) /\ job[w] \notin recorded
  /\ mirror' = IF Handled(w) THEN Written(w) ELSE mirror
  /\ plan' = IF MovesPlan(w) THEN Target(New(w)) ELSE plan
  /\ recorded' = recorded \cup {job[w]}
  /\ unacked' = IF EarlyReply THEN unacked ELSE unacked \ {job[w]}
  /\ granted' = (granted /\ ~Handled(w))
  /\ Rest(w)
  /\ UNCHANGED <<live, sent, extras, failed, lost, upset>>

(* The event's id was inserted meanwhile: everything is rolled back.       *)
CommitConflicts(w) ==
  /\ MayCommit(w) /\ job[w] \in recorded
  /\ failed' = IF answered[w] THEN failed ELSE failed \cup {job[w]}
  /\ Rest(w)
  /\ UNCHANGED <<stripe, db, extras, granted, lost, upset>>

(* The worker is killed, or SQLite's lock is not had in time.              *)
Fail(w) ==
  /\ pc[w] # "rest" /\ Extra
  /\ IF answered[w]
       THEN lost' = lost \cup {job[w]} /\ Upset("lost") /\ UNCHANGED failed
       ELSE failed' = failed \cup {job[w]} /\ UNCHANGED <<lost, upset>>
  /\ Rest(w)
  /\ UNCHANGED <<stripe, db, granted>>

----------------------------------------------------------------------------
(* Users                                                                   *)

(* create_checkout: the row exists from now on.  (create_portal adds one   *)
(* too, but refuses an account without a customer, and is rolled back.)    *)
Checkout ==
  /\ mirror = None /\ ~Held /\ Extra
  /\ mirror' = Blank
  /\ UNCHANGED <<stripe, plan, recorded, requests, history>>

(* set_plan of the CLI.                                                    *)
Grant(p) ==
  /\ ~Held /\ p # plan /\ Extra
  /\ plan' = p
  /\ granted' = TRUE
  /\ IF Busy THEN Upset("overlap") ELSE UNCHANGED upset
  /\ UNCHANGED <<stripe, mirror, recorded, requests, failed, lost>>

----------------------------------------------------------------------------
(* A new account has settings.default_plan, which need not be free.        *)
Init ==
  /\ live = {} /\ sent = <<>> /\ unacked = {}
  /\ mirror = None /\ plan \in Paid \cup {Free} /\ recorded = {}
  /\ pc = [w \in Workers |-> "rest"]
  /\ job = [w \in Workers |-> 0]
  /\ seen = [w \in Workers |-> [mirror |-> None, plan |-> Free]]
  /\ answered = [w \in Workers |-> FALSE]
  /\ extras = 0
  /\ granted = (plan # Free) /\ failed = {} /\ lost = {} /\ upset = {}

Stripe ==
  \/ \E p \in Paid : Buy(p)
  \/ \E s \in live :
       \/ \E p \in Prices : Reprice(s, p)
       \/ \E status \in {"active", "unpaid"} : Settle(s, status)
       \/ Lapse(s) \/ End(s) \/ Notify(s)
  \/ \E n \in 1..MaxSent : Redeliver(n)

Apply(w) ==
  \/ Load(w) \/ Flush(w) \/ FlushFails(w) \/ Reply(w)
  \/ Commit(w) \/ CommitConflicts(w)

Deliver(n) == \E w \in Workers : Receive(w, n) \/ Duplicate(w, n)

Quiet == ~Busy /\ UNCHANGED vars

Next ==
  \/ Stripe
  \/ \E n \in 1..MaxSent : Deliver(n)
  \/ \E w \in Workers : Apply(w) \/ Fail(w)
  \/ Checkout \/ \E p \in Paid \cup {Free} : Grant(p)
  \/ Quiet

(* Requests go on, and Stripe delivers what has not been answered.         *)
Fairness ==
  /\ \A w \in Workers : WF_vars(Apply(w))
  /\ \A n \in 1..MaxSent : WF_vars(Deliver(n))

Spec == Init /\ [][Next]_vars /\ Fairness

----------------------------------------------------------------------------
(* Properties                                                              *)

TypeOK ==
  /\ live \in SUBSET Subscriptions
  /\ sent \in Seq(Events)
  /\ unacked \in SUBSET Nat /\ recorded \in SUBSET Nat
  /\ mirror \in Rows \cup {None}
  /\ plan \in Paid \cup {Free}
  /\ pc \in [Workers -> {"rest", "received", "loaded", "flushed", "clean"}]
  /\ job \in [Workers -> Nat]
  /\ seen \in [Workers -> [mirror : Rows \cup {None}, plan : Paid \cup {Free}]]
  /\ answered \in [Workers -> BOOLEAN]
  /\ extras \in Nat
  /\ granted \in BOOLEAN
  /\ failed \in SUBSET Nat /\ lost \in SUBSET Nat
  /\ upset \in SUBSET {"overlap", "order", "lost", "two"}

(* "Idempotent by event id": row and plan change by one event that has not *)
(* taken effect before, however often and by however many requests it is   *)
(* delivered, or else by a user's own call.                                *)
OneEffectPerEvent ==
  [][ <<mirror, plan>>' # <<mirror, plan>> /\ extras' = extras
        => \E n \in 1..Len(sent) :
             n \notin recorded /\ recorded' = recorded \cup {n} ]_vars

(* "Point User.plan at what the subscription currently entitles them to":  *)
(* in whatever order events come, and whichever deliveries fail, the plan  *)
(* is the mirror's, unless two requests overlapped or the operator had the *)
(* last word, by set_plan or DEFAULT_PLAN.                                 *)
PlanFollowsMirror ==
  "overlap" \notin upset /\ ~granted => plan = Target(Row(mirror))

(* Stripe owns the money, "the webhook reconciles them": events delivered  *)
(* in order, one at a time, none of them lost, each of them possibly       *)
(* several times, leave the account with the plan that is paid for.        *)
Owed == LET paid == {s \in live : s.status \in Granting} IN
        IF paid = {} THEN {Free} ELSE {s.price : s \in paid}
Reconciled ==
  /\ upset = {} /\ ~granted /\ ~Busy /\ unacked = {}
  /\ Unlisted \notin {s.price : s \in live}
  => plan \in Owed

(* "Every Stripe webhook we accepted": an event answered with a 200 has    *)
(* been recorded, unless its commit failed after the answer.               *)
AcceptedIsRecorded ==
  \A n \in 1..Len(sent) :
    \/ n \in unacked \cup recorded \cup lost
    \/ \E w \in Workers : job[w] = n

(* Stripe is not kept retrying: whatever conflicts, rollbacks and failures *)
(* there were, in the end every event is answered.                         *)
QueueDrains == []<>(unacked = {})

(* "a redelivered subscription.deleted cannot downgrade an account that    *)
(* has since resubscribed".                                                *)
RetryCannotDowngrade ==
  [][ \A n \in (recorded' \ recorded) \cap failed :
        sent[n].kind = "deleted" /\ "two" \notin upset /\ (\E s \in live : s.status \in Granting)
          => ~(plan # Free /\ plan' = Free) ]_vars
===============================================================================
