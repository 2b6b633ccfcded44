---------------------------- MODULE Billing_proofs ----------------------------
(***************************************************************************)
(* Theorems about Billing, for any number of requests, plans, events and   *)
(* failures, and for both builds of the framework.                         *)
(***************************************************************************)
EXTENDS Billing, TLAPS

(* What is delivered, and what a request carries, is an event of Stripe.   *)
CarriesInv ==
  /\ unacked \subseteq 1..Len(sent)
  /\ \A w \in Workers : pc[w] # "rest" => job[w] \in 1..Len(sent)

(* What a request that nobody overlaps knows: the plan, and, once it has   *)
(* read it, the row, unless create_checkout has made one since.            *)
Alone(w) ==
  /\ \A v \in Workers \ {w} : pc[v] = "rest"
  /\ seen[w].plan = plan
  /\ pc[w] \in {"loaded", "flushed", "clean"} =>
       seen[w].mirror \in {mirror, None}
  /\ pc[w] = "flushed" /\ Inserts(w) => mirror = None
  /\ pc[w] = "clean" => ~Inserts(w)
SyncInv ==
  /\ "overlap" \notin upset => \A w \in Workers : pc[w] # "rest" => Alone(w)
  /\ PlanFollowsMirror

(* An event nobody delivers any more has taken effect, or a request that   *)
(* has answered for it is still about to commit, or has failed to.         *)
AnsweredInv ==
  /\ \A w \in Workers : answered[w] => pc[w] \in {"flushed", "clean"}
  /\ \A n \in 1..Len(sent) :
       \/ n \in unacked \cup recorded \cup lost
       \/ \E w \in Workers : job[w] = n /\ answered[w]

----------------------------------------------------------------------------
LEMMA BlankTyped == Blank \in Rows
BY DEF Blank, Rows, Statuses, Granting

LEMMA AppliedTyped ==
  ASSUME NEW r \in Rows, NEW e \in Events
  PROVE  Applied(r, e) \in Rows
BY DEF Applied, Rows, Events, Kinds, Prices, Statuses, Granting

(* Events are only added.                                                  *)
LEMMA SendAdds ==
  ASSUME sent \in Seq(Events), NEW es \in Seq(Events), Send(es)
  PROVE  /\ sent' \in Seq(Events)
         /\ Len(sent) <= Len(sent')
         /\ \A n \in 1..Len(sent) : sent'[n] = sent[n]
         /\ unacked' = unacked \cup (Len(sent) + 1)..Len(sent')
BY DEF Send

LEMMA EventTyped ==
  ASSUME NEW s \in Subscriptions, NEW kind \in Kinds
  PROVE  Event(kind, s) \in Events
BY DEF Event, Subscriptions, Events

(* A step of Stripe that sends something: what the proofs need of it.      *)
Sends ==
  \E es \in Seq(Events) :
    /\ Send(es)
    /\ live' \in SUBSET Subscriptions
    /\ upset' = upset \/ upset' = upset \cup {"two"}
    /\ UNCHANGED <<db, requests, extras, granted, failed, lost>>

LEMMA StripeSends ==
  ASSUME TypeOK, Stripe
  PROVE  Sends \/ \E n \in 1..MaxSent : Redeliver(n)
<1> USE DEF TypeOK
<1>1. ASSUME NEW p \in Paid, Buy(p) PROVE Sends
  <2> DEFINE s == [id |-> Len(sent), price |-> p, status |-> "active"]
  <2>1. s \in Subscriptions
    BY DEF Subscriptions, Prices, Statuses, Granting
  <2>2. Event("checkout", s) \in Events /\ Event("subscription", s) \in Events
    BY <2>1, EventTyped DEF Kinds
  <2> HIDE DEF s
  <2>3. \E es \in Seq(Events) : Send(es)
    <3> DEFINE paid == Event("checkout", s)
               created == Event("subscription", s)
    <3>1. Send(<<paid, created>>) \/ Send(<<created, paid>>) \/ Send(<<created>>)
      BY <1>1 DEF Buy, s
    <3>2. paid \in Events /\ created \in Events
      BY <2>2
    <3> HIDE DEF paid, created
    <3>3. /\ <<paid, created>> \in Seq(Events) /\ <<created, paid>> \in Seq(Events)
          /\ <<created>> \in Seq(Events)
      BY <3>2
    <3> QED
      BY <3>1, <3>3
  <2>4. /\ live' \in SUBSET Subscriptions
        /\ upset' = upset \/ upset' = upset \cup {"two"}
        /\ UNCHANGED <<db, requests, extras, granted, failed, lost>>
    BY <1>1, <2>1 DEF Buy, Upset, s
  <2> QED
    BY <2>3, <2>4 DEF Sends
<1>2. ASSUME NEW s \in live, NEW new \in Subscriptions, Change(s, new) PROVE Sends
  <2>1. <<Event("subscription", new)>> \in Seq(Events)
    BY EventTyped DEF Kinds
  <2> QED
    BY <1>2, <2>1 DEF Change, Sends, history
<1>3. ASSUME NEW s \in live, NEW p \in Prices, Reprice(s, p) PROVE Sends
  <2>1. [s EXCEPT !.price = p] \in Subscriptions
    BY DEF Subscriptions
  <2> QED
    BY <1>2, <1>3, <2>1 DEF Reprice
<1>4. ASSUME NEW s \in live, NEW status \in {"active", "unpaid"}, Settle(s, status)
      PROVE  Sends
  <2>1. [s EXCEPT !.status = status] \in Subscriptions
    BY DEF Subscriptions, Statuses, Granting
  <2> QED
    BY <1>2, <1>4, <2>1 DEF Settle
<1>5. ASSUME NEW s \in live, Lapse(s) PROVE Sends
  <2> DEFINE new == [s EXCEPT !.status = "past_due"]
  <2>1. new \in Subscriptions
    BY DEF Subscriptions, Statuses, Granting
  <2>2. <<Event("payment_failed", s), Event("subscription", new)>> \in Seq(Events)
    BY <2>1, EventTyped DEF Kinds
  <2> QED
    BY <1>5, <2>1, <2>2 DEF Lapse, Sends, history
<1>6. ASSUME NEW s \in live, End(s) PROVE Sends
  <2>1. <<Event("deleted", s)>> \in Seq(Events)
    BY EventTyped DEF Kinds
  <2> QED
    BY <1>6, <2>1 DEF End, Sends, history
<1>7. ASSUME NEW s \in live, Notify(s) PROVE Sends
  <2>1. <<Event("other", s)>> \in Seq(Events)
    BY EventTyped DEF Kinds
  <2> QED
    BY <1>7, <2>1 DEF Notify, Sends, history
<1> QED
  BY <1>1, <1>3, <1>4, <1>5, <1>6, <1>7 DEF Stripe

----------------------------------------------------------------------------
(* The row a request writes is a row.                                      *)
LEMMA NewTyped ==
  ASSUME TypeOK, CarriesInv, NEW w \in Workers, pc[w] # "rest"
  PROVE  New(w) \in Rows
<1>1. sent[job[w]] \in Events
  BY DEF TypeOK, CarriesInv
<1>2. Row(seen[w].mirror) \in Rows
  BY BlankTyped DEF TypeOK, Row
<1> QED
  BY <1>1, <1>2, AppliedTyped DEF New

LEMMA WrittenTyped ==
  ASSUME TypeOK, CarriesInv, NEW w \in Workers, pc[w] # "rest",
         Inserts(w) \/ mirror \in Rows
  PROVE  Written(w) \in Rows
<1>1. New(w) \in Rows
  BY NewTyped
<1>2. CASE Inserts(w)
  BY <1>1, <1>2 DEF Written
<1>3. CASE ~Inserts(w)
  <2>1. mirror \in Rows
    BY <1>3
  <2>2. /\ DOMAIN mirror = {"plan", "status"}
        /\ mirror.plan \in Paid \cup {Free} /\ mirror.status \in Statuses
        /\ New(w).plan \in Paid \cup {Free} /\ New(w).status \in Statuses
    BY <1>1, <2>1 DEF Rows
  <2> DEFINE c(k) == IF New(w)[k] # seen[w].mirror[k] THEN New(w)[k] ELSE mirror[k]
  <2>3. Written(w) = [plan |-> c("plan"), status |-> c("status")]
    BY <1>3, <2>2 DEF Written
  <2>4. c("plan") \in Paid \cup {Free} /\ c("status") \in Statuses
    BY <2>2
  <2> QED
    BY <2>3, <2>4 DEF Rows
<1> QED
  BY <1>2, <1>3

(* Nobody deletes the row: once read, it is there.                         *)
MirrorStays == \A w \in Workers : seen[w].mirror # None => mirror # None

(* A request that is about to commit has read the row or inserts it.       *)
LEMMA CommitTyped ==
  ASSUME TypeOK, CarriesInv, MirrorStays, NEW w \in Workers, Commit(w)
  PROVE  /\ mirror' \in Rows \cup {None}
         /\ mirror # None => mirror' # None
         /\ plan' \in Paid \cup {Free}
<1>1. pc[w] # "rest"
  BY DEF Commit, MayCommit
<1>2. New(w) \in Rows
  BY <1>1, NewTyped
<1>3. Target(New(w)) \in Paid \cup {Free}
  BY <1>2 DEF Target, Rows
<1>4. CASE Handled(w)
  <2>1. Inserts(w) \/ mirror \in Rows
    BY <1>4 DEF Inserts, MirrorStays, TypeOK
  <2>2. Written(w) \in Rows
    BY <1>1, <2>1, WrittenTyped
  <2> QED
    BY <1>3, <1>4, <2>2, NoneAssumption DEF Commit, TypeOK
<1>5. CASE ~Handled(w)
  BY <1>3, <1>5 DEF Commit, TypeOK
<1> QED
  BY <1>4, <1>5

BaseInv == TypeOK /\ CarriesInv /\ MirrorStays

LEMMA BaseInit == Init => BaseInv
<1> SUFFICES ASSUME Init PROVE BaseInv
  OBVIOUS
<1>1. sent \in Seq(Events) /\ upset \in SUBSET {"overlap", "order", "lost", "two"}
  BY DEF Init
<1>2. seen \in [Workers -> [mirror : Rows \cup {None}, plan : Paid \cup {Free}]]
  BY DEF Init
<1>3. TypeOK
  BY <1>1, <1>2 DEF Init, TypeOK
<1>4. CarriesInv /\ MirrorStays
  BY DEF Init, CarriesInv, MirrorStays
<1> QED
  BY <1>3, <1>4 DEF BaseInv

LEMMA BaseStep == BaseInv /\ [Next]_vars => BaseInv'
<1> SUFFICES ASSUME BaseInv, [Next]_vars PROVE BaseInv'
  OBVIOUS
<1> USE ConstantsAssumption DEF BaseInv
<1>1. CASE Stripe
  <2>1. CASE Sends
    <3>1. PICK es \in Seq(Events) :
            /\ Send(es)
            /\ live' \in SUBSET Subscriptions
            /\ upset' = upset \/ upset' = upset \cup {"two"}
            /\ UNCHANGED <<db, requests, extras, granted, failed, lost>>
      BY <2>1 DEF Sends
    <3>2. /\ sent' \in Seq(Events) /\ Len(sent) <= Len(sent')
          /\ unacked' = unacked \cup (Len(sent) + 1)..Len(sent')
      BY <3>1, SendAdds DEF TypeOK
    <3>3. Len(sent) \in Nat /\ Len(sent') \in Nat
      BY <3>2 DEF TypeOK
    <3>4. unacked' \in SUBSET Nat /\ unacked' \subseteq 1..Len(sent')
      <4> SUFFICES ASSUME NEW n \in unacked' PROVE n \in 1..Len(sent')
        OBVIOUS
      <4>1. CASE n \in unacked
        <5>1. n \in 1..Len(sent)
          BY <4>1 DEF CarriesInv
        <5> QED
          BY <3>2, <3>3, <5>1
      <4>2. CASE n \in (Len(sent) + 1)..Len(sent')
        BY <3>3, <4>2
      <4> QED
        BY <3>2, <4>1, <4>2
    <3>6. upset' \in SUBSET {"overlap", "order", "lost", "two"}
      BY <3>1 DEF TypeOK
    <3>7. TypeOK'
      BY <3>1, <3>2, <3>4, <3>6 DEF TypeOK, db, requests
    <3>5. CarriesInv' /\ MirrorStays'
      BY <3>1, <3>2, <3>3, <3>4 DEF CarriesInv, MirrorStays, db, requests
    <3> QED
      BY <3>5, <3>7
  <2>2. ASSUME NEW n \in 1..MaxSent, Redeliver(n) PROVE BaseInv'
    BY <2>2 DEF Redeliver, Extra, TypeOK, CarriesInv, MirrorStays, db, requests,
                history
  <2> QED
    BY <1>1, <2>1, <2>2, StripeSends
<1>2. ASSUME NEW n \in 1..MaxSent, NEW w \in Workers, Duplicate(w, n) PROVE BaseInv'
  BY <1>2 DEF Duplicate, TypeOK, CarriesInv, MirrorStays, db, requests, history
<1>3. ASSUME NEW n \in 1..MaxSent, NEW w \in Workers, Receive(w, n) PROVE BaseInv'
  <2>1. upset' \in SUBSET {"overlap", "order", "lost", "two"}
    BY <1>3 DEF Receive, TypeOK
  <2>2. seen' \in [Workers -> [mirror : Rows \cup {None}, plan : Paid \cup {Free}]]
    BY <1>3 DEF Receive, TypeOK
  <2>3. TypeOK'
    BY <1>3, <2>1, <2>2 DEF Receive, Goto, TypeOK, stripe, db
  <2>4. CarriesInv' /\ MirrorStays'
    BY <1>3 DEF Receive, Goto, TypeOK, CarriesInv, MirrorStays, stripe, db
  <2> QED
    BY <2>3, <2>4
<1>4. ASSUME NEW w \in Workers, Apply(w) PROVE BaseInv'
  <2>1. CASE Load(w)
    BY <1>4, <2>1 DEF Load, Goto, TypeOK, CarriesInv, MirrorStays, stripe, db, history
  <2>2. CASE Flush(w)
    BY <1>4, <2>2 DEF Flush, Goto, TypeOK, CarriesInv, MirrorStays, stripe, db, history
  <2>3. CASE FlushFails(w)
    BY <1>4, <2>3 DEF FlushFails, Rest, Goto, TypeOK, CarriesInv, MirrorStays, stripe, db
  <2>4. CASE Reply(w)
    BY <1>4, <2>4 DEF Reply, TypeOK, CarriesInv, MirrorStays, db, history
  <2>5. CASE Commit(w)
    <3>1. /\ mirror' \in Rows \cup {None}
          /\ mirror # None => mirror' # None
          /\ plan' \in Paid \cup {Free}
      BY <1>4, <2>5, CommitTyped
    <3>2. TypeOK'
      BY <1>4, <2>5, <3>1 DEF Commit, Rest, Goto, TypeOK
    <3>3. CarriesInv' /\ MirrorStays'
      BY <1>4, <2>5, <3>1 DEF Commit, Rest, Goto, TypeOK, CarriesInv, MirrorStays
    <3> QED
      BY <3>2, <3>3
  <2>6. CASE CommitConflicts(w)
    BY <1>4, <2>6 DEF CommitConflicts, Rest, Goto, TypeOK, CarriesInv, MirrorStays,
                      stripe, db
  <2> QED
    BY <1>4, <2>1, <2>2, <2>3, <2>4, <2>5, <2>6 DEF Apply
<1>5. ASSUME NEW w \in Workers, Fail(w) PROVE BaseInv'
  <2>1. upset' \in SUBSET {"overlap", "order", "lost", "two"}
    BY <1>5 DEF Fail, Upset, TypeOK
  <2>2. failed' \in SUBSET Nat /\ lost' \in SUBSET Nat
    <3>1. job[w] \in Nat
      BY DEF TypeOK
    <3>2. failed' \subseteq failed \cup {job[w]} /\ lost' \subseteq lost \cup {job[w]}
      BY <1>5 DEF Fail
    <3> QED
      BY <3>1, <3>2 DEF TypeOK
  <2>3. TypeOK'
    BY <1>5, <2>1, <2>2 DEF Fail, Extra, Rest, Goto, TypeOK, stripe, db
  <2>4. CarriesInv' /\ MirrorStays'
    BY <1>5 DEF Fail, Rest, Goto, TypeOK, CarriesInv, MirrorStays, stripe, db
  <2> QED
    BY <2>3, <2>4
<1>6. CASE Checkout
  BY <1>6, BlankTyped, NoneAssumption DEF Checkout, Extra, TypeOK, CarriesInv,
     MirrorStays, stripe, requests, history
<1>7. ASSUME NEW p \in Paid \cup {Free}, Grant(p) PROVE BaseInv'
  <2>1. upset' \in SUBSET {"overlap", "order", "lost", "two"}
    BY <1>7 DEF Grant, Upset, TypeOK
  <2>2. TypeOK'
    BY <1>7, <2>1 DEF Grant, Extra, TypeOK, stripe, requests
  <2>3. CarriesInv' /\ MirrorStays'
    BY <1>7 DEF Grant, CarriesInv, MirrorStays, stripe, requests
  <2> QED
    BY <2>2, <2>3
<1>8. CASE UNCHANGED vars
  BY <1>8 DEF vars, TypeOK, CarriesInv, MirrorStays, stripe, db, requests, history
<1>9. CASE Quiet
  BY <1>8, <1>9 DEF Quiet
<1> QED
  BY <1>1, <1>2, <1>3, <1>4, <1>5, <1>6, <1>7, <1>8, <1>9 DEF Next, Deliver

(* Every reachable state has the declared types.                           *)
THEOREM TypeCorrect == Spec => []TypeOK
BY BaseInit, BaseStep, PTL DEF Spec, BaseInv

----------------------------------------------------------------------------
LEMMA AnsweredInit == Init => AnsweredInv
BY DEF Init, AnsweredInv

LEMMA AnsweredStep == BaseInv /\ AnsweredInv /\ [Next]_vars => AnsweredInv'
<1> SUFFICES ASSUME BaseInv, AnsweredInv, [Next]_vars PROVE AnsweredInv'
  OBVIOUS
<1> USE DEF BaseInv
<1>1. CASE Stripe
  <2>1. CASE Sends
    <3>1. PICK es \in Seq(Events) :
            /\ Send(es)
            /\ UNCHANGED <<db, requests, lost>>
      BY <2>1 DEF Sends
    <3>2. /\ Len(sent) <= Len(sent')
          /\ unacked' = unacked \cup (Len(sent) + 1)..Len(sent')
          /\ Len(sent) \in Nat /\ Len(sent') \in Nat
      BY <3>1, SendAdds DEF TypeOK
    <3>3. UNCHANGED <<recorded, job, pc, answered, lost>>
      BY <3>1 DEF db, requests
    <3>4. ASSUME NEW n \in 1..Len(sent')
          PROVE  n \in 1..Len(sent) \/ n \in unacked'
      BY <3>2
    <3>5. unacked \subseteq unacked'
      BY <3>2
    <3> QED
      BY <3>3, <3>4, <3>5 DEF AnsweredInv
  <2>2. ASSUME NEW n \in 1..MaxSent, Redeliver(n) PROVE AnsweredInv'
    BY <2>2 DEF Redeliver, AnsweredInv, db, requests, history
  <2> QED
    BY <1>1, <2>1, <2>2, StripeSends
<1>2. ASSUME NEW n \in 1..MaxSent, NEW w \in Workers, Duplicate(w, n)
      PROVE  AnsweredInv'
  BY <1>2 DEF Duplicate, AnsweredInv, db, requests, history
<1>3. ASSUME NEW n \in 1..MaxSent, NEW w \in Workers, Receive(w, n)
      PROVE  AnsweredInv'
  <2>1. ~answered[w]
    BY <1>3 DEF Receive, AnsweredInv
  <2> QED
    BY <1>3, <2>1 DEF Receive, Goto, AnsweredInv, TypeOK, stripe, db
<1>4. ASSUME NEW w \in Workers, Load(w) \/ Flush(w) PROVE AnsweredInv'
  BY <1>4 DEF Load, Flush, Goto, AnsweredInv, TypeOK, stripe, db, history
<1>5. ASSUME NEW w \in Workers, Reply(w) PROVE AnsweredInv'
  BY <1>5 DEF Reply, AnsweredInv, TypeOK, db, history
<1>6. ASSUME NEW w \in Workers,
             FlushFails(w) \/ Commit(w) \/ CommitConflicts(w) \/ Fail(w)
      PROVE  AnsweredInv'
  <2>1. /\ sent' = sent /\ recorded \subseteq recorded' /\ lost \subseteq lost'
        /\ unacked \subseteq unacked' \cup recorded'
    BY <1>6 DEF FlushFails, Commit, CommitConflicts, Fail, stripe, db
  <2>2. answered[w] => job[w] \in recorded' \cup lost'
    BY <1>6 DEF FlushFails, Commit, CommitConflicts, Fail, AnsweredInv, db
  <2>3. /\ ~answered'[w]
        /\ \A v \in Workers \ {w} :
             answered'[v] = answered[v] /\ job'[v] = job[v] /\ pc'[v] = pc[v]
    BY <1>6 DEF FlushFails, Commit, CommitConflicts, Fail, Rest, Goto, TypeOK
  <2> QED
    BY <2>1, <2>2, <2>3 DEF AnsweredInv
<1>7. CASE Checkout
  BY <1>7 DEF Checkout, AnsweredInv, stripe, requests, history
<1>8. ASSUME NEW p \in Paid \cup {Free}, Grant(p) PROVE AnsweredInv'
  BY <1>8 DEF Grant, AnsweredInv, stripe, requests
<1>9. CASE UNCHANGED vars
  BY <1>9 DEF vars, AnsweredInv, stripe, db, requests, history
<1>10. CASE Quiet
  BY <1>9, <1>10 DEF Quiet
<1> QED
  BY <1>1, <1>2, <1>3, <1>4, <1>5, <1>6, <1>7, <1>8, <1>9, <1>10
  DEF Next, Apply, Deliver

(* An event that has been answered with a 200 has been recorded, unless    *)
(* its commit failed after the answer or is still to come.                 *)
THEOREM NothingForgotten == Spec => []AcceptedIsRecorded
<1>1. AnsweredInv => AcceptedIsRecorded
  BY DEF AnsweredInv, AcceptedIsRecorded
<1> QED
  BY <1>1, BaseInit, BaseStep, AnsweredInit, AnsweredStep, PTL DEF Spec

----------------------------------------------------------------------------
(* Row and plan change by one event that has not taken effect before, or   *)
(* by a user's own call: the primary key of billing_events decides between *)
(* two deliveries of the same event.                                       *)
THEOREM EventsApplyOnce == Spec => OneEffectPerEvent
<1> DEFINE Once == <<mirror, plan>>' # <<mirror, plan>> /\ extras' = extras
                     => \E n \in 1..Len(sent) :
                          n \notin recorded /\ recorded' = recorded \cup {n}
<1>1. BaseInv /\ [Next]_vars => Once
  <2> SUFFICES ASSUME BaseInv, [Next]_vars PROVE Once
    OBVIOUS
  <2> USE DEF BaseInv, TypeOK
  <2>1. CASE Stripe
    BY <2>1, StripeSends DEF Sends, Redeliver, db
  <2>2. ASSUME NEW n \in 1..MaxSent, Deliver(n) PROVE Once
    BY <2>2 DEF Deliver, Duplicate, Receive, db
  <2>3. ASSUME NEW w \in Workers, Commit(w) PROVE Once
    <3>1. job[w] \in 1..Len(sent)
      BY <2>3 DEF Commit, MayCommit, CarriesInv
    <3> QED
      BY <2>3, <3>1 DEF Commit
  <2>4. ASSUME NEW w \in Workers, Apply(w) PROVE Once
    BY <2>3, <2>4 DEF Apply, Load, Flush, FlushFails, Reply, CommitConflicts, db
  <2>5. ASSUME NEW w \in Workers, Fail(w) PROVE Once
    BY <2>5 DEF Fail, db
  <2>6. CASE Checkout \/ \E p \in Paid \cup {Free} : Grant(p)
    <3>1. extras' = extras + 1
      BY <2>6 DEF Checkout, Grant, Extra
    <3> QED
      BY <3>1
  <2>7. CASE UNCHANGED vars
    BY <2>7 DEF vars, db
  <2>8. CASE Quiet
    BY <2>7, <2>8 DEF Quiet
  <2> QED
    BY <2>1, <2>2, <2>4, <2>5, <2>6, <2>7, <2>8 DEF Next
<1> QED
  BY <1>1, BaseInit, BaseStep, PTL DEF Spec, OneEffectPerEvent

----------------------------------------------------------------------------
(* A new account has no row and the plan "free".                           *)
LEMMA SyncInit == Init => SyncInv
BY DEF Init, SyncInv, PlanFollowsMirror, Target, Row, Blank, Granting

(* Steps of others leave what a lone request knows as it is.               *)
LEMMA AloneKept ==
  ASSUME NEW w \in Workers, Alone(w), pc[w] # "rest",
         UNCHANGED <<mirror, plan, pc, job, seen>>, sent'[job[w]] = sent[job[w]]
  PROVE  Alone(w)'
BY DEF Alone, Inserts, Handled

(* The row a commit of a lone request leaves is the one it computed.       *)
LEMMA CommitWrites ==
  ASSUME BaseInv, SyncInv, NEW w \in Workers, Commit(w), "overlap" \notin upset,
         Handled(w)
  PROVE  mirror' = New(w)
<1> USE DEF BaseInv
<1>1. pc[w] \in {"flushed", "clean"} /\ Alone(w)
  BY DEF Commit, MayCommit, SyncInv
<1>2. New(w) \in Rows
  BY <1>1, NewTyped
<1>3. CASE Inserts(w)
  BY <1>3 DEF Commit, Written
<1>4. CASE ~Inserts(w)
  <2>1. seen[w].mirror = mirror /\ mirror \in Rows
    BY <1>1, <1>4 DEF Alone, Inserts, TypeOK
  <2>2. DOMAIN mirror = {"plan", "status"} /\ DOMAIN New(w) = {"plan", "status"}
    BY <1>2, <2>1 DEF Rows
  <2>3. Written(w) = [c \in {"plan", "status"} |->
                        IF New(w)[c] # seen[w].mirror[c] THEN New(w)[c] ELSE mirror[c]]
    BY <1>4, <2>2 DEF Written
  <2>4. Written(w) = [c \in {"plan", "status"} |-> New(w)[c]]
    BY <2>1, <2>3
  <2>5. New(w) = [c \in {"plan", "status"} |-> New(w)[c]]
    BY <1>2 DEF Rows
  <2> QED
    BY <2>4, <2>5 DEF Commit
<1> QED
  BY <1>3, <1>4

(* And the plan is the one that goes with it.                              *)
LEMMA CommitSyncs ==
  ASSUME BaseInv, SyncInv, NEW w \in Workers, Commit(w), "overlap" \notin upset
  PROVE  PlanFollowsMirror'
<1> USE DEF BaseInv
<1>1. pc[w] \in {"flushed", "clean"} /\ Alone(w)
  BY DEF Commit, MayCommit, SyncInv
<1>2. New(w) \in Rows
  BY <1>1, NewTyped
<1>3. CASE Handled(w)
  <2>1. mirror' = New(w)
    BY <1>3, CommitWrites
  <2>2. plan' = Target(New(w))
    BY <1>1, <1>3 DEF Commit, MovesPlan, Alone
  <2>3. Row(New(w)) = New(w)
    BY <1>2, NoneAssumption DEF Row
  <2>4. Row(mirror)' = New(w)
    BY <2>1, <2>3 DEF Row
  <2> QED
    BY <2>2, <2>4 DEF PlanFollowsMirror, Target
<1>4. CASE ~Handled(w)
  <2>1. /\ mirror' = mirror /\ plan' = plan
        /\ granted' = granted /\ upset' = upset
    BY <1>4 DEF Commit, MovesPlan, TypeOK
  <2> QED
    BY <2>1 DEF SyncInv, PlanFollowsMirror, Target, Row
<1> QED
  BY <1>3, <1>4

(* What was out of order stays so.                                         *)
LEMMA UpsetGrows ==
  ASSUME BaseInv, [Next]_vars
  PROVE  upset \subseteq upset'
<1>1. CASE Stripe
  BY <1>1, StripeSends DEF BaseInv, Sends, Redeliver, history
<1>2. CASE ~Stripe
  BY <1>2 DEF Next, Deliver, Duplicate, Receive, Apply, Load, Flush, FlushFails,
     Reply, Commit, CommitConflicts, Fail, Checkout, Grant, Upset, Quiet, vars, history
<1> QED
  BY <1>1, <1>2

LEMMA SyncStep == BaseInv /\ SyncInv /\ [Next]_vars => SyncInv'
<1> SUFFICES ASSUME BaseInv, SyncInv, [Next]_vars PROVE SyncInv'
  OBVIOUS
<1> USE DEF BaseInv
<1>1. CASE "overlap" \in upset'
  BY <1>1 DEF SyncInv, PlanFollowsMirror
<1>2. ASSUME "overlap" \notin upset', "overlap" \notin upset PROVE SyncInv'
  <2>0. \A w \in Workers : pc[w] # "rest" => Alone(w)
    BY <1>2 DEF SyncInv
  <2>a. ASSUME UNCHANGED <<mirror, plan, granted>> PROVE PlanFollowsMirror'
    BY <1>2, <2>a DEF SyncInv, PlanFollowsMirror, Target, Row
  <2>b. ASSUME UNCHANGED <<mirror, plan, pc, job, seen>>,
               \A w \in Workers : pc[w] # "rest" => sent'[job[w]] = sent[job[w]]
        PROVE  \A w \in Workers : pc'[w] # "rest" => Alone(w)'
    BY <2>0, <2>b, AloneKept
  <2>c. ASSUME NEW w \in Workers, pc[w] # "rest", pc' = [pc EXCEPT ![w] = "rest"]
        PROVE  \A v \in Workers : pc'[v] = "rest"
    BY <2>0, <2>c DEF Alone, TypeOK
  <2>1. CASE Stripe
    <3>1. CASE Sends
      <4>1. PICK es \in Seq(Events) :
              Send(es) /\ UNCHANGED <<db, requests, granted>>
        BY <3>1 DEF Sends
      <4>2. \A w \in Workers : pc[w] # "rest" => sent'[job[w]] = sent[job[w]]
        BY <4>1, SendAdds DEF TypeOK, CarriesInv
      <4> QED
        BY <2>a, <2>b, <4>1, <4>2 DEF SyncInv, db, requests
    <3>2. ASSUME NEW n \in 1..MaxSent, Redeliver(n) PROVE SyncInv'
      BY <2>a, <2>b, <3>2 DEF Redeliver, SyncInv, db, requests, history
    <3> QED
      BY <2>1, <3>1, <3>2, StripeSends
  <2>2. ASSUME NEW n \in 1..MaxSent, NEW w \in Workers, Duplicate(w, n) PROVE SyncInv'
    BY <2>a, <2>b, <2>2 DEF Duplicate, SyncInv, db, requests, history
  <2>3. ASSUME NEW n \in 1..MaxSent, NEW w \in Workers, Receive(w, n) PROVE SyncInv'
    <3>1. \A v \in Workers : pc[v] = "rest"
      BY <1>2, <2>3 DEF Receive, Busy
    <3>2. \A v \in Workers \ {w} : pc'[v] = "rest"
      BY <2>3, <3>1 DEF Receive, Goto, TypeOK
    <3>3. pc'[w] = "received" /\ seen'[w].plan = plan'
      BY <2>3 DEF Receive, Goto, TypeOK, db
    <3>4. Alone(w)'
      BY <3>2, <3>3 DEF Alone
    <3> QED
      BY <2>3, <2>a, <3>2, <3>4 DEF Receive, SyncInv, db
  <2>4. ASSUME NEW w \in Workers, Load(w) \/ Flush(w) \/ Reply(w) PROVE SyncInv'
    <3>1. pc[w] # "rest" /\ Alone(w)
      BY <2>0, <2>4 DEF Load, Flush, Reply
    <3>2. \A v \in Workers \ {w} : pc'[v] = "rest"
      BY <2>4, <3>1 DEF Load, Flush, Reply, Goto, Alone, TypeOK
    <3>3. CASE Load(w)
      <4>1. pc'[w] = "loaded" /\ seen'[w].mirror = mirror' /\ seen'[w].plan = plan'
        BY <3>1, <3>3 DEF Load, Goto, Alone, TypeOK, db
      <4> QED
        BY <3>2, <3>3, <4>1, <2>a DEF Alone, SyncInv, Load, db, history
    <3>4. CASE Flush(w)
      <4>1. /\ UNCHANGED <<mirror, plan, job, seen, sent, granted>>
            /\ pc[w] = "loaded"
            /\ \/ pc'[w] = "flushed" /\ (Inserts(w) => mirror = None)
               \/ pc'[w] = "clean" /\ ~Inserts(w)
        BY <3>4 DEF Flush, Goto, TypeOK, stripe, db, history
      <4>2. Inserts(w)' = Inserts(w)
        BY <4>1 DEF Inserts, Handled
      <4>3. Alone(w)'
        BY <3>1, <3>2, <4>1, <4>2 DEF Alone
      <4> QED
        BY <3>2, <4>1, <4>3, <2>a DEF SyncInv
    <3>5. CASE Reply(w)
      BY <2>a, <2>b, <3>5 DEF Reply, SyncInv, db, history
    <3> QED
      BY <2>4, <3>3, <3>4, <3>5
  <2>5. ASSUME NEW w \in Workers, FlushFails(w) \/ CommitConflicts(w) \/ Fail(w)
        PROVE  SyncInv'
    <3>1. pc[w] # "rest" /\ pc' = [pc EXCEPT ![w] = "rest"]
      BY <2>5 DEF FlushFails, CommitConflicts, Fail, MayCommit, Rest, Goto
    <3>2. UNCHANGED <<mirror, plan, granted>>
      BY <2>5 DEF FlushFails, CommitConflicts, Fail, db
    <3> QED
      BY <2>a, <2>c, <3>1, <3>2 DEF SyncInv
  <2>6. ASSUME NEW w \in Workers, Commit(w) PROVE SyncInv'
    <3>1. pc[w] # "rest" /\ pc' = [pc EXCEPT ![w] = "rest"]
      BY <2>6 DEF Commit, MayCommit, Rest, Goto
    <3> QED
      BY <1>2, <2>6, <2>c, <3>1, CommitSyncs DEF SyncInv
  <2>7. CASE Checkout
    <3>1. /\ mirror = None /\ mirror' = Blank
          /\ UNCHANGED <<plan, granted, pc, job, seen, sent, upset>>
          /\ \A w \in Workers : pc[w] # "flushed"
      BY <2>7 DEF Checkout, Held, stripe, requests, history
    <3>2. \A w \in Workers : Inserts(w)' = Inserts(w)
      BY <3>1 DEF Inserts, Handled
    <3>3. \A w \in Workers : pc'[w] # "rest" => Alone(w)'
      BY <2>0, <3>1, <3>2 DEF Alone
    <3>4. Target(Row(mirror))' = Target(Row(mirror))
      BY <3>1, BlankTyped, NoneAssumption DEF Row, Target, Blank
    <3>5. PlanFollowsMirror'
      BY <1>2, <3>1, <3>4 DEF SyncInv, PlanFollowsMirror
    <3> QED
      BY <3>3, <3>5 DEF SyncInv
  <2>8. ASSUME NEW p \in Paid \cup {Free}, Grant(p) PROVE SyncInv'
    <3>1. \A w \in Workers : pc'[w] = "rest"
      BY <1>2, <2>8 DEF Grant, Busy, Upset, TypeOK, requests
    <3> QED
      BY <2>8, <3>1 DEF Grant, SyncInv, PlanFollowsMirror
  <2>9. CASE UNCHANGED vars
    BY <2>a, <2>b, <2>9 DEF vars, SyncInv, stripe, db, requests, history
  <2>10. CASE Quiet
    BY <2>9, <2>10 DEF Quiet
  <2> QED
    BY <2>1, <2>2, <2>3, <2>4, <2>5, <2>6, <2>7, <2>8, <2>9, <2>10
    DEF Next, Apply, Deliver
<1>3. upset \subseteq upset'
  BY UpsetGrows
<1> QED
  BY <1>1, <1>2, <1>3

(* Whatever the order of the events and whichever deliveries fail, the     *)
(* plan is the one the mirror entitles the account to, as long as no two   *)
(* requests overlapped and no operator had the last word.                  *)
THEOREM PlanIsTheMirrors == Spec => []PlanFollowsMirror
<1>1. SyncInv => PlanFollowsMirror
  BY DEF SyncInv
<1> QED
  BY <1>1, BaseInit, BaseStep, SyncInit, SyncStep, PTL DEF Spec

----------------------------------------------------------------------------
(* Events in order                                                         *)

(* g is what the row goes through when the events of s are applied in turn.*)
Replays(g, s) ==
  /\ g \in [0..Len(s) -> Rows] /\ g[0] = Blank
  /\ \A i \in 1..Len(s) : g[i] = Applied(g[i - 1], s[i])

(* What the last event left says what is billed: there is one subscription *)
(* at most, with the status of the row, and its plan if it has a price.    *)
Agrees(r) ==
  /\ live = {} => r.status \notin Granting
  /\ \A s \in live : /\ live = {s} /\ r.status = s.status
                     /\ s.price \in Paid => r.plan = s.price

(* Where nothing was out of order, the events recorded are a prefix of     *)
(* those sent, the row is what they make of a new one, and the request     *)
(* under way carries the next.                                             *)
OrderInv ==
  upset = {} =>
    /\ lost = {}
    /\ \E k \in 0..Len(sent), g \in [0..Len(sent) -> Rows] :
         /\ Replays(g, sent) /\ Agrees(g[Len(sent)])
         /\ recorded = 1..k /\ Row(mirror) = g[k]
         /\ \A w \in Workers : pc[w] # "rest" => job[w] = k + 1

LEMMA OrderInit == Init => OrderInv
<1> SUFFICES ASSUME Init PROVE OrderInv
  OBVIOUS
<1> DEFINE g == [i \in 0..0 |-> Blank]
<1>1. Len(sent) = 0 /\ sent = <<>>
  BY DEF Init
<1>2. Replays(g, sent) /\ g[0] = Blank
  BY <1>1, BlankTyped DEF Replays
<1>3. Agrees(g[0])
  BY <1>2 DEF Init, Agrees, Blank, Granting
<1>4. recorded = 1..0 /\ Row(mirror) = g[0]
  BY <1>2 DEF Init, Row
<1>5. g \in [0..Len(sent) -> Rows]
  BY <1>1, <1>2 DEF Replays
<1> QED
  BY <1>1, <1>2, <1>3, <1>4, <1>5 DEF Init, OrderInv

(* One more event.                                                         *)
LEMMA ReplayOne ==
  ASSUME NEW s \in Seq(Events), NEW t \in Seq(Events), NEW g, Replays(g, s),
         Len(t) = Len(s) + 1, \A i \in 1..Len(s) : t[i] = s[i]
  PROVE  \E h : /\ Replays(h, t) /\ h[Len(t)] = Applied(g[Len(s)], t[Len(t)])
                /\ \A i \in 0..Len(s) : h[i] = g[i]
<1> DEFINE new == Applied(g[Len(s)], t[Len(t)])
           h == [i \in 0..Len(t) |-> IF i = Len(t) THEN new ELSE g[i]]
<1>1. Len(s) \in Nat /\ Len(t) \in Nat /\ t[Len(t)] \in Events
  OBVIOUS
<1>2. \A i \in 0..Len(s) : g[i] \in Rows
  BY DEF Replays
<1>3. new \in Rows
  BY <1>1, <1>2, AppliedTyped
<1> HIDE DEF new
<1>4. h \in [0..Len(t) -> Rows]
  BY <1>1, <1>2, <1>3
<1>5. \A i \in 0..Len(s) : h[i] = g[i]
  BY <1>1
<1>6. h[Len(t)] = new
  BY <1>1
<1>7. ASSUME NEW i \in 1..Len(t) PROVE h[i] = Applied(h[i - 1], t[i])
  <2>1. CASE i = Len(t)
    BY <1>1, <1>5, <1>6, <2>1 DEF new
  <2>2. CASE i # Len(t)
    <3>1. i \in 1..Len(s) /\ i - 1 \in 0..Len(s)
      BY <1>1, <2>2
    <3>2. g[i] = Applied(g[i - 1], s[i])
      BY <3>1 DEF Replays
    <3> QED
      BY <1>1, <1>5, <3>1, <3>2
  <2> QED
    BY <2>1, <2>2
<1>8. h[0] = Blank
  BY <1>1, <1>5 DEF Replays
<1>9. Replays(h, t)
  BY <1>4, <1>7, <1>8 DEF Replays
<1> QED
  BY <1>5, <1>6, <1>9 DEF new

(* Stripe sends one event or two: the row they will make, if they come in  *)
(* order, and the rest stays as it was.                                    *)
LEMMA OrderSent ==
  ASSUME BaseInv, OrderInv, upset = {}, NEW es \in Seq(Events), Send(es),
         UNCHANGED <<db, requests, lost>>, Len(es) \in {1, 2},
         \A r \in Rows : Agrees(r) =>
           \E z : /\ Len(es) = 1 => z = Applied(r, es[1])
                  /\ Len(es) = 2 => z = Applied(Applied(r, es[1]), es[2])
                  /\ Agrees(z)'
  PROVE  OrderInv'
<1> USE DEF BaseInv
<1>1. PICK k \in 0..Len(sent), g \in [0..Len(sent) -> Rows] :
         /\ Replays(g, sent) /\ Agrees(g[Len(sent)])
         /\ recorded = 1..k /\ Row(mirror) = g[k]
         /\ \A w \in Workers : pc[w] # "rest" => job[w] = k + 1
  BY DEF OrderInv
<1>2. /\ sent \in Seq(Events) /\ sent' \in Seq(Events) /\ sent' = sent \o es
      /\ \A i \in 1..Len(sent) : sent'[i] = sent[i]
      /\ Len(sent') = Len(sent) + Len(es) /\ Len(sent) \in Nat
      /\ sent'[Len(sent) + 1] = es[1]
      /\ Len(es) = 2 => sent'[Len(sent) + 2] = es[2]
  BY DEF Send, TypeOK
<1>3. PICK r \in Rows : r = g[Len(sent)] /\ Agrees(r)
  <2>1. g[Len(sent)] \in Rows
    BY <1>2
  <2> QED
    BY <1>1, <2>1
<1>4. \E h, z : /\ Replays(h, sent') /\ \A i \in 0..Len(sent) : h[i] = g[i]
                /\ z = h[Len(sent')] /\ Agrees(z)'
  <2>1. CASE Len(es) = 1
    <3>1. PICK h : /\ Replays(h, sent')
                   /\ h[Len(sent')] = Applied(g[Len(sent)], sent'[Len(sent')])
                   /\ \A i \in 0..Len(sent) : h[i] = g[i]
      BY <1>1, <1>2, <2>1, ReplayOne
    <3>2. h[Len(sent')] = Applied(r, es[1])
      BY <1>2, <1>3, <2>1, <3>1
    <3>3. PICK z : z = Applied(r, es[1]) /\ Agrees(z)'
      BY <1>3, <2>1
    <3> QED
      BY <3>1, <3>2, <3>3
  <2>2. CASE Len(es) = 2
    <3>1. PICK t \in Seq(Events) : t = Append(sent, es[1])
      <4>1. Append(sent, es[1]) \in Seq(Events)
        BY <1>2, <2>2
      <4> QED
        BY <4>1
    <3>2. Len(t) = Len(sent) + 1 /\ t[Len(t)] = es[1] /\ \A i \in 1..Len(sent) : t[i] = sent[i]
      BY <1>2, <2>2, <3>1
    <3>3. PICK f : /\ Replays(f, t) /\ f[Len(t)] = Applied(g[Len(sent)], t[Len(t)])
                   /\ \A i \in 0..Len(sent) : f[i] = g[i]
      <4>1. PICK u \in Seq(Events) : u = sent
        BY <1>2
      <4>2. Replays(g, u) /\ Len(t) = Len(u) + 1 /\ \A i \in 1..Len(u) : t[i] = u[i]
        BY <1>1, <3>2, <4>1
      <4>3. \E f : /\ Replays(f, t) /\ f[Len(t)] = Applied(g[Len(u)], t[Len(t)])
                  /\ \A i \in 0..Len(u) : f[i] = g[i]
        BY <4>2, ReplayOne
      <4> QED
        BY <4>1, <4>3
    <3>4. Len(sent') = Len(t) + 1 /\ \A i \in 1..Len(t) : sent'[i] = t[i]
      <4>1. Len(sent') = Len(t) + 1
        BY <1>2, <2>2, <3>2
      <4>2. ASSUME NEW i \in 1..Len(t) PROVE sent'[i] = t[i]
        <5>1. i \in 1..Len(sent) \/ i = Len(sent) + 1
          BY <1>2, <3>2
        <5> QED
          BY <1>2, <3>2, <5>1
      <4> QED
        BY <4>1, <4>2
    <3>5. PICK h : /\ Replays(h, sent')
                   /\ h[Len(sent')] = Applied(f[Len(t)], sent'[Len(sent')])
                   /\ \A i \in 0..Len(t) : h[i] = f[i]
      <4>1. PICK u \in Seq(Events) : u = sent'
        BY <1>2
      <4>2. Replays(f, t) /\ Len(u) = Len(t) + 1 /\ \A i \in 1..Len(t) : u[i] = t[i]
        BY <3>3, <3>4, <4>1
      <4>3. \E h : /\ Replays(h, u) /\ h[Len(u)] = Applied(f[Len(t)], u[Len(u)])
                  /\ \A i \in 0..Len(t) : h[i] = f[i]
        BY <4>2, ReplayOne
      <4> QED
        BY <4>1, <4>3
    <3>6. h[Len(sent')] = Applied(Applied(r, es[1]), es[2])
      <4>1. sent'[Len(sent')] = es[2]
        BY <1>2, <2>2
      <4> QED
        BY <1>3, <3>2, <3>3, <3>5, <4>1
    <3>7. PICK z : z = Applied(Applied(r, es[1]), es[2]) /\ Agrees(z)'
      BY <1>3, <2>2
    <3>8. \A i \in 0..Len(sent) : h[i] = g[i]
      <4>1. 0..Len(sent) \subseteq 0..Len(t)
        BY <1>2, <3>2
      <4> QED
        BY <3>3, <3>5, <4>1
    <3> QED
      BY <3>5, <3>6, <3>7, <3>8
  <2> QED
    BY <2>1, <2>2
<1>5. PICK h, z : /\ Replays(h, sent') /\ \A i \in 0..Len(sent) : h[i] = g[i]
                  /\ z = h[Len(sent')] /\ Agrees(z)'
  BY <1>4
<1>6. k \in 0..Len(sent') /\ h \in [0..Len(sent') -> Rows]
  BY <1>2, <1>5 DEF Replays
<1>7. Row(mirror)' = h[k]
  BY <1>1, <1>5 DEF Row, db
<1>8. Agrees(h[Len(sent)])'
  BY <1>5
<1>9. lost' = {} /\ recorded' = 1..k /\ \A w \in Workers : pc'[w] # "rest" => job'[w] = k + 1
  BY <1>1 DEF OrderInv, db, requests
<1> QED
  BY <1>5, <1>6, <1>7, <1>8, <1>9 DEF OrderInv

(* What Stripe's events say agrees with what it bills.                     *)
LEMMA OrderStripe ==
  ASSUME BaseInv, OrderInv, upset = {}, upset' = {}, Stripe
  PROVE  OrderInv'
<1> USE DEF BaseInv
<1>1. live \in SUBSET Subscriptions /\ Paid \subseteq Prices
  BY DEF TypeOK, Prices
<1>2. ASSUME NEW r \in Rows
      PROVE  /\ DOMAIN r = {"plan", "status"}
             /\ \A p, x : [r EXCEPT !.status = x].status = x /\ [r EXCEPT !.status = x].plan = r.plan
             /\ \A p, x : [r EXCEPT !.status = x, !.plan = p].status = x
                       /\ [r EXCEPT !.status = x, !.plan = p].plan = p
             /\ \A x : [r EXCEPT !.status = x] = [r EXCEPT !.status = x, !.plan = r.plan]
  BY DEF Rows
<1>3. ASSUME NEW r \in Rows, NEW e \in Events
      PROVE  LET a == Applied(r, e) IN
             /\ a \in Rows
             /\ e.kind = "checkout" => a.status = "active" /\ a.plan = r.plan
             /\ e.kind = "payment_failed" => a.status = "past_due" /\ a.plan = r.plan
             /\ e.kind = "deleted" => a.status = "canceled" /\ a.plan = r.plan
             /\ e.kind = "subscription" =>
                  a.status = e.status /\ (e.price \in Paid => a.plan = e.price)
             /\ e.kind = "other" => a = r
  <2>1. Applied(r, e) \in Rows
    BY <1>3, AppliedTyped
  <2>2. r.plan \in Paid \cup {Free} /\ r.status \in Statuses
    BY DEF Rows
  <2>3. CASE e.kind = "subscription"
    BY <1>3, <2>1, <2>3 DEF Applied, Rows
  <2>4. CASE e.kind # "subscription"
    BY <1>3, <2>1, <2>4 DEF Applied, Rows
  <2> QED
    BY <2>1, <2>3, <2>4
<1>4. ASSUME NEW s \in Subscriptions, NEW kind \in Kinds
      PROVE  /\ Event(kind, s) \in Events /\ Event(kind, s).kind = kind
             /\ Event(kind, s).price = s.price /\ Event(kind, s).status = s.status
  BY <1>4, EventTyped DEF Event
<1>5. {"checkout", "subscription", "deleted", "payment_failed", "other"} = Kinds
  BY DEF Kinds
<1>6. ASSUME NEW p \in Paid, Buy(p) PROVE OrderInv'
  <2> DEFINE s == [id |-> Len(sent), price |-> p, status |-> "active"]
             paid == Event("checkout", s)
             made == Event("subscription", s)
  <2>1. /\ Send(<<paid, made>>) \/ Send(<<made, paid>>) \/ Send(<<made>>)
        /\ live' = live \cup {s} /\ UNCHANGED <<db, requests, lost>>
    BY <1>6 DEF Buy
  <2>2. live = {}
    BY <1>6 DEF Buy, Upset
  <2>3. s \in Subscriptions
    BY DEF Subscriptions, Statuses, Granting, Prices, TypeOK
  <2>4. s.price = p /\ s.status = "active"
    OBVIOUS
  <2> HIDE DEF s
  <2>5. /\ paid \in Events /\ paid.kind = "checkout"
        /\ made \in Events /\ made.kind = "subscription" /\ made.price = p
        /\ made.status = "active"
    BY <1>4, <1>5, <2>3, <2>4
  <2> HIDE DEF paid, made
  <2>6. \A r : r.status = "active" /\ r.plan = p => Agrees(r)'
    BY <2>1, <2>2, <2>4 DEF Agrees
  <2>7. ASSUME NEW r \in Rows
        PROVE  /\ \E z : z = Applied(Applied(r, paid), made) /\ Agrees(z)'
               /\ \E z : z = Applied(Applied(r, made), paid) /\ Agrees(z)'
               /\ \E z : z = Applied(r, made) /\ Agrees(z)'
    <3>1. PICK a \in Rows : a = Applied(r, paid)
      BY <1>3, <2>5
    <3>2. PICK b \in Rows : b = Applied(r, made) /\ b.status = "active" /\ b.plan = p
      BY <1>3, <1>6, <2>5
    <3>3. PICK z \in Rows : z = Applied(a, made) /\ z.status = "active" /\ z.plan = p
      BY <1>3, <1>6, <2>5
    <3>4. PICK y \in Rows : y = Applied(b, paid) /\ y.status = "active" /\ y.plan = p
      BY <1>3, <2>5, <3>2
    <3>5. Agrees(z)' /\ Agrees(y)' /\ Agrees(b)'
      BY <2>6, <3>2, <3>3, <3>4
    <3> QED
      BY <3>1, <3>2, <3>3, <3>4, <3>5
  <2>8. ASSUME NEW a \in Events, NEW b \in Events, Send(<<a, b>>),
               \A r \in Rows : \E z : z = Applied(Applied(r, a), b) /\ Agrees(z)'
        PROVE  OrderInv'
    <3>1. <<a, b>> \in Seq(Events)
      OBVIOUS
    <3>2. PICK es \in Seq(Events) : es = <<a, b>>
      BY <3>1
    <3>3. Len(es) = 2 /\ es[1] = a /\ es[2] = b /\ Send(es)
      BY <2>8, <3>2
    <3> QED
      BY <2>1, <2>8, <3>3, OrderSent
  <2>9. ASSUME Send(<<made>>) PROVE OrderInv'
    <3>1. <<made>> \in Seq(Events)
      BY <2>5
    <3>2. PICK es \in Seq(Events) : es = <<made>>
      BY <3>1
    <3>3. Len(es) = 1 /\ es[1] = made /\ Send(es)
      BY <2>9, <3>2
    <3> QED
      BY <2>1, <2>7, <3>3, OrderSent
  <2>10. CASE Send(<<paid, made>>)
    BY <2>5, <2>7, <2>8, <2>10
  <2>11. CASE Send(<<made, paid>>)
    BY <2>5, <2>7, <2>8, <2>11
  <2> QED
    BY <2>1, <2>9, <2>10, <2>11
<1>7. ASSUME NEW kind \in Kinds, NEW s \in live, NEW new \in Subscriptions,
             Send(<<Event(kind, new)>>), UNCHANGED <<db, requests, lost>>,
             \/ kind = "subscription" /\ live' = (live \ {s}) \cup {new}
             \/ kind = "deleted" /\ live' = live \ {s}
             \/ kind = "other" /\ live' = live
      PROVE  OrderInv'
  <2>1. PICK e \in Events : e = Event(kind, new)
    BY <1>4
  <2>2. e.kind = kind /\ e.price = new.price /\ e.status = new.status
    BY <1>4, <2>1
  <2>0. <<e>> \in Seq(Events)
    OBVIOUS
  <2>3. PICK es \in Seq(Events) : es = <<e>>
    BY <2>0
  <2>4. Len(es) = 1 /\ es[1] = e /\ Send(es)
    BY <1>7, <2>1, <2>3
  <2>5. ASSUME NEW r \in Rows, Agrees(r) PROVE \E z : z = Applied(r, e) /\ Agrees(z)'
    <3>1. live = {s}
      BY <2>5 DEF Agrees
    <3>2. CASE kind = "subscription"
      <4>1. PICK a \in Rows : /\ a = Applied(r, e) /\ a.status = new.status
                              /\ new.price \in Paid => a.plan = new.price
        BY <1>3, <2>2, <3>2
      <4>2. live' = {new}
        BY <1>7, <3>1, <3>2
      <4>3. Agrees(a)'
        BY <4>1, <4>2 DEF Agrees
      <4> QED
        BY <4>1, <4>3
    <3>3. CASE kind = "deleted"
      <4>1. PICK a \in Rows : a = Applied(r, e) /\ a.status = "canceled"
        BY <1>3, <2>2, <3>3
      <4>2. live' = {}
        BY <1>7, <3>1, <3>3
      <4>3. Agrees(a)'
        BY <4>1, <4>2 DEF Agrees, Granting
      <4> QED
        BY <4>1, <4>3
    <3>4. CASE kind = "other"
      <4>1. Applied(r, e) = r /\ live' = live
        BY <1>3, <1>7, <2>2, <3>4
      <4>2. Agrees(r)'
        BY <2>5, <4>1 DEF Agrees
      <4> QED
        BY <4>1, <4>2
    <3> QED
      BY <1>7, <3>2, <3>3, <3>4
  <2> QED
    BY <1>7, <2>4, <2>5, OrderSent
<1>8. ASSUME NEW s \in live, NEW new \in Subscriptions, Change(s, new) PROVE OrderInv'
  BY <1>5, <1>7, <1>8 DEF Change, history
<1>9. ASSUME NEW s \in live PROVE /\ \A p \in Prices : [s EXCEPT !.price = p] \in Subscriptions
                                 /\ \A x \in {"active", "unpaid", "past_due"} :
                                      [s EXCEPT !.status = x] \in Subscriptions
  BY <1>1 DEF Subscriptions, Statuses, Granting
<1>10. ASSUME NEW s \in live, NEW p \in Prices, Reprice(s, p) PROVE OrderInv'
  BY <1>8, <1>9, <1>10 DEF Reprice
<1>11. ASSUME NEW s \in live, NEW x \in {"active", "unpaid"}, Settle(s, x) PROVE OrderInv'
  BY <1>8, <1>9, <1>11 DEF Settle
<1>12. ASSUME NEW s \in live, Lapse(s) PROVE OrderInv'
  <2>1. PICK new \in Subscriptions : new = [s EXCEPT !.status = "past_due"]
    BY <1>9
  <2>2. new.status = "past_due" /\ new.price = s.price
    BY <1>1, <2>1 DEF Subscriptions
  <2>3. PICK a \in Events : a = Event("payment_failed", s)
    BY <1>1, <1>4, <1>5
  <2>4. PICK b \in Events : b = Event("subscription", new)
    BY <1>4, <1>5
  <2>5. /\ a.kind = "payment_failed" /\ b.kind = "subscription"
        /\ b.price = new.price /\ b.status = "past_due"
    BY <1>1, <1>4, <1>5, <2>2, <2>3, <2>4
  <2>9. <<a, b>> \in Seq(Events)
    OBVIOUS
  <2>6. PICK es \in Seq(Events) : es = <<a, b>>
    BY <2>9
  <2>7. /\ Len(es) = 2 /\ es[1] = a /\ es[2] = b /\ Send(es)
        /\ live' = (live \ {s}) \cup {new} /\ UNCHANGED <<db, requests, lost>>
    BY <1>12, <2>1, <2>3, <2>4, <2>6 DEF Lapse, history
  <2>8. ASSUME NEW r \in Rows, Agrees(r)
        PROVE  \E z : z = Applied(Applied(r, a), b) /\ Agrees(z)'
    <3>1. live' = {new}
      BY <2>7, <2>8 DEF Agrees
    <3>4. PICK y \in Rows : y = Applied(r, a)
      BY <1>3
    <3>5. PICK z \in Rows : /\ z = Applied(y, b) /\ z.status = "past_due"
                            /\ new.price \in Paid => z.plan = new.price
      BY <1>3, <2>5
    <3>2. /\ z = Applied(Applied(r, a), b) /\ z.status = "past_due"
          /\ new.price \in Paid => z.plan = new.price
      BY <3>4, <3>5
    <3>3. Agrees(z)'
      BY <2>2, <3>1, <3>2 DEF Agrees
    <3> QED
      BY <3>2, <3>3
  <2> QED
    BY <2>7, <2>8, OrderSent
<1>13. ASSUME NEW s \in live, End(s) PROVE OrderInv'
  BY <1>1, <1>5, <1>7, <1>13 DEF End, history
<1>14. ASSUME NEW s \in live, Notify(s) PROVE OrderInv'
  BY <1>1, <1>5, <1>7, <1>14 DEF Notify, history
<1>15. ASSUME NEW n \in 1..MaxSent, Redeliver(n) PROVE OrderInv'
  BY <1>15 DEF Redeliver, OrderInv, Agrees, db, requests, history
<1> QED
  BY <1>6, <1>10, <1>11, <1>12, <1>13, <1>14, <1>15 DEF Stripe

(* Whatever leaves the row, the record and Stripe as they are.             *)
LEMMA OrderKept ==
  ASSUME OrderInv, upset = {}, UNCHANGED <<live, sent, recorded, lost>>,
         Row(mirror)' = Row(mirror),
         \A w \in Workers : pc'[w] # "rest" => pc[w] # "rest" /\ job'[w] = job[w]
  PROVE  OrderInv'
<1>1. PICK k \in 0..Len(sent), g \in [0..Len(sent) -> Rows] :
         /\ Replays(g, sent) /\ Agrees(g[Len(sent)])
         /\ recorded = 1..k /\ Row(mirror) = g[k]
         /\ \A w \in Workers : pc[w] # "rest" => job[w] = k + 1
  BY DEF OrderInv
<1>2. PICK z : z = g[Len(sent)]
  OBVIOUS
<1>3. Agrees(z)'
  BY <1>1, <1>2 DEF Agrees
<1>4. Agrees(g[Len(sent)])'
  BY <1>2, <1>3
<1>5. Replays(g, sent)'
  BY <1>1
<1>6. k \in 0..Len(sent') /\ g \in [0..Len(sent') -> Rows]
  OBVIOUS
<1>7. lost' = {} /\ recorded' = 1..k /\ Row(mirror)' = g[k]
  BY <1>1 DEF OrderInv
<1>8. \A w \in Workers : pc'[w] # "rest" => job'[w] = k + 1
  BY <1>1
<1> QED
  BY <1>4, <1>5, <1>6, <1>7, <1>8 DEF OrderInv

(* A request carries the first event not recorded.                         *)
LEMMA OrderReceive ==
  ASSUME BaseInv, OrderInv, upset = {}, upset' = {},
         NEW n \in 1..MaxSent, NEW w \in Workers, Receive(w, n)
  PROVE  OrderInv'
<1>1. PICK k \in 0..Len(sent), g \in [0..Len(sent) -> Rows] :
         /\ Replays(g, sent) /\ Agrees(g[Len(sent)])
         /\ recorded = 1..k /\ Row(mirror) = g[k]
         /\ \A v \in Workers : pc[v] # "rest" => job[v] = k + 1
  BY DEF OrderInv
<1>2. ~Busy /\ 1..(n - 1) \subseteq 1..k /\ n \notin 1..k
  BY <1>1 DEF Receive
<1>3. k \in Nat /\ n \in Nat \ {0}
  BY ConstantsAssumption DEF BaseInv, TypeOK
<1>4. n = k + 1
  <2>1. n > k
    BY <1>2, <1>3
  <2>2. CASE n > k + 1
    <3>1. k + 1 \in 1..(n - 1) /\ k + 1 \notin 1..k
      BY <1>3, <2>2
    <3> QED
      BY <1>2, <3>1
  <2> QED
    BY <1>3, <2>1, <2>2
<1>5. UNCHANGED <<live, sent, mirror, recorded, lost>>
  BY DEF Receive, stripe, db
<1>6. \A v \in Workers : pc'[v] # "rest" => job'[v] = k + 1
  BY <1>2, <1>4 DEF Receive, Goto, Busy, BaseInv, TypeOK
<1>7. PICK z : z = g[Len(sent)]
  OBVIOUS
<1>8. Agrees(z)'
  BY <1>1, <1>5, <1>7 DEF Agrees
<1>9. Agrees(g[Len(sent)])'
  BY <1>5, <1>7, <1>8
<1>10. Replays(g, sent)' /\ Row(mirror)' = g[k]
  BY <1>1, <1>5 DEF Row
<1>11. k \in 0..Len(sent') /\ g \in [0..Len(sent') -> Rows] /\ lost' = {} /\ recorded' = 1..k
  BY <1>1, <1>5 DEF OrderInv
<1> QED
  BY <1>6, <1>9, <1>10, <1>11 DEF OrderInv

(* A commit takes the row one event further.                               *)
LEMMA OrderCommit ==
  ASSUME BaseInv, SyncInv, OrderInv, upset = {}, NEW w \in Workers, Commit(w)
  PROVE  OrderInv'
<1> USE DEF BaseInv
<1>1. PICK k \in 0..Len(sent), g \in [0..Len(sent) -> Rows] :
         /\ Replays(g, sent) /\ Agrees(g[Len(sent)])
         /\ recorded = 1..k /\ Row(mirror) = g[k]
         /\ \A v \in Workers : pc[v] # "rest" => job[v] = k + 1
  BY DEF OrderInv
<1>2. pc[w] \in {"flushed", "clean"} /\ Alone(w)
  BY DEF Commit, MayCommit, SyncInv
<1>3. job[w] = k + 1 /\ k + 1 \in 1..Len(sent) /\ k \in Nat
  BY <1>1, <1>2 DEF CarriesInv, TypeOK
<1>4. g[k + 1] = Applied(g[k], sent[k + 1])
  <2>1. k + 1 - 1 = k
    BY <1>3
  <2> QED
    BY <1>1, <1>3, <2>1 DEF Replays
<1>5. Row(mirror)' = Applied(Row(mirror), sent[job[w]])
  <2>1. CASE Handled(w)
    <3>1. mirror' = New(w) /\ New(w) \in Rows
      BY <1>2, <2>1, CommitWrites, NewTyped
    <3>2. Row(mirror)' = New(w)
      BY <3>1, NoneAssumption DEF Row
    <3>3. seen[w].mirror = mirror
      BY <1>2, <2>1 DEF Alone, Inserts
    <3> QED
      BY <3>2, <3>3 DEF New
  <2>2. CASE ~Handled(w)
    <3>1. mirror' = mirror
      BY <2>2 DEF Commit
    <3>2. Applied(Row(mirror), sent[job[w]]) = Row(mirror)
      BY <2>2 DEF Handled, Applied
    <3> QED
      BY <3>1, <3>2 DEF Row
  <2> QED
    BY <2>1, <2>2
<1>6. Row(mirror)' = g[k + 1]
  BY <1>1, <1>3, <1>4, <1>5
<1>7. UNCHANGED <<live, sent, lost>> /\ recorded' = 1..(k + 1)
  BY <1>1, <1>3 DEF Commit
<1>8. \A v \in Workers : pc'[v] = "rest"
  BY <1>2 DEF Commit, Rest, Goto, Alone, TypeOK
<1>9. PICK z : z = g[Len(sent)]
  OBVIOUS
<1>10. Agrees(z)'
  BY <1>1, <1>7, <1>9 DEF Agrees
<1>11. Agrees(g[Len(sent)])' /\ Replays(g, sent)'
  BY <1>1, <1>7, <1>9, <1>10
<1>12. k + 1 \in 0..Len(sent') /\ g \in [0..Len(sent') -> Rows] /\ lost' = {}
  BY <1>3, <1>7 DEF OrderInv
<1> QED
  BY <1>6, <1>7, <1>8, <1>11, <1>12 DEF OrderInv

LEMMA OrderStep == BaseInv /\ SyncInv /\ OrderInv /\ [Next]_vars => OrderInv'
<1> SUFFICES ASSUME BaseInv, SyncInv, OrderInv, [Next]_vars, upset' = {} PROVE OrderInv'
  BY DEF OrderInv
<1>1. upset = {}
  BY UpsetGrows
<1>2. CASE Stripe
  BY <1>1, <1>2, OrderStripe
<1>3. ASSUME NEW n \in 1..MaxSent, NEW w \in Workers, Duplicate(w, n) PROVE OrderInv'
  BY <1>1, <1>3, OrderKept DEF Duplicate, Row, db, requests, history
<1>4. ASSUME NEW n \in 1..MaxSent, NEW w \in Workers, Receive(w, n) PROVE OrderInv'
  BY <1>1, <1>4, OrderReceive
<1>5. ASSUME NEW w \in Workers, Load(w) \/ Flush(w) \/ Reply(w) PROVE OrderInv'
  <2>1. UNCHANGED <<live, sent, mirror, recorded, lost, job>> /\ pc[w] # "rest"
    BY <1>5 DEF Load, Flush, Reply, stripe, db, history
  <2>2. \A v \in Workers : pc'[v] # "rest" => pc[v] # "rest"
    BY <1>5, <2>1 DEF Load, Flush, Reply, Goto, BaseInv, TypeOK
  <2> QED
    BY <1>1, <2>1, <2>2, OrderKept DEF Row
<1>6. ASSUME NEW w \in Workers, FlushFails(w) \/ CommitConflicts(w) \/ Fail(w)
      PROVE  OrderInv'
  <2>1. UNCHANGED <<live, sent, mirror, recorded>> /\ Rest(w)
    BY <1>6 DEF FlushFails, CommitConflicts, Fail, stripe, db
  <2>2. lost' = lost
    BY <1>6 DEF FlushFails, CommitConflicts, Fail, Upset
  <2>3. \A v \in Workers : pc'[v] # "rest" => pc[v] # "rest" /\ job'[v] = job[v]
    BY <2>1 DEF Rest, Goto, BaseInv, TypeOK
  <2> QED
    BY <1>1, <2>1, <2>2, <2>3, OrderKept DEF Row
<1>7. ASSUME NEW w \in Workers, Commit(w) PROVE OrderInv'
  BY <1>1, <1>7, OrderCommit
<1>8. CASE Checkout
  <2>1. Row(mirror)' = Row(mirror)
    BY <1>8, BlankTyped, NoneAssumption DEF Checkout, Row
  <2> QED
    BY <1>1, <1>8, <2>1, OrderKept DEF Checkout, stripe, requests, history
<1>9. ASSUME NEW p \in Paid \cup {Free}, Grant(p) PROVE OrderInv'
  BY <1>1, <1>9, OrderKept DEF Grant, Row, stripe, requests
<1>10. CASE UNCHANGED vars
  BY <1>1, <1>10, OrderKept DEF vars, Row, stripe, db, requests, history
<1>11. CASE Quiet
  BY <1>10, <1>11 DEF Quiet
<1> QED
  BY <1>2, <1>3, <1>4, <1>5, <1>6, <1>7, <1>8, <1>9, <1>10, <1>11
  DEF Next, Apply, Deliver

(* Events delivered in order, one at a time, none lost, each of them any   *)
(* number of times, leave the account with the plan that is paid for.      *)
THEOREM MoneyIsReconciled == Spec => []Reconciled
<1>1. BaseInv /\ SyncInv /\ AnsweredInv /\ OrderInv => Reconciled
  <2> SUFFICES ASSUME BaseInv, SyncInv, AnsweredInv, OrderInv,
                      upset = {}, ~granted, ~Busy, unacked = {},
                      Unlisted \notin {s.price : s \in live}
               PROVE  plan \in Owed
    BY DEF Reconciled
  <2>1. PICK k \in 0..Len(sent), g \in [0..Len(sent) -> Rows] :
           Agrees(g[Len(sent)]) /\ recorded = 1..k /\ Row(mirror) = g[k]
    BY DEF OrderInv
  <2>2. Len(sent) \in Nat /\ 1..Len(sent) \subseteq 1..k
    <3>1. Len(sent) \in Nat /\ lost = {}
      BY DEF BaseInv, TypeOK, OrderInv
    <3>2. \A w \in Workers : ~answered[w]
      BY DEF AnsweredInv, Busy
    <3>3. \A n \in 1..Len(sent) : n \in recorded
      BY <3>1, <3>2 DEF AnsweredInv
    <3> QED
      BY <2>1, <3>1, <3>3
  <2>3. k = Len(sent)
    <3>1. CASE k < Len(sent)
      <4>1. Len(sent) \in 1..Len(sent) /\ Len(sent) \notin 1..k
        BY <2>2, <3>1
      <4> QED
        BY <2>2, <4>1
    <3> QED
      BY <2>2, <3>1
  <2>4. PICK r : r = Row(mirror) /\ Agrees(r)
    BY <2>1, <2>3
  <2>5. plan = Target(r)
    BY <2>4 DEF SyncInv, PlanFollowsMirror
  <2>6. CASE live = {}
    <3>1. Owed = {Free}
      BY <2>6 DEF Owed
    <3>2. plan = Free
      BY <2>4, <2>5, <2>6 DEF Agrees, Target
    <3> QED
      BY <3>1, <3>2
  <2>7. ASSUME NEW s \in live PROVE plan \in Owed
    <3>1. /\ live = {s} /\ r.status = s.status /\ s.price # Unlisted
          /\ s.price \in Paid => r.plan = s.price
      BY <2>4, <2>7 DEF Agrees
    <3>2. s.price \in Paid
      BY <3>1 DEF BaseInv, TypeOK, Subscriptions, Prices
    <3>3. CASE s.status \in Granting
      <4>1. {x \in live : x.status \in Granting} = {s}
        BY <3>1, <3>3
      <4>2. Owed = {x.price : x \in {s}}
        BY <4>1 DEF Owed
      <4> QED
        BY <2>5, <3>1, <3>2, <3>3, <4>2 DEF Target
    <3>4. CASE s.status \notin Granting
      <4>1. {x \in live : x.status \in Granting} = {}
        BY <3>1, <3>4
      <4>2. Owed = {Free}
        BY <4>1 DEF Owed
      <4> QED
        BY <2>5, <3>1, <3>4, <4>2 DEF Target
    <3> QED
      BY <3>3, <3>4
  <2> QED
    BY <2>6, <2>7
<1> QED
  BY <1>1, BaseInit, BaseStep, SyncInit, SyncStep, AnsweredInit, AnsweredStep,
     OrderInit, OrderStep, PTL DEF Spec
===============================================================================
