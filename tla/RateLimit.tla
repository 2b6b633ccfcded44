------------------------------ MODULE RateLimit ------------------------------
(***************************************************************************)
(* app/ratelimit.py, and what api/auth.py asks of it before a login and a  *)
(* registration.  Every worker has a table of its own, in memory.          *)
(*                                                                         *)
(* Time is counted in half seconds, so that a hit need not fall on a whole *)
(* second of the wait that a caller is told.                               *)
(***************************************************************************)
EXTENDS Naturals, Sequences, SequencesExt, Functions, FiniteSets

CONSTANTS
  Hosts, Accounts,
  Login_Per_Ip, Login_Per_Account, Register_Per_Ip,  (* [limit, window in half seconds] *)
  Max_Tracked_Keys,
  LastTick,        (* bound on the clock                                    *)
  MaxAttempts      (* bound on the attempts                                 *)

Rules == [login_ip |-> Login_Per_Ip, login_account |-> Login_Per_Account,
          register |-> Register_Per_Ip]

ASSUME RateLimitAssumption ==
  /\ \A b \in DOMAIN Rules : Rules[b].limit \in Nat \ {0} /\ Rules[b].window \in Nat \ {0}
  /\ Login_Per_Ip.window = Login_Per_Account.window
  /\ {Max_Tracked_Keys, LastTick, MaxAttempts} \subseteq Nat

VARIABLES
  now,             (* time.monotonic()                                      *)
  hits,            (* _hits: a deque of times for every bucket and key      *)
  attempts         (* history: what check() has been asked, and answered    *)

limitVars == <<now, hits, attempts>>

Keys == {<<"login_ip", h>> : h \in Hosts} \cup {<<"register", h>> : h \in Hosts}
          \cup {<<"login_account", a>> : a \in Accounts}
Rule(k) == Rules[k[1]]
AtLeast(a, b) == IF a >= b THEN a ELSE b

----------------------------------------------------------------------------
(* From the left, until there is one inside the window.                    *)
_prune(bucket, window) ==
  LET kept == {i \in DOMAIN bucket : bucket[i] + window > now}
      first == CHOOSE i \in kept : \A j \in kept : i <= j
  IN IF kept = {} THEN <<>> ELSE SubSeq(bucket, first, Len(bucket))

(* Mutant of _evict_stale: what the window of a login has left behind.     *)
_evict_stale_Early(table) ==
  Restrict(table, {k \in DOMAIN table :
                     table[k] # <<>> /\ Last(table[k]) + Login_Per_Ip.window > now})

(* What has not been hit for the longest window goes.                      *)
_evict_stale(table) ==
  LET longest == AtLeast(Login_Per_Ip.window, Register_Per_Ip.window)
  IN Restrict(table, {k \in DOMAIN table :
                        table[k] # <<>> /\ Last(table[k]) + longest > now})

(* The table that check() leaves, and the seconds to wait: 0 for None.     *)
check(table, k) ==
  LET rule == Rule(k)
      entry == _prune(IF k \in DOMAIN table THEN table[k] ELSE <<>>, rule.window)
      with(e) == [j \in DOMAIN table \cup {k} |-> IF j = k THEN e ELSE table[j]]
      grown == with(Append(entry, now))
  IN IF Len(entry) >= rule.limit
     THEN [table |-> with(entry),
           wait |-> AtLeast(1, ((rule.window - (now - Head(entry))) \div 2) + 1)]
     ELSE [table |-> IF Cardinality(DOMAIN grown) > Max_Tracked_Keys
                     THEN _evict_stale(grown) ELSE grown,
           wait |-> 0]

(* enforce() for one key after the other: the first refusal raises.        *)
enforce(ks) ==
  LET first == check(hits, ks[1])
      second == check(first.table, ks[2])
      asked(i, c) == [key |-> ks[i], at |-> now, wait |-> c.wait]
  IN IF Len(ks) = 1 \/ first.wait > 0
     THEN hits' = first.table /\ attempts' = Append(attempts, asked(1, first))
     ELSE hits' = second.table /\ attempts' = attempts \o <<asked(1, first), asked(2, second)>>

login(h, a) ==
  /\ Len(attempts) < MaxAttempts
  /\ enforce(<< <<"login_ip", h>>, <<"login_account", a>> >>)
  /\ UNCHANGED now

register(h) ==
  /\ Len(attempts) < MaxAttempts
  /\ enforce(<< <<"register", h>> >>)
  /\ UNCHANGED now

(* The worker is restarted: its table is empty, and its history begins.    *)
Restarted == hits' = <<>> /\ attempts' = <<>> /\ UNCHANGED now

Tick == now < LastTick /\ now' = now + 1 /\ UNCHANGED <<hits, attempts>>

----------------------------------------------------------------------------
LimitInit == now = 0 /\ hits = <<>> /\ attempts = <<>>

LimitTypeOK ==
  /\ now \in 0..LastTick
  /\ DOMAIN hits \subseteq Keys /\ \A k \in DOMAIN hits : hits[k] \in Seq(0..LastTick)
  /\ \A n \in DOMAIN attempts : attempts[n] \in [key : Keys, at : 0..LastTick, wait : Nat]

(* The reference: who was let through in the window that ends at t, of the *)
(* attempts before the n-th.                                               *)
LetThrough(n, t) ==
  {m \in 1..(n - 1) :
     /\ attempts[m].key = attempts[n].key /\ attempts[m].wait = 0
     /\ attempts[m].at <= t /\ t < attempts[m].at + Rule(attempts[n].key).window}
Full(n, t) == Cardinality(LetThrough(n, t)) >= Rule(attempts[n].key).limit

(* "Sliding-window rate limiting": an attempt is let through exactly if    *)
(* fewer than `limit` were in the window before it, however the buckets    *)
(* have been pruned and evicted since; whoever waits for retry_after has   *)
(* waited long enough, and by no more than a second too long.              *)
Limited ==
  \A n \in DOMAIN attempts :
    LET e == attempts[n]
    IN /\ e.wait = 0 <=> ~Full(n, e.at)
       /\ e.wait > 0 => /\ ~Full(n, e.at + 2 * e.wait)
                        /\ \A t \in e.at..(e.at + 2 * (e.wait - 1) - 1) : Full(n, t)
===============================================================================
