--------------------------- MODULE Subscriptions ----------------------------
(***************************************************************************)
(* Subscriptions: subscribe and cancelSubscription, and the sweep of the    *)
(* worker that renews, retries or lapses the ones that are due.             *)
(*                                                                          *)
(* Sweeps overlap with each other and with the two operations: claimDue is  *)
(* an autocommit statement, so its row locks are gone when it returns, and  *)
(* a sweep goes on with copies of its rows.  Renewal, retry and lapse of    *)
(* one copy are transactions of their own.  One sku is sold, whose perk is  *)
(* an entitlement of the user, whoever sells it; all prices are equal, and  *)
(* a billing period is one tick of the clock.                               *)
(***************************************************************************)
EXTENDS Integers, FiniteSets

CONSTANTS
  Subs,         \* ids of subscriptions
  Users,
  UserOf,       \* the subscriber of an id
  SellerOf,     \* the seller of an id
  Sweeps,       \* overlapping sweep runs
  Limit,        \* the most rows a sweep may be told to claim
  Price,
  MaxSubscriptionAttempts,  \* config.maxSubscriptionAttempts
  ClearedAtStart,           \* spendable credits of a user that have matured
  HeldAtStart,              \* spendable credits that have not
  PromoAtStart,             \* promo credits of a user
  MaxTime,      \* bound: ticks of the clock
  MaxSpends,    \* bound: spends of credits on something else
  MaxFaults     \* bound: failed statements, refused renewals and crashes

ASSUME SubscriptionsAssumption ==
  /\ IsFiniteSet(Subs) /\ IsFiniteSet(Users) /\ IsFiniteSet(Sweeps)
  /\ UserOf \in [Subs -> Users] /\ DOMAIN SellerOf = Subs
  /\ Limit \in Nat \ {0} /\ Price \in Nat \ {0} /\ MaxSubscriptionAttempts \in Nat \ {0}
  /\ ClearedAtStart \in Nat /\ HeldAtStart \in Nat /\ PromoAtStart \in Nat
  /\ MaxTime \in Nat /\ MaxSpends \in Nat /\ MaxFaults \in Nat

VARIABLES
  now,
  row,      \* the subscriptions table
  keys,     \* claimed billing keys, sub:<id>:p<period>
  funds,    \* balances of a user: promo, and spendable in cleared and held credits
  perk,     \* the entitlement of a user
  sweep,    \* the sweep runs
  charges,  \* history: charges posted for each period of a subscription
  lapses,   \* history: the periods economy.subscription.lapsed events tell of
  late,     \* history: charges posted after an acknowledged cancel
  rewrote,  \* history: rows a retry has overwritten with a copy that was stale
  spends,   \* spends on something else
  faults

vars == <<now, row, keys, funds, perk, sweep, charges, lapses, late, rewrote, spends, faults>>
history == <<charges, lapses, late, rewrote>>

-----------------------------------------------------------------------------
Period == 1..(MaxTime + 1)
State == {"none", "ACTIVE", "LAPSED", "CANCELED"}
Row == [state : State, period : 0..(MaxTime + 1), attempts : Nat, due : 0..(MaxTime + 1)]
Copy == [id : Subs, state : State, period : Period, attempts : Nat, due : Period]
Idle == [pc |-> "idle"]
Run == [pc : {"renew", "retry", "lapse"}, sub : Copy, rest : SUBSET Copy, caught : BOOLEAN]

(* Every variable has its type; the attempts of a stored row stay below the cap. *)
TypeOK ==
  /\ now \in 0..MaxTime
  /\ row \in [Subs -> Row]
  /\ \A s \in Subs : row[s].attempts < MaxSubscriptionAttempts
  /\ keys \subseteq Subs \X Period
  /\ funds \in [Users -> [promo : Nat, cleared : Nat, held : Nat]]
  /\ perk \in [Users -> [revoked : BOOLEAN, until : 0..(MaxTime + 1)]]
  /\ sweep \in [Sweeps -> {Idle} \cup Run]
  /\ charges \in [Subs \X Period -> Nat]
  /\ lapses \subseteq Subs \X Period
  /\ late \in [Subs -> Nat]
  /\ rewrote \subseteq Subs
  /\ spends \in 0..MaxSpends
  /\ faults \in 0..MaxFaults

NoRow == [state |-> "none", period |-> 0, attempts |-> 0, due |-> 0]

Init ==
  /\ now = 0
  /\ row = [s \in Subs |-> NoRow]
  /\ keys = {}
  /\ funds = [u \in Users |-> [promo |-> PromoAtStart, cleared |-> ClearedAtStart, held |-> HeldAtStart]]
  /\ perk = [u \in Users |-> [revoked |-> TRUE, until |-> 0]]
  /\ sweep = [w \in Sweeps |-> Idle]
  /\ charges = [c \in Subs \X Period |-> 0]
  /\ lapses = {}
  /\ late = [s \in Subs |-> 0]
  /\ rewrote = {}
  /\ spends = 0
  /\ faults = 0

-----------------------------------------------------------------------------
(* The operations. *)

Spendable(u) == funds[u].cleared + funds[u].held
ActiveFor(u, seller) ==
  {s \in Subs : UserOf[s] = u /\ SellerOf[s] = seller /\ row[s].state = "ACTIVE"}

(* planSpend: promo credits are drawn first. *)
PromoPart(u) == IF funds[u].promo < Price THEN funds[u].promo ELSE Price

Grant(u, until) == perk' = [perk EXCEPT ![u] = [revoked |-> FALSE, until |-> until]]
Charge(s, p) == charges' = [charges EXCEPT ![<<s, p>>] = @ + 1]

(* The rejections (ALREADY_SUBSCRIBED, INSUFFICIENT_FUNDS, FUNDS_IMMATURE) change *)
(* nothing.  The part promo does not cover must be funded by cleared credits.     *)
Subscribe(s) ==
  LET u == UserOf[s] IN
  /\ row[s].state = "none"
  /\ ActiveFor(u, SellerOf[s]) = {}
  /\ funds[u].cleared >= Price - PromoPart(u)
  /\ funds' = [funds EXCEPT ![u].promo = @ - PromoPart(u),
                            ![u].cleared = @ - (Price - PromoPart(u))]
  /\ row' = [row EXCEPT ![s] =
               [state |-> "ACTIVE", period |-> 1, attempts |-> 0, due |-> now + 1]]
  /\ Charge(s, 1)
  /\ Grant(u, now + 1)
  /\ UNCHANGED <<now, keys, sweep, lapses, late, rewrote, spends, faults>>

(* A lapsed subscription may be canceled too; the perk stays until it expires. *)
CancelSubscription(s) ==
  /\ row[s].state \in {"ACTIVE", "LAPSED"}
  /\ row' = [row EXCEPT ![s].state = "CANCELED"]
  /\ UNCHANGED <<now, keys, funds, perk, sweep, charges, lapses, late, rewrote, spends, faults>>

(* Credits bought by card mature once the chargeback window has passed. *)
Mature(u) ==
  /\ funds[u].held > 0
  /\ funds' = [funds EXCEPT ![u].cleared = @ + funds[u].held, ![u].held = 0]
  /\ UNCHANGED <<now, row, keys, perk, sweep, charges, lapses, late, rewrote, spends, faults>>

SpendElsewhere(u) ==
  /\ spends < MaxSpends /\ funds[u].cleared >= Price
  /\ spends' = spends + 1
  /\ funds' = [funds EXCEPT ![u].cleared = @ - Price]
  /\ UNCHANGED <<now, row, keys, perk, sweep, charges, lapses, late, rewrote, faults>>

Tick ==
  /\ now < MaxTime
  /\ now' = now + 1
  /\ UNCHANGED <<row, keys, funds, perk, sweep, charges, lapses, late, rewrote, spends, faults>>

-----------------------------------------------------------------------------
(* The sweep. *)

CopyOf(s) ==
  [id |-> s, state |-> row[s].state, period |-> row[s].period,
   attempts |-> row[s].attempts, due |-> row[s].due]

(* Mutant: a row that has ended is still due. *)
Due_ended(s) == row[s].state # "none" /\ row[s].due <= now

Due(s) == row[s].state = "ACTIVE" /\ row[s].due <= now

(* The n due rows with the earliest due dates; ties may fall either way. *)
Oldest(n) ==
  {claim \in SUBSET {s \in Subs : Due(s)} :
     /\ Cardinality(claim) <= n
     /\ \A s \in Subs \ claim : Due(s) =>
          Cardinality(claim) = n /\ \A t \in claim : row[t].due <= row[s].due}

(* Copies are billed one by one, the earliest due date first. *)
Work(w, batch) ==
  \/ batch = {} /\ sweep' = [sweep EXCEPT ![w] = Idle]
  \/ \E c \in batch :
       /\ \A b \in batch : c.due <= b.due
       /\ sweep' = [sweep EXCEPT ![w] =
            [pc |-> "renew", sub |-> c, rest |-> batch \ {c}, caught |-> FALSE]]

ClaimDue(w, n) ==
  /\ sweep[w] = Idle
  /\ \E claim \in Oldest(n) : claim # {} /\ Work(w, {CopyOf(s) : s \in claim})
  /\ UNCHANGED <<now, row, keys, funds, perk, history, spends, faults>>

(* recordRetry: at the cap the subscription lapses, else its attempts are stored. *)
Retrying(w, caught) ==
  sweep' = [sweep EXCEPT ![w].caught = caught,
              ![w].pc = IF sweep[w].sub.attempts + 1 >= MaxSubscriptionAttempts
                        THEN "lapse" ELSE "retry"]

Lapsing(w, caught) == sweep' = [sweep EXCEPT ![w].pc = "lapse", ![w].caught = caught]

BillingKey(c) == <<c.id, c.period + 1>>

(* Mutant: no key is looked for, the due date alone guards the period. *)
Unbilled_by_date(c) == TRUE

Unbilled(c) == BillingKey(c) \notin keys

(* Mutant: the perk is granted until the old due date. *)
Billed_old_expiry(c) ==
  /\ row' = [row EXCEPT ![c.id].due = c.due + 1, ![c.id].period = @ + 1, ![c.id].attempts = 0]
  /\ keys' = keys \cup {BillingKey(c)}
  /\ funds' = [funds EXCEPT ![UserOf[c.id]].cleared = @ - Price]
  /\ Charge(c.id, c.period + 1)
  /\ Grant(UserOf[c.id], c.due)
  /\ late' = IF row[c.id].state = "CANCELED" THEN [late EXCEPT ![c.id] = @ + 1] ELSE late

(* The commit of a charged renewal.  markBilled compares the due date alone, so the *)
(* state of the row stays whatever it has become.                                   *)
Billed(c) ==
  /\ row' = [row EXCEPT ![c.id].due = c.due + 1, ![c.id].period = @ + 1, ![c.id].attempts = 0]
  /\ keys' = keys \cup {BillingKey(c)}
  /\ funds' = [funds EXCEPT ![UserOf[c.id]].cleared = @ - Price]
  /\ Charge(c.id, c.period + 1)
  /\ Grant(UserOf[c.id], c.due + 1)
  /\ late' = IF row[c.id].state = "CANCELED" THEN [late EXCEPT ![c.id] = @ + 1] ELSE late

(* One transaction under the lock of the buyer's account.  Too little credit lapses *)
(* the copy, enough but immature credit defers it; then the period is claimed, and  *)
(* a lost claim ends the copy.  A claim whose due date has moved commits alone.      *)
Renew(w) ==
  LET c == sweep[w].sub
      u == UserOf[c.id]
  IN /\ sweep[w].pc = "renew"
     /\ \/ /\ Spendable(u) < Price
           /\ Lapsing(w, FALSE)
           /\ UNCHANGED <<row, keys, funds, perk, charges, late>>
        \/ /\ Spendable(u) >= Price /\ funds[u].cleared < Price
           /\ Retrying(w, FALSE)
           /\ UNCHANGED <<row, keys, funds, perk, charges, late>>
        \/ /\ funds[u].cleared >= Price /\ ~Unbilled(c)
           /\ Work(w, sweep[w].rest)
           /\ UNCHANGED <<row, keys, funds, perk, charges, late>>
        \/ /\ funds[u].cleared >= Price /\ Unbilled(c)
           /\ IF row[c.id].due = c.due
              THEN Billed(c)
              ELSE /\ keys' = keys \cup {BillingKey(c)}
                   /\ UNCHANGED <<row, funds, perk, charges, late>>
           /\ Work(w, sweep[w].rest)
     /\ UNCHANGED <<now, lapses, rewrote, spends, faults>>

(* A statement of the renewal fails, and the error counts as retryable.  When it was *)
(* COMMIT whose answer got lost, the charge stands.                                  *)
RenewFails(w, committed) ==
  LET c == sweep[w].sub IN
  /\ sweep[w].pc = "renew" /\ faults < MaxFaults
  /\ \/ ~committed /\ UNCHANGED <<row, keys, funds, perk, charges, late>>
     \/ /\ committed /\ funds[UserOf[c.id]].cleared >= Price
        /\ Unbilled(c) /\ row[c.id].due = c.due
        /\ Billed(c)
  /\ Retrying(w, TRUE)
  /\ faults' = faults + 1
  /\ UNCHANGED <<now, lapses, rewrote, spends>>

(* An error that is not retryable (the row does not re-derive from its first charge) *)
(* rolls the renewal back and dead-letters the copy.                                 *)
RenewRefused(w) ==
  /\ sweep[w].pc = "renew" /\ faults < MaxFaults
  /\ Lapsing(w, TRUE)
  /\ faults' = faults + 1
  /\ UNCHANGED <<now, row, keys, funds, perk, history, spends>>

(* Mutant: the retry count of the stored row is bumped, and never stored. *)
Retry_unstored(w) ==
  /\ sweep[w].pc = "retry"
  /\ Work(w, sweep[w].rest)
  /\ UNCHANGED <<now, row, keys, funds, perk, history, spends, faults>>

(* The copy, with its attempts bumped, replaces the whole row. *)
Retry(w) ==
  LET c == sweep[w].sub IN
  /\ sweep[w].pc = "retry"
  /\ row' = [row EXCEPT ![c.id] = [state |-> c.state, period |-> c.period,
                                   attempts |-> c.attempts + 1, due |-> c.due]]
  /\ rewrote' = IF CopyOf(c.id) = c THEN rewrote ELSE rewrote \cup {c.id}
  /\ Work(w, sweep[w].rest)
  /\ UNCHANGED <<now, keys, funds, perk, charges, lapses, late, spends, faults>>

(* The row leaves the due set, the perk is revoked and the event stored together. *)
Lapse(w) ==
  LET c == sweep[w].sub IN
  /\ sweep[w].pc = "lapse"
  /\ row' = [row EXCEPT ![c.id].state = "LAPSED"]
  /\ perk' = [perk EXCEPT ![UserOf[c.id]].revoked = TRUE]
  /\ lapses' = lapses \cup {<<c.id, c.period>>}
  /\ Work(w, sweep[w].rest)
  /\ UNCHANGED <<now, keys, funds, charges, late, rewrote, spends, faults>>

(* A failed retry or lapse is caught once, as a retryable error of the renewal it *)
(* belongs to; a second time, or in the handler of an error, it ends the sweep.   *)
RetryOrLapseFails(w) ==
  /\ sweep[w].pc \in {"retry", "lapse"} /\ faults < MaxFaults
  /\ \/ ~sweep[w].caught /\ Retrying(w, TRUE)
     \/ sweep[w].caught /\ sweep' = [sweep EXCEPT ![w] = Idle]
  /\ faults' = faults + 1
  /\ UNCHANGED <<now, row, keys, funds, perk, history, spends>>

Crash(w) ==
  /\ sweep[w] # Idle /\ faults < MaxFaults
  /\ sweep' = [sweep EXCEPT ![w] = Idle]
  /\ faults' = faults + 1
  /\ UNCHANGED <<now, row, keys, funds, perk, history, spends>>

-----------------------------------------------------------------------------
SweepStep(w) == (\E n \in 1..Limit : ClaimDue(w, n)) \/ Renew(w) \/ Retry(w) \/ Lapse(w)

Next ==
  \/ Tick
  \/ \E s \in Subs : Subscribe(s) \/ CancelSubscription(s)
  \/ \E u \in Users : Mature(u) \/ SpendElsewhere(u)
  \/ \E w \in Sweeps :
       \/ SweepStep(w)
       \/ \E committed \in BOOLEAN : RenewFails(w, committed)
       \/ RenewRefused(w) \/ RetryOrLapseFails(w) \/ Crash(w)

Spec == Init /\ [][Next]_vars

(* The worker sweeps again and again, and a sweep it has begun goes on; nothing is  *)
(* assumed of users, of the funding of their accounts or of the clock.              *)
FairSpec == Spec /\ \A w \in Sweeps : WF_vars(SweepStep(w))

-----------------------------------------------------------------------------
(* No period is charged twice, however sweeps overlap, retries rewind rows or commits *)
(* lose their answer; and no period is claimed without being charged, which would end *)
(* the billing for good, unless a retry overwrote the row (renew).                    *)
ChargedOncePerClaim ==
  \A s \in Subs : \A p \in Period \ {1} :
    /\ charges[<<s, p>>] \in (IF <<s, p>> \in keys THEN {0, 1} ELSE {0})
    /\ s \notin rewrote /\ <<s, p>> \in keys => charges[<<s, p>>] = 1

Only(s) == \A t \in Subs \ {s} : UserOf[t] = UserOf[s] => row[t].state = "none"

(* The row of an active subscription tells the truth, unless a retry overwrote it:   *)
(* its period is charged and no later one is, and its user owns the perk to the due  *)
(* date, when no other subscription of the user touches the perk (renew, lapse).     *)
ActiveIsPaidAndOwned ==
  \A s \in Subs \ rewrote :
    row[s].state = "ACTIVE" =>
      /\ \A p \in Period : charges[<<s, p>>] = IF p <= row[s].period THEN 1 ELSE 0
      /\ Only(s) => ~perk[UserOf[s]].revoked /\ perk[UserOf[s]].until = row[s].due

(* A canceled subscription is charged at most once more, by a sweep that held a copy *)
(* at the cancel, unless a retry has put its row back (cancelSubscription, renew).   *)
CancelStopsCharges == \A s \in Subs \ rewrote : late[s] <= 1

(* An active subscription does not stay due: it is billed, lapsed or canceled, unless *)
(* a retry overwrote a row: a rewound row whose key is taken stays due for ever, and  *)
(* is claimed before all others (the attempts cap of recordRetry, claimDue).          *)
RenewalEnds == \A s \in Subs : Due(s) ~> (~Due(s) \/ rewrote # {})

(* No period a lapse event follows was charged: "the buyer could not cover the price, *)
(* so the row was marked LAPSED and nothing was charged" (SweepSummary).              *)
LapsedIsUnpaid ==
  \A c \in lapses : c[2] + 1 \in Period => charges[<<c[1], c[2] + 1>>] = 0
=============================================================================
