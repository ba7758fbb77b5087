------------------------------- MODULE Market -------------------------------
(***************************************************************************)
(* The books of the market: the operations that issue, spend and take back  *)
(* credits, the accrual split that parks the sellers' shares of sales and   *)
(* the sweep that drains them, and the sweep that expires promo grants.     *)
(*                                                                          *)
(* A handler of submit and the drain of one seller are transactions under   *)
(* the locks of every account they touch, so each is one action (module     *)
(* SubmitPipeline has their interleavings).  The promo sweep claims grants  *)
(* outside a transaction and goes on with copies, so its runs overlap.      *)
(* The accrual split is a setting of a deployment, which may change: a sale *)
(* of one setting may be refunded under the other.  There is one sku, one   *)
(* shard of each platform account, and a whole credit is the smallest unit. *)
(***************************************************************************)
EXTENDS Integers, FiniteSets, FiniteSetsExt, Sums

CONSTANTS
  Orders, Buyers, Sellers,
  BuyerOf, SellerOf, PriceOf,   \* of an order
  FeeBps,                       \* config.platformFeeBps
  Grants, GranteeOf, AmountOf,  \* promo grants
  Limit,          \* the most rows the drain claims of a seller
  TopUpAmount,
  Adjustable,     \* accounts an operator corrects
  Sweeps,         \* overlapping runs of the promo sweep
  MaxTopUps,      \* bound: top-ups
  MaxCorrections, \* bound: chargebacks, operator's corrections, entitlements by hand
  MaxSwitches     \* bound: changes of config.accrualDrain

VARIABLES
  bal,       \* balances, in the direction an account grows
  posted,    \* postings of the ledger: the change of every balance
  sale,      \* the sales table: the posting of an order's sale, if any
  rows,      \* accrual rows
  keys,      \* claimed keys reversed:<orderId> and reversed:<txnId>
  grants,    \* promo_grants rows
  sweep,     \* promo sweeps: the copies they have left
  owned,     \* buyers with an unrevoked entitlement
  accrual,   \* config.accrualDrain
  refunds,   \* history: refunded orders
  shortfall, \* history: what refunds and chargebacks could not collect, by account
  corrected, \* history: by how much operators raised a balance, and lowered it
  count      \* how often the bounded actions were taken

vars == <<bal, posted, sale, rows, keys, grants, sweep, owned, accrual,
          refunds, shortfall, corrected, count>>

-----------------------------------------------------------------------------
(* Accounts.  The owner of a platform account is the platform. *)

Promo(u) == <<"promo", u>>
Spendable(u) == <<"spendable", u>>
Earned(v) == <<"earned", v>>
Platform == {"revenue", "accrual", "stored_value", "promo_float", "receivable",
             "opening_equity", "trust_cash", "usd_clearing"}
House(name) == <<name, "platform">>

Accounts == {Promo(u) : u \in Buyers} \cup {Spendable(u) : u \in Buyers}
              \cup {Earned(v) : v \in Sellers} \cup {House(p) : p \in Platform}
DebitNormal == {House(p) : p \in {"stored_value", "promo_float", "receivable",
                                  "trust_cash", "usd_clearing"}}
Usd == {House("trust_cash"), House("usd_clearing")}

(* The accounts the ledger keeps from an overdraft: wallets and the escrow of shares. *)
Guarded == Accounts \ {House(p) : p \in Platform \ {"accrual"}}

ASSUME MarketAssumption ==
  /\ IsFiniteSet(Orders) /\ IsFiniteSet(Buyers) /\ IsFiniteSet(Sellers) /\ IsFiniteSet(Grants)
  /\ BuyerOf \in [Orders -> Buyers] /\ SellerOf \in [Orders -> Sellers]
  /\ PriceOf \in [Orders -> Nat \ {0}] /\ FeeBps \in 0..10000
  /\ GranteeOf \in [Grants -> Buyers] /\ AmountOf \in [Grants -> Nat \ {0}]
  /\ Limit \in Nat \ {0} /\ TopUpAmount \in Nat \ {0}
  /\ Adjustable \subseteq Accounts \ Usd
  /\ {MaxTopUps, MaxCorrections, MaxSwitches} \subseteq Nat

Positive(n) == Max({n, 0})
NoLegs == [a \in Accounts |-> 0]

(* Postings of one transaction.  One that would overdraw a guarded account throws, *)
(* and nothing is stored.                                                          *)
PostAll(new) ==
  LET change == [a \in Accounts |-> Total([t \in DOMAIN new |-> new[t][a]], DOMAIN new)]
  IN /\ \A a \in Guarded : change[a] < 0 => bal[a] + change[a] >= 0
     /\ bal' = [a \in Accounts |-> bal[a] + change[a]]
     /\ posted' = [t \in DOMAIN posted \cup DOMAIN new |->
                      IF t \in DOMAIN new THEN new[t] ELSE posted[t]]

Post(txn, legs) == PostAll([t \in {txn} |-> legs])

-----------------------------------------------------------------------------
Row == [order : Orders, seller : Sellers, seq : Nat, amount : Int, at : Nat,
        status : {"pending", "drained", "refunded"}]
Unsold == <<>>
Sum(S) == Total([r \in S |-> r.amount], S)

(* Every variable has its type, and no guarded account is overdrawn. *)
TypeOK ==
  /\ bal \in [Accounts -> Int]
  /\ \A a \in Guarded : bal[a] >= 0
  /\ \A t \in DOMAIN posted : posted[t] \in [Accounts -> Int]
  /\ DOMAIN sale = Orders /\ \A o \in Orders : sale[o] # Unsold => sale[o] \in DOMAIN posted
  /\ rows \subseteq Row
  /\ \A r, q \in rows : r.order = q.order /\ r.seller = q.seller /\ r.seq = q.seq => r = q
  /\ grants \in [Grants -> {"none", "open", "reversed"}]
  /\ sweep \in [Sweeps -> SUBSET Grants]
  /\ owned \subseteq Buyers
  /\ accrual \in BOOLEAN
  /\ refunds \subseteq Orders
  /\ shortfall \in [Accounts -> Nat]
  /\ corrected \in [Accounts -> [up : Nat, down : Nat]]

Init ==
  /\ bal = NoLegs
  /\ posted = [t \in {} |-> NoLegs]
  /\ sale = [o \in Orders |-> Unsold]
  /\ rows = {}
  /\ keys = {}
  /\ grants = [g \in Grants |-> "none"]
  /\ sweep = [w \in Sweeps |-> {}]
  /\ owned = {}
  /\ accrual \in BOOLEAN
  /\ refunds = {}
  /\ shortfall = [a \in Accounts |-> 0]
  /\ corrected = [a \in Accounts |-> [up |-> 0, down |-> 0]]
  /\ count = [topUps |-> 0, corrections |-> 0, switches |-> 0]

Count(what, max) ==
  /\ count[what] < max
  /\ count' = [count EXCEPT ![what] = @ + 1]

-----------------------------------------------------------------------------
(* Issue of credits. *)

CashLegs(n) == [NoLegs EXCEPT ![House("trust_cash")] = n, ![House("usd_clearing")] = -n]

(* The issue of credits and the cash that backs them are two postings. *)
TopUp(u) ==
  LET issue == <<"topUp", count.topUps>>
      cash == <<"topUp.cash", count.topUps>>
  IN /\ Count("topUps", MaxTopUps)
     /\ PostAll([t \in {issue, cash} |->
          IF t = cash THEN CashLegs(TopUpAmount)
          ELSE [NoLegs EXCEPT ![Spendable(u)] = TopUpAmount,
                              ![House("stored_value")] = TopUpAmount]])
     /\ UNCHANGED <<sale, rows, keys, grants, sweep, owned, accrual,
                    refunds, shortfall, corrected>>

GrantPromo(g) ==
  /\ grants[g] = "none"
  /\ Post(<<"grant", g>>, [NoLegs EXCEPT ![Promo(GranteeOf[g])] = AmountOf[g],
                                        ![House("promo_float")] = AmountOf[g]])
  /\ grants' = [grants EXCEPT ![g] = "open"]
  /\ UNCHANGED <<sale, rows, keys, sweep, owned, accrual,
                 refunds, shortfall, corrected, count>>

-----------------------------------------------------------------------------
(* Sales. *)

(* feeForPrice: rounded up, and never more than the price. *)
FeeFor(n) == Min({n, (n * FeeBps + 9999) \div 10000})

PromoPart(o) == Min({bal[Promo(BuyerOf[o])], PriceOf[o]})

(* The part promo does not cover is charged a fee; the seller's share of the promo *)
(* part is paid by the platform.                                                   *)
Share(o) == PriceOf[o] - FeeFor(PriceOf[o] - PromoPart(o))

ShareAccount(o) == IF accrual THEN House("accrual") ELSE Earned(SellerOf[o])

SaleLegs(o) ==
  [NoLegs EXCEPT ![Promo(BuyerOf[o])] = -PromoPart(o),
                 ![House("promo_float")] = -PromoPart(o),
                 ![Spendable(BuyerOf[o])] = PromoPart(o) - PriceOf[o],
                 ![House("revenue")] = PriceOf[o] - PromoPart(o) - Share(o),
                 ![ShareAccount(o)] = Share(o)]

NextAt == Cardinality(rows)

(* accrualRowsOf: a share of nothing leaves no row. *)
ShareRows(o) ==
  {[order |-> o, seller |-> SellerOf[o], seq |-> 0, amount |-> n, at |-> NextAt,
    status |-> "pending"] : n \in {Share(o)} \ {0}}

Spend(o) ==
  /\ sale[o] = Unsold
  /\ Post(<<"sale", o>>, SaleLegs(o))
  /\ sale' = [sale EXCEPT ![o] = <<"sale", o>>]
  /\ rows' = IF accrual THEN rows \cup ShareRows(o) ELSE rows
  /\ owned' = owned \cup {BuyerOf[o]}
  /\ UNCHANGED <<keys, grants, sweep, accrual, refunds, shortfall, corrected, count>>

-----------------------------------------------------------------------------
(* Refunds and chargebacks. *)

OrderKey(o) == <<"order", o>>
TxnKey(txn) == <<"txn", txn>>

(* What an account can give back of what the sale brought it. *)
Covered(a, want) == Min({want, Positive(bal[a])})

(* What was lowered by the sale is raised again; what was raised is taken back as *)
(* far as it goes.  The claw of the accounts in byRow follows their accrual rows. *)
Uncollected(legs, byRow) ==
  [a \in Accounts |-> IF legs[a] > 0 /\ a \notin byRow THEN legs[a] - Covered(a, legs[a]) ELSE 0]

Undo(legs, byRow) ==
  [a \in Accounts |-> IF a \in byRow THEN 0
                      ELSE IF legs[a] > 0 THEN -Covered(a, legs[a])
                      ELSE -legs[a]]

(* Mutant: what cannot be collected is not booked. *)
RefundLegs_no_shortfall(legs, byRow, pending, drained) ==
  [Undo(legs, byRow) EXCEPT
     ![House("accrual")] = @ - pending,
     ![House("receivable")] = @ + drained]

RefundLegs(legs, byRow, pending, drained) ==
  [Undo(legs, byRow) EXCEPT
     ![House("accrual")] = @ - pending,
     ![House("receivable")] = @ + drained + Total(Uncollected(legs, byRow), Accounts)]

(* recoveryRowsOf: a drained share is owed back by a negative row of the order. *)
Recovery(drained) ==
  {[order |-> r.order, seller |-> r.seller, seq |-> r.seq + 1, amount |-> -r.amount,
    at |-> NextAt, status |-> "pending"] : r \in drained}

Settle(S, status) == {[r EXCEPT !.status = status] : r \in S}

(* Mutant: the path follows the setting, not the rows of the sale. *)
SaleRows_by_setting(o) == IF accrual THEN {r \in rows : r.order = o /\ r.seq = 0} ELSE {}

SaleRows(o) == {r \in rows : r.order = o /\ r.seq = 0}

Revoked(o) == owned \ {BuyerOf[o]}

(* A lost claim (the order is refunded or charged back) answers duplicate.  A pending *)
(* share is taken from the escrow, a drained one is owed by its seller.               *)
Refund(o) ==
  LET legs == posted[sale[o]]
      pending == {r \in SaleRows(o) : r.status = "pending"}
      drained == {r \in SaleRows(o) : r.status = "drained"}
      byRow == IF SaleRows(o) = {} THEN {} ELSE {House("accrual")}
      short == Uncollected(legs, byRow)
  IN /\ sale[o] # Unsold /\ OrderKey(o) \notin keys
     /\ keys' = keys \cup {OrderKey(o)}
     /\ Post(<<"refund", o>>,
             RefundLegs(legs, byRow, Sum(pending), Sum(drained)))
     /\ rows' = (rows \ pending) \cup Settle(pending, "refunded") \cup Recovery(drained)
     /\ owned' = Revoked(o)
     /\ refunds' = refunds \cup {o}
     /\ shortfall' = [a \in Accounts |-> shortfall[a] + short[a]]
     /\ UNCHANGED <<sale, grants, sweep, accrual, corrected, count>>

(* A chargeback may name an order; it takes back credits, never the item. *)
Clawback(u, named) ==
  LET recovered == Min({bal[Spendable(u)], TopUpAmount})
      short == TopUpAmount - recovered
  IN /\ Count("corrections", MaxCorrections)
     /\ named \cap keys = {}
     /\ keys' = keys \cup named
     /\ Post(<<"clawback", count.corrections>>,
             [NoLegs EXCEPT ![Spendable(u)] = -recovered, ![House("receivable")] = short,
                            ![House("stored_value")] = -TopUpAmount])
     /\ shortfall' = [shortfall EXCEPT ![Spendable(u)] = @ + short]
     /\ UNCHANGED <<sale, rows, grants, sweep, owned, accrual, refunds, corrected>>

-----------------------------------------------------------------------------
(* Corrections by an operator. *)

Correct(txn, legs) ==
  /\ Count("corrections", MaxCorrections)
  /\ Post(txn, legs)
  /\ corrected' = [a \in Accounts |-> [up |-> corrected[a].up + Positive(legs[a]),
                                       down |-> corrected[a].down + Positive(-legs[a])]]
  /\ UNCHANGED <<sale, rows, grants, sweep, owned, accrual, refunds, shortfall>>

Adjust(a, delta) ==
  /\ Correct(<<"adjust", count.corrections>>,
             [[NoLegs EXCEPT ![a] = delta] EXCEPT
                ![House("opening_equity")] = @ + (IF a \in DebitNormal THEN delta ELSE -delta)])
  /\ UNCHANGED keys

(* The exact opposite of a posting that is not a reversal itself.  The rows, grants, *)
(* entitlements and order keys that came with it are left as they are.              *)
Reverse(txn) ==
  /\ txn[1] # "reverse" /\ TxnKey(txn) \notin keys
  /\ keys' = keys \cup {TxnKey(txn)}
  /\ Correct(<<"reverse", txn>>, [a \in Accounts |-> -posted[txn][a]])

GrantEntitlement(u) ==
  /\ Count("corrections", MaxCorrections)
  /\ owned' = owned \cup {u}
  /\ UNCHANGED <<bal, posted, sale, rows, keys, grants, sweep, accrual,
                 refunds, shortfall, corrected>>

RevokeEntitlement(u) ==
  /\ Count("corrections", MaxCorrections)
  /\ u \in owned
  /\ owned' = owned \ {u}
  /\ UNCHANGED <<bal, posted, sale, rows, keys, grants, sweep, accrual,
                 refunds, shortfall, corrected>>

SwitchAccrual ==
  /\ Count("switches", MaxSwitches)
  /\ accrual' = ~accrual
  /\ UNCHANGED <<bal, posted, sale, rows, keys, grants, sweep, owned,
                 refunds, shortfall, corrected>>

-----------------------------------------------------------------------------
(* The drain. *)

(* Pending rows of a seller, the shares before the debts and the oldest first. *)
Before(r, q) ==
  \/ r.amount > 0 /\ q.amount < 0
  \/ (r.amount > 0 <=> q.amount > 0) /\ r.at < q.at

Claim(v, n) ==
  LET found == {r \in rows : r.seller = v /\ r.status = "pending"}
  IN {r \in found : Cardinality({q \in found : Before(q, r)}) < n}

RowKeys(S) == {<<r.order, r.seller, r.seq>> : r \in S}

(* Mutant: the rest of a debt that is larger than the shares is forgotten. *)
Residual_forgotten(debts, parked) == {}

(* The debt that is larger than what the older ones leave is split: a smaller one *)
(* takes its place.                                                               *)
Residual(debts, parked) ==
  {[r EXCEPT !.seq = @ + 1, !.at = NextAt, !.status = "pending",
             !.amount = parked + Sum({q \in debts : Before(q, r)}) + r.amount] :
     r \in {r \in debts : /\ parked + Sum({q \in debts : Before(q, r)}) > 0
                          /\ parked + Sum({q \in debts : Before(q, r)}) + r.amount < 0}}

(* Debts are repaid in claim order, as long as anything is left to repay them. *)
Consumed(debts, parked) == {r \in debts : parked + Sum({q \in debts : Before(q, r)}) > 0}

(* Mutant: what is recovered counts as revenue. *)
DrainLegs_as_revenue(v, parked, recovered) ==
  [NoLegs EXCEPT ![House("accrual")] = -parked,
                 ![Earned(v)] = parked - recovered,
                 ![House("revenue")] = recovered]

DrainLegs(v, parked, recovered) ==
  [NoLegs EXCEPT ![House("accrual")] = -parked,
                 ![Earned(v)] = parked - recovered,
                 ![House("receivable")] = -recovered]

(* One seller is one transaction; without a share there is nothing to do.  The id of *)
(* the posting is the set of the claimed rows.                                       *)
DrainSeller(v, n) ==
  LET claim == Claim(v, n)
      shares == {r \in claim : r.amount > 0}
      debts == claim \ shares
      parked == Sum(shares)
      recovered == Min({parked, -Sum(debts)})
      settled == shares \cup Consumed(debts, parked)
      txn == <<"drain", RowKeys(claim)>>
  IN /\ accrual /\ shares # {}
     /\ IF txn \in DOMAIN posted
        THEN UNCHANGED <<bal, posted>>
        ELSE Post(txn, DrainLegs(v, parked, recovered))
     /\ rows' = (rows \ settled) \cup Settle(settled, "drained") \cup Residual(debts, parked)
     /\ UNCHANGED <<sale, keys, grants, sweep, owned, accrual,
                    refunds, shortfall, corrected, count>>

-----------------------------------------------------------------------------
(* The promo sweep. *)

(* The expiry of a grant is a matter of the clock: any open grant may be due. *)
ClaimExpired(w) ==
  /\ sweep[w] = {}
  /\ \E claim \in (SUBSET {g \in Grants : grants[g] = "open"}) \ {{}} :
       sweep' = [sweep EXCEPT ![w] = claim]
  /\ UNCHANGED <<bal, posted, sale, rows, keys, grants, owned, accrual,
                 refunds, shortfall, corrected, count>>

(* Mutant: the whole grant is flagged, and nothing taken back. *)
ReversePromo_flag_only(w, g) ==
  /\ g \in sweep[w]
  /\ sweep' = [sweep EXCEPT ![w] = @ \ {g}]
  /\ grants' = [grants EXCEPT ![g] = "reversed"]
  /\ UNCHANGED <<bal, posted, sale, rows, keys, owned, accrual,
                 refunds, shortfall, corrected, count>>

(* What is left of the grant goes back, as far as the balance goes; a copy that    *)
(* another sweep has settled is not told apart. *)
ReversePromo(w, g) ==
  LET left == Min({bal[Promo(GranteeOf[g])], AmountOf[g]})
      txn == <<"expiry", g, w>>
  IN /\ g \in sweep[w]
     /\ sweep' = [sweep EXCEPT ![w] = @ \ {g}]
     /\ IF left = 0
        THEN UNCHANGED <<bal, posted>>
        ELSE Post(txn, [NoLegs EXCEPT ![Promo(GranteeOf[g])] = -left,
                                      ![House("promo_float")] = -left])
     /\ grants' = [grants EXCEPT ![g] = "reversed"]
     /\ UNCHANGED <<sale, rows, keys, owned, accrual,
                    refunds, shortfall, corrected, count>>

(* An error rolls the grant back and leaves it to a later sweep. *)
ReversePromoFails(w, g) ==
  /\ g \in sweep[w]
  /\ sweep' = [sweep EXCEPT ![w] = @ \ {g}]
  /\ UNCHANGED <<bal, posted, sale, rows, keys, grants, owned, accrual,
                 refunds, shortfall, corrected, count>>

-----------------------------------------------------------------------------
Next ==
  \/ \E u \in Buyers :
       \/ TopUp(u) \/ GrantEntitlement(u) \/ RevokeEntitlement(u)
       \/ \E named \in {{}} \cup {{OrderKey(o)} : o \in Orders} : Clawback(u, named)
  \/ \E g \in Grants :
       \/ GrantPromo(g)
       \/ \E w \in Sweeps : ReversePromo(w, g) \/ ReversePromoFails(w, g)
  \/ \E o \in Orders : Spend(o) \/ Refund(o)
  \/ \E a \in Adjustable, delta \in {-1, 1} : Adjust(a, delta)
  \/ \E txn \in DOMAIN posted : Reverse(txn)
  \/ SwitchAccrual
  \/ \E v \in Sellers, n \in 1..Limit : DrainSeller(v, n)
  \/ \E w \in Sweeps : ClaimExpired(w)

Spec == Init /\ [][Next]_vars

-----------------------------------------------------------------------------
Pending(v) == {r \in rows : r.seller = v /\ r.status = "pending"}
Shares(S) == Sum({r \in S : r.amount > 0})
Debts(S) == -Sum({r \in S : r.amount < 0})
AllPending == {r \in rows : r.status = "pending"}
ByOperators(a) == corrected[a].up - corrected[a].down

(* No handler builds a posting the ledger would refuse as unbalanced, in credits or *)
(* in dollars (LEDGER_UNBALANCED in assertBalanced), whatever a refund can collect, *)
(* and however a drain splits a debt.                                               *)
PostingsBalance ==
  \A t \in DOMAIN posted : \A S \in {Usd, Accounts \ Usd} :
    Total(posted[t], S \cap DebitNormal) = Total(posted[t], S \ DebitNormal)

(* The escrow of shares holds exactly what pending rows promise to sellers, but for *)
(* what operators moved: under both settings of the split, a refund voids the rows  *)
(* it claws, and a drain settles the rows it pays ("Holds exactly the pending       *)
(* accrual rows' total", SETTLEMENT_ACCRUAL).                                        *)
EscrowMatchesRows ==
  bal[House("accrual")] - ByOperators(House("accrual")) = Shares(AllPending)

(* A seller has, or is owed, the share of each sale that is not refunded, and owes   *)
(* no more than refunded shares already paid, to the last credit: earned balance,    *)
(* pending rows and uncollected rest add up to the sales (spend, refund, drain).     *)
SellersGetTheirShares ==
  \A v \in Sellers :
    LET sold == {o \in Orders : sale[o] # Unsold /\ o \notin refunds /\ SellerOf[o] = v}
        share == [o \in sold |-> posted[sale[o]][House("accrual")] + posted[sale[o]][Earned(v)]]
    IN bal[Earned(v)] - ByOperators(Earned(v)) + Shares(Pending(v)) - Debts(Pending(v))
         - shortfall[Earned(v)]
       = Total(share, sold)

(* Every credit of RECEIVABLE is a debt some pending row will recover, or a rest a   *)
(* refund or a chargeback could not collect; recovery is exact (consumeRecovery).    *)
ReceivableIsOwed ==
  bal[House("receivable")] - ByOperators(House("receivable"))
    = Debts(AllPending) + Total(shortfall, Accounts)

Refunded(a) == Total([o \in refunds |-> -posted[sale[o]][a]], refunds)

(* A promo credit is covered by a grant the expiry sweep has not settled, unless a   *)
(* refund or an operator put it back after the grant was gone (sweepExpiredPromos).  *)
PromoIsTracked ==
  \A u \in Buyers :
    LET open == {g \in Grants : grants[g] = "open" /\ GranteeOf[g] = u}
    IN bal[Promo(u)] <= Total(AmountOf, open) + Refunded(Promo(u))
                          + corrected[Promo(u)].up

(* The escrow holds "exactly the pending accrual rows' total" (SETTLEMENT_ACCRUAL).  *)
EscrowHoldsRows == bal[House("accrual")] = Shares(AllPending)
=============================================================================
