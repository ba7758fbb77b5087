---------------------------- MODULE Market_proofs ----------------------------
(***************************************************************************)
(* What holds of the books of the market for any number of orders, buyers,  *)
(* sellers, grants and sweeps, and for every correction by operators: every *)
(* posting balances, the escrow and the receivable agree with the accrual   *)
(* rows to the last credit, and so do the sellers' shares.                  *)
(*                                                                          *)
(* The invariant ties the rows of an order to the posting of its sale.  Its *)
(* first row is the share the sale parked; a later row is the debt a refund *)
(* left of a share already paid, or what a drain left of such a debt, so an *)
(* order has one debt at most that is not settled.                          *)
(***************************************************************************)
EXTENDS Market, Sums_proofs, TLAPS

SaleId(o) == <<"sale", o>>
KeyOf(r) == <<r.order, r.seller, r.seq>>
SaleAccounts(o) ==
  {Promo(BuyerOf[o]), House("promo_float"), Spendable(BuyerOf[o]), House("revenue"),
   House("accrual"), Earned(SellerOf[o])}

Balanced(legs) ==
  \A S \in {Usd, Accounts \ Usd} : Total(legs, S \cap DebitNormal) = Total(legs, S \ DebitNormal)

(* What the posting of a sale says: who paid lost, and the share is parked or paid. *)
SaleOK(o) ==
  LET legs == posted[SaleId(o)] IN
  /\ sale[o] = SaleId(o) /\ SaleId(o) \in DOMAIN posted
  /\ \A a \in Accounts \ SaleAccounts(o) : legs[a] = 0
  /\ \A a \in {Promo(BuyerOf[o]), House("promo_float"), Spendable(BuyerOf[o])} : legs[a] <= 0
  /\ \A a \in {House("accrual"), Earned(SellerOf[o])} : legs[a] >= 0
  /\ legs[House("accrual")] = 0 \/ legs[Earned(SellerOf[o])] = 0
  /\ legs[House("accrual")] # 0 <=> \E r \in rows : r.order = o /\ r.seq = 0

SalesOK ==
  /\ \A o \in Orders : sale[o] # Unsold => SaleOK(o)
  /\ \A o \in refunds : sale[o] # Unsold /\ OrderKey(o) \in keys

RowOK(r) ==
  /\ r.seller = SellerOf[r.order] /\ sale[r.order] # Unsold
  /\ r.seq = 0 => r.amount > 0 /\ r.amount = posted[SaleId(r.order)][House("accrual")]
  /\ r.seq # 0 => r.amount < 0 /\ r.order \in refunds
  /\ r.status = "refunded" => r.order \in refunds

Apart(r, q) ==
  /\ r.at = q.at => r = q
  /\ r.order = q.order /\ r.status = "pending" => q.seq <= r.seq

RowsOK ==
  /\ IsFiniteSet(rows)
  /\ \A r \in rows : RowOK(r) /\ r.at < Cardinality(rows)
  /\ \A r, q \in rows : Apart(r, q)

(* A drain of given rows has drained a share, which no later drain can claim. *)
DrainsOK ==
  \A t \in DOMAIN posted : t[1] = "drain" =>
    \E r \in rows : r.amount > 0 /\ r.status = "drained" /\ KeyOf(r) \in t[2]

IInv ==
  /\ TypeOK /\ SalesOK /\ RowsOK /\ DrainsOK
  /\ PostingsBalance /\ EscrowMatchesRows /\ SellersGetTheirShares /\ ReceivableIsOwed
  /\ PromoIsTracked

-----------------------------------------------------------------------------
(* The smaller and the larger of two numbers, and sums of few terms. *)

(* The lesser of two. *)
LEMMA MinOfTwo ==
  ASSUME NEW a \in Int, NEW b \in Int
  PROVE  Min({a, b}) = IF a <= b THEN a ELSE b
<1> DEFINE m == IF a <= b THEN a ELSE b
<1>1. m \in {a, b} /\ \A y \in {a, b} : m =< y
  OBVIOUS
<1>2. \A n \in {a, b} : (\A y \in {a, b} : n =< y) => n = m
  OBVIOUS
<1> QED BY <1>1, <1>2 DEF Min

(* What is above zero, or nothing. *)
LEMMA PositiveIs ==
  ASSUME NEW n \in Int
  PROVE  Positive(n) = (IF n > 0 THEN n ELSE 0)
<1> DEFINE m == IF n > 0 THEN n ELSE 0
<1>1. m \in {n, 0} /\ \A y \in {n, 0} : m >= y
  OBVIOUS
<1>2. \A k \in {n, 0} : (\A y \in {n, 0} : k >= y) => k = m
  OBVIOUS
<1> QED BY <1>1, <1>2 DEF Positive, Max

(* A sum of one value. *)
LEMMA TotalOfOne ==
  ASSUME NEW f, NEW x, f[x] \in Int
  PROVE  Total(f, {x}) = f[x]
<1>1. IsFiniteSet({}) /\ Ints(f, {}) /\ x \notin {} /\ {} \cup {x} = {x}
  BY FS_EmptySet DEF Ints
<1>2. Total(f, {} \cup {x}) = Total(f, {}) + f[x]
  BY <1>1, TotalAdd
<1> QED BY <1>1, <1>2, TotalEmpty

(* A sum of two values. *)
LEMMA TotalOfTwo ==
  ASSUME NEW f, NEW x, NEW y, x # y, f[x] \in Int, f[y] \in Int
  PROVE  Total(f, {x, y}) = f[x] + f[y]
<1>1. IsFiniteSet({x}) /\ Ints(f, {x}) /\ y \notin {x} /\ {x} \cup {y} = {x, y}
  BY FS_Singleton DEF Ints
<1>2. Total(f, {x} \cup {y}) = Total(f, {x}) + f[y]
  BY <1>1, TotalAdd
<1> QED BY <1>1, <1>2, TotalOfOne

-----------------------------------------------------------------------------
(* The accounts. *)

(* There are finitely many accounts. *)
LEMMA AccountsFinite == IsFiniteSet(Accounts)
<1> DEFINE Wallets == {"promo", "spendable", "earned"}
           Owners == Buyers \cup Sellers \cup {"platform"}
<1>1. IsFiniteSet(Owners)
  <2>1. IsFiniteSet(Buyers) /\ IsFiniteSet(Sellers)
    BY MarketAssumption
  <2>0. IsFiniteSet({"platform"})
    BY FS_Singleton
  <2>2. IsFiniteSet(Buyers \cup Sellers)
    BY <2>1, FS_Union
  <2> QED BY <2>0, <2>2, FS_Union
<1>2. \A a, b, c, d : IsFiniteSet({a, b, c, d})
  <2>1. ASSUME NEW a, NEW b, NEW c, NEW d PROVE IsFiniteSet({a, b, c, d})
    <3>1. IsFiniteSet({a} \cup {b} \cup {c} \cup {d})
      BY FS_Singleton, FS_Union
    <3>2. {a, b, c, d} = {a} \cup {b} \cup {c} \cup {d}
      OBVIOUS
    <3> QED BY <3>1, <3>2
  <2> QED BY <2>1
<1>3. Platform = {"revenue", "accrual", "stored_value", "promo_float"}
                   \cup {"receivable", "opening_equity", "trust_cash", "usd_clearing"}
  BY DEF Platform
<1>4. Wallets = {"promo", "spendable", "earned", "earned"}
  OBVIOUS
<1>5. IsFiniteSet(Platform) /\ IsFiniteSet(Wallets)
  BY <1>2, <1>3, <1>4, FS_Union
<1>6. IsFiniteSet((Wallets \cup Platform) \X Owners)
  BY <1>1, <1>5, FS_Union, FS_Product
<1>7. Accounts \subseteq (Wallets \cup Platform) \X Owners
  BY DEF Accounts, Promo, Spendable, Earned, House
<1> QED BY <1>6, <1>7, FS_Subset

(* No two kinds of account meet. *)
LEMMA AccountsApart ==
  /\ \A u, v : Promo(u) # Spendable(v) /\ Promo(u) # Earned(v) /\ Spendable(u) # Earned(v)
  /\ \A u, v : (Promo(u) = Promo(v) => u = v) /\ (Spendable(u) = Spendable(v) => u = v)
               /\ (Earned(u) = Earned(v) => u = v)
  /\ \A u : \A p \in Platform : Promo(u) # House(p) /\ Spendable(u) # House(p) /\ Earned(u) # House(p)
  /\ \A p, q : House(p) = House(q) => p = q
BY DEF Promo, Spendable, Earned, House, Platform

(* The accounts of buyers, sellers and the house: credits or dollars,
   debit- or credit-normal. *)
LEMMA AccountsAre ==
  /\ \A u \in Buyers : Promo(u) \in Accounts \ (Usd \cup DebitNormal)
  /\ \A u \in Buyers : Spendable(u) \in Accounts \ (Usd \cup DebitNormal)
  /\ \A v \in Sellers : Earned(v) \in Accounts \ (Usd \cup DebitNormal)
  /\ \A p \in {"revenue", "accrual", "opening_equity"} :
       House(p) \in Accounts \ (Usd \cup DebitNormal)
  /\ \A p \in {"stored_value", "promo_float", "receivable"} :
       House(p) \in (Accounts \cap DebitNormal) \ Usd
  /\ Usd \subseteq Accounts \cap DebitNormal
  /\ \A u \in Buyers : Promo(u) \in Guarded /\ Spendable(u) \in Guarded
<1>1. \A p \in Platform : House(p) \in Accounts
  BY DEF Accounts
<1>2. \A u \in Buyers : Promo(u) \in Accounts /\ Spendable(u) \in Accounts
  BY DEF Accounts
<1>3. \A v \in Sellers : Earned(v) \in Accounts
  BY DEF Accounts
<1>4. \A a \in Usd \cup DebitNormal : \E p \in {"stored_value", "promo_float", "receivable",
                                               "trust_cash", "usd_clearing"} : a = House(p)
  BY DEF Usd, DebitNormal
<1> QED BY <1>1, <1>2, <1>3, <1>4, AccountsApart DEF Usd, DebitNormal, Platform, Guarded

-----------------------------------------------------------------------------
(* The ledger: what a posting changes. *)

Legs == [Accounts -> Int]

LedgerOK ==
  /\ bal \in Legs /\ (\A a \in Guarded : bal[a] >= 0)
  /\ \A t \in DOMAIN posted : posted[t] \in Legs

(* The change of every balance, and one more posting. *)
Posted(txn, legs) ==
  /\ LedgerOK'
  /\ \A a \in Accounts : bal'[a] = bal[a] + legs[a]
  /\ DOMAIN posted' = DOMAIN posted \cup {txn}
  /\ posted'[txn] = legs
  /\ \A t \in DOMAIN posted \ {txn} : posted'[t] = posted[t]

(* A posting moves each balance by its leg and appends itself. *)
LEMMA PostOne ==
  ASSUME LedgerOK, NEW txn, NEW legs \in Legs, Post(txn, legs)
  PROVE  Posted(txn, legs)
<1> DEFINE new == [t \in {txn} |-> legs]
           change == [a \in Accounts |-> Total([t \in DOMAIN new |-> new[t][a]], DOMAIN new)]
<1>1. DOMAIN new = {txn} /\ new[txn] = legs
  OBVIOUS
<1>2. ASSUME NEW a \in Accounts PROVE change[a] = legs[a]
  <2>1. Total([t \in {txn} |-> new[t][a]], {txn}) = new[txn][a]
    <3> DEFINE g == [t \in {txn} |-> new[t][a]]
    <3>1. g[txn] = legs[a] /\ legs[a] \in Int
      BY DEF Legs
    <3> HIDE DEF g
    <3> QED BY <3>1, <1>1, TotalOfOne DEF g
  <2> QED BY <1>1, <2>1
<1>3. /\ \A a \in Guarded : change[a] < 0 => bal[a] + change[a] >= 0
      /\ bal' = [a \in Accounts |-> bal[a] + change[a]]
      /\ posted' = [t \in DOMAIN posted \cup {txn} |-> IF t = txn THEN legs ELSE posted[t]]
  BY <1>1 DEF Post, PostAll
<1> HIDE DEF new, change
<1>4. \A a \in Guarded : a \in Accounts
  BY DEF Guarded
<1>5. bal' \in Legs /\ \A a \in Accounts : bal'[a] = bal[a] + legs[a]
  BY <1>2, <1>3 DEF LedgerOK, Legs
<1>6. \A a \in Guarded : bal'[a] >= 0
  BY <1>2, <1>3, <1>4, <1>5 DEF LedgerOK, Legs
<1>7. /\ DOMAIN posted' = DOMAIN posted \cup {txn} /\ posted'[txn] = legs
      /\ \A t \in DOMAIN posted \ {txn} : posted'[t] = posted[t]
  BY <1>3
<1>8. \A t \in DOMAIN posted' : posted'[t] \in Legs
  BY <1>7 DEF LedgerOK
<1> QED BY <1>5, <1>6, <1>7, <1>8 DEF Posted, LedgerOK

(* Two postings of one transaction, which touch different accounts or add up. *)
LEMMA PostTwo ==
  ASSUME LedgerOK, NEW one, NEW two, one # two, NEW a1 \in Legs, NEW a2 \in Legs,
         PostAll([t \in {one, two} |-> IF t = two THEN a2 ELSE a1])
  PROVE  /\ LedgerOK'
         /\ \A a \in Accounts : bal'[a] = bal[a] + a1[a] + a2[a]
         /\ DOMAIN posted' = DOMAIN posted \cup {one, two}
         /\ posted'[one] = a1 /\ posted'[two] = a2
         /\ \A t \in DOMAIN posted \ {one, two} : posted'[t] = posted[t]
<1> DEFINE new == [t \in {one, two} |-> IF t = two THEN a2 ELSE a1]
           change == [a \in Accounts |-> Total([t \in DOMAIN new |-> new[t][a]], DOMAIN new)]
<1>1. DOMAIN new = {one, two} /\ new[one] = a1 /\ new[two] = a2
  OBVIOUS
<1>2. ASSUME NEW a \in Accounts PROVE change[a] = a1[a] + a2[a]
  <2>1. Total([t \in {one, two} |-> new[t][a]], {one, two}) = a1[a] + a2[a]
    <3> DEFINE g == [t \in {one, two} |-> new[t][a]]
    <3>1. g[one] = a1[a] /\ g[two] = a2[a] /\ a1[a] \in Int /\ a2[a] \in Int
      BY DEF Legs
    <3> HIDE DEF g
    <3> QED BY <3>1, TotalOfTwo DEF g
  <2> QED BY <1>1, <2>1
<1>3. /\ \A a \in Guarded : change[a] < 0 => bal[a] + change[a] >= 0
      /\ bal' = [a \in Accounts |-> bal[a] + change[a]]
      /\ posted' = [t \in DOMAIN posted \cup DOMAIN new |->
                       IF t \in DOMAIN new THEN new[t] ELSE posted[t]]
  BY DEF PostAll
<1>4. \A a \in Guarded : a \in Accounts
  BY DEF Guarded
<1>5. /\ DOMAIN posted' = DOMAIN posted \cup {one, two}
      /\ posted'[one] = a1 /\ posted'[two] = a2
      /\ \A t \in DOMAIN posted \ {one, two} : posted'[t] = posted[t]
  BY <1>1, <1>3
<1> HIDE DEF new, change
<1>6. bal' \in Legs /\ \A a \in Accounts : bal'[a] = bal[a] + a1[a] + a2[a]
  BY <1>2, <1>3 DEF LedgerOK, Legs
<1>7. \A a \in Guarded : bal'[a] >= 0
  BY <1>2, <1>3, <1>4, <1>6 DEF LedgerOK, Legs
<1>8. \A t \in DOMAIN posted' : posted'[t] \in Legs
  BY <1>5 DEF LedgerOK
<1> QED BY <1>5, <1>6, <1>7, <1>8 DEF LedgerOK

-----------------------------------------------------------------------------
(* Balance. *)

Signed(legs) == [a \in Accounts |-> IF a \in DebitNormal THEN -legs[a] ELSE legs[a]]

(* Legs, signed or not, are integers. *)
LEMMA SignedInts ==
  ASSUME NEW legs \in Legs
  PROVE  Signed(legs) \in Legs /\ Ints(Signed(legs), Accounts) /\ Ints(legs, Accounts)
BY DEF Signed, Legs, Ints

(* So are those of some of the accounts. *)
LEMMA PartOfAccounts ==
  ASSUME NEW S \in SUBSET Accounts, NEW legs \in Legs
  PROVE  IsFiniteSet(S) /\ Ints(legs, S)
BY AccountsFinite, FS_Subset DEF Legs, Ints

(* A sum with its signs turned. *)
LEMMA TotalNegated ==
  ASSUME NEW f, NEW g, NEW S, IsFiniteSet(S), Ints(f, S), \A x \in S : g[x] = -f[x]
  PROVE  Total(g, S) = -Total(f, S)
<1> DEFINE z == [x \in S |-> 0]
<1>1. Ints(g, S) /\ \A x \in S : z[x] = f[x] + g[x]
  BY DEF Ints
<1>2. Total(z, S) = Total(f, S) + Total(g, S)
  BY <1>1, TotalPlus
<1>3. Total(z, S) = 0
  BY TotalZero
<1> QED BY <1>1, <1>2, <1>3, TotalType

(* A signed sum counts the debit-normal accounts the other way. *)
LEMMA SignedTotal ==
  ASSUME NEW legs \in Legs, NEW S \in SUBSET Accounts
  PROVE  /\ Total(Signed(legs), S) = Total(legs, S \ DebitNormal) - Total(legs, S \cap DebitNormal)
         /\ Total(legs, S \ DebitNormal) \in Int /\ Total(legs, S \cap DebitNormal) \in Int
<1> DEFINE C == S \ DebitNormal
           D == S \cap DebitNormal
           sg == Signed(legs)
<1>1. C \in SUBSET Accounts /\ D \in SUBSET Accounts /\ C \cup D = S /\ C \cap D = {}
  OBVIOUS
<1>2. /\ IsFiniteSet(C) /\ Ints(legs, C) /\ Ints(sg, C)
      /\ IsFiniteSet(D) /\ Ints(legs, D) /\ Ints(sg, D)
  BY <1>1, SignedInts, PartOfAccounts
<1>3. (\A x \in C : sg[x] = legs[x]) /\ (\A x \in D : sg[x] = -legs[x])
  BY DEF Signed
<1> HIDE DEF sg, C, D
<1>4. Total(sg, C) = Total(legs, C)
  BY <1>2, <1>3, TotalSame
<1>5. Total(sg, D) = -Total(legs, D)
  BY <1>2, <1>3, TotalNegated
<1>6. Total(sg, C \cup D) = Total(sg, C) + Total(sg, D)
  BY <1>1, <1>2, TotalUnion
<1>7. Total(legs, C) \in Int /\ Total(legs, D) \in Int
  BY <1>2, TotalType
<1>8. Total(sg, S) = Total(legs, C) - Total(legs, D)
  BY <1>1, <1>4, <1>5, <1>6, <1>7
<1> QED BY <1>7, <1>8 DEF C, D, sg

(* A posting balances when its signed legs cancel in each currency. *)
LEMMA BalancedSigned ==
  ASSUME NEW legs \in Legs
  PROVE  Balanced(legs) <=> \A S \in {Usd, Accounts \ Usd} : Total(Signed(legs), S) = 0
<1>1. Usd \in SUBSET Accounts /\ Accounts \ Usd \in SUBSET Accounts
  BY AccountsAre
<1>2. ASSUME NEW S \in SUBSET Accounts
      PROVE  Total(legs, S \cap DebitNormal) = Total(legs, S \ DebitNormal)
               <=> Total(Signed(legs), S) = 0
  <2>1. /\ Total(Signed(legs), S)
             = Total(legs, S \ DebitNormal) - Total(legs, S \cap DebitNormal)
        /\ Total(legs, S \ DebitNormal) \in Int /\ Total(legs, S \cap DebitNormal) \in Int
    BY SignedTotal
  <2> QED BY <2>1
<1> QED BY <1>1, <1>2 DEF Balanced

(* One more leg moves the signed sums by its amount. *)
OneMore(f, g, a, d) == \A y \in Accounts : g[y] = IF y = a THEN f[y] + d ELSE f[y]

(* One more leg moves a signed sum by it. *)
LEMMA OneLeg ==
  ASSUME NEW f \in Legs, NEW g \in Legs, NEW a \in Accounts, NEW d \in Int, OneMore(f, g, a, d),
         NEW S \in SUBSET Accounts
  PROVE  Total(Signed(g), S)
           = Total(Signed(f), S) + (IF a \in S THEN IF a \in DebitNormal THEN -d ELSE d ELSE 0)
<1> DEFINE e == IF a \in DebitNormal THEN -d ELSE d
           sf == Signed(f)
           sg == Signed(g)
<1>1. IsFiniteSet(S) /\ Ints(sf, S)
  BY SignedInts, PartOfAccounts
<1>2. e \in Int /\ \A y \in S : sg[y] = IF y = a THEN sf[y] + e ELSE sf[y]
  BY DEF Signed, Legs, OneMore
<1> HIDE DEF e, sf, sg
<1>3. Total(sg, S) = Total(sf, S) + (IF a \in S THEN e ELSE 0)
  BY <1>1, <1>2, TotalShift
<1> QED BY <1>3 DEF e, sf, sg

(* No legs at all balance. *)
LEMMA NoLegsBalance ==
  NoLegs \in Legs /\ \A S \in SUBSET Accounts : Total(Signed(NoLegs), S) = 0
<1>1. NoLegs \in Legs
  BY DEF NoLegs, Legs
<1>2. ASSUME NEW S \in SUBSET Accounts PROVE Total(Signed(NoLegs), S) = 0
  <2>1. IsFiniteSet(S)
    BY AccountsFinite, FS_Subset
  <2>2. \A x \in Accounts : NoLegs[x] = 0
    BY DEF NoLegs
  <2>3. ASSUME NEW x \in S PROVE Signed(NoLegs)[x] = 0
    <3>1. Signed(NoLegs)[x] = IF x \in DebitNormal THEN -NoLegs[x] ELSE NoLegs[x]
      BY DEF Signed
    <3> QED BY <2>2, <3>1
  <2> QED BY <2>1, <2>3, TotalZero
<1> QED BY <1>1, <1>2

(* A posting of at most five legs, of one currency, whose signed amounts cancel. *)
At(a, x, c) == IF c = a THEN x ELSE 0
Sg(a, x) == IF a \in DebitNormal THEN -x ELSE x

Five(legs, a1, x1, a2, x2, a3, x3, a4, x4, a5, x5) ==
  \A c \in Accounts : legs[c] = At(a1, x1, c) + At(a2, x2, c) + At(a3, x3, c)
                                  + At(a4, x4, c) + At(a5, x5, c)

(* Five legs of one currency that cancel balance. *)
LEMMA FiveLegs ==
  ASSUME NEW legs \in Legs, NEW T \in {Usd, Accounts \ Usd},
         NEW a1 \in T, NEW a2 \in T, NEW a3 \in T, NEW a4 \in T, NEW a5 \in T,
         NEW x1 \in Int, NEW x2 \in Int, NEW x3 \in Int, NEW x4 \in Int, NEW x5 \in Int,
         Five(legs, a1, x1, a2, x2, a3, x3, a4, x4, a5, x5),
         Sg(a1, x1) + Sg(a2, x2) + Sg(a3, x3) + Sg(a4, x4) + Sg(a5, x5) = 0
  PROVE  Balanced(legs)
<1> DEFINE f1 == [c \in Accounts |-> At(a1, x1, c)]
           f2 == [c \in Accounts |-> At(a1, x1, c) + At(a2, x2, c)]
           f3 == [c \in Accounts |-> At(a1, x1, c) + At(a2, x2, c) + At(a3, x3, c)]
           f4 == [c \in Accounts |-> At(a1, x1, c) + At(a2, x2, c) + At(a3, x3, c) + At(a4, x4, c)]
<1>1. Usd \in SUBSET Accounts /\ T \in SUBSET Accounts
  BY AccountsAre
<1>2. a1 \in Accounts /\ a2 \in Accounts /\ a3 \in Accounts /\ a4 \in Accounts /\ a5 \in Accounts
  BY <1>1
<1>3. f1 \in Legs /\ f2 \in Legs /\ f3 \in Legs /\ f4 \in Legs
  BY DEF Legs, At
<1>4a. OneMore(NoLegs, f1, a1, x1)
  BY DEF At, NoLegs, OneMore
<1>4b. OneMore(f1, f2, a2, x2)
  BY DEF At, NoLegs, OneMore
<1>4c. OneMore(f2, f3, a3, x3)
  BY DEF At, NoLegs, OneMore
<1>4d. OneMore(f3, f4, a4, x4)
  BY DEF At, NoLegs, OneMore
<1>4e. OneMore(f4, legs, a5, x5)
  BY DEF At, NoLegs, OneMore, Five
<1> HIDE DEF f1, f2, f3, f4
<1>5. ASSUME NEW S \in {Usd, Accounts \ Usd} PROVE Total(Signed(legs), S) = 0
  <2>0. S \in SUBSET Accounts /\ NoLegs \in Legs /\ Total(Signed(NoLegs), S) = 0
    BY <1>1, NoLegsBalance
  <2>1. Total(Signed(f1), S)
          = Total(Signed(NoLegs), S) + (IF a1 \in S THEN IF a1 \in DebitNormal THEN -x1 ELSE x1 ELSE 0)
    BY <2>0, <1>2, <1>3, <1>4a, OneLeg
  <2>2. Total(Signed(f2), S)
          = Total(Signed(f1), S) + (IF a2 \in S THEN IF a2 \in DebitNormal THEN -x2 ELSE x2 ELSE 0)
    BY <2>0, <1>2, <1>3, <1>4b, OneLeg
  <2>3. Total(Signed(f3), S)
          = Total(Signed(f2), S) + (IF a3 \in S THEN IF a3 \in DebitNormal THEN -x3 ELSE x3 ELSE 0)
    BY <2>0, <1>2, <1>3, <1>4c, OneLeg
  <2>4. Total(Signed(f4), S)
          = Total(Signed(f3), S) + (IF a4 \in S THEN IF a4 \in DebitNormal THEN -x4 ELSE x4 ELSE 0)
    BY <2>0, <1>2, <1>3, <1>4d, OneLeg
  <2>5. Total(Signed(legs), S)
          = Total(Signed(f4), S) + (IF a5 \in S THEN IF a5 \in DebitNormal THEN -x5 ELSE x5 ELSE 0)
    BY <2>0, <1>2, <1>3, <1>4e, OneLeg
  <2>6. (a1 \in S <=> S = T) /\ (a2 \in S <=> S = T) /\ (a3 \in S <=> S = T)
        /\ (a4 \in S <=> S = T) /\ (a5 \in S <=> S = T)
    BY <1>1
  <2>7. CASE S = T
    BY <2>0, <2>1, <2>2, <2>3, <2>4, <2>5, <2>6, <2>7 DEF Sg
  <2>8. CASE S # T
    BY <2>0, <2>1, <2>2, <2>3, <2>4, <2>5, <2>6, <2>8
  <2> QED BY <2>7, <2>8
<1> QED BY <1>5, BalancedSigned

(* The opposite of a balanced posting is balanced. *)
LEMMA OppositeBalanced ==
  ASSUME NEW f \in Legs, NEW g \in Legs, \A a \in Accounts : g[a] = -f[a], Balanced(f)
  PROVE  Balanced(g)
<1>1. ASSUME NEW S \in {Usd, Accounts \ Usd} PROVE Total(Signed(g), S) = 0
  <2>0. S \in SUBSET Accounts
    BY AccountsAre
  <2>1. IsFiniteSet(S) /\ Ints(Signed(f), S)
    BY <2>0, SignedInts, PartOfAccounts
  <2>2. ASSUME NEW x \in S PROVE Signed(g)[x] = -Signed(f)[x]
    <3>1. x \in Accounts /\ g[x] = -f[x] /\ f[x] \in Int
      BY <2>0 DEF Legs
    <3> QED BY <3>1 DEF Signed
  <2>3. Total(Signed(g), S) = -Total(Signed(f), S)
    BY <2>1, <2>2, TotalNegated
  <2> QED BY <2>3, BalancedSigned
<1> QED BY <1>1, BalancedSigned

-----------------------------------------------------------------------------
(* Sums of the amounts of rows. *)

Amounts(S) == IsFiniteSet(S) /\ \A r \in S : r.amount \in Int
Amt(S) == [r \in S |-> r.amount]

(* Rows of an amount each have a sum. *)
LEMMA SumWithin ==
  ASSUME NEW X, Amounts(X), NEW S \in SUBSET X
  PROVE  Amounts(S) /\ Ints(Amt(X), S) /\ Sum(S) = Total(Amt(X), S) /\ Sum(S) \in Int
<1>1. IsFiniteSet(S) /\ \A r \in S : r.amount \in Int
  BY FS_Subset DEF Amounts
<1>2. Ints(Amt(X), S) /\ Ints(Amt(S), S) /\ \A r \in S : Amt(S)[r] = Amt(X)[r]
  BY <1>1 DEF Ints, Amt
<1>3. Sum(S) = Total(Amt(S), S)
  BY DEF Sum, Amt
<1>4. Total(Amt(S), S) = Total(Amt(X), S) /\ Total(Amt(S), S) \in Int
  BY <1>1, <1>2, TotalSame, TotalType
<1> QED BY <1>1, <1>2, <1>3, <1>4 DEF Amounts

(* No rows sum to nothing. *)
LEMMA SumOfNone == Sum({}) = 0
BY TotalEmpty DEF Sum

(* One row sums to its amount. *)
LEMMA SumOfOne ==
  ASSUME NEW r, r.amount \in Int
  PROVE  Sum({r}) = r.amount
<1>1. Amt({r})[r] = r.amount
  BY DEF Amt
<1>2. Total(Amt({r}), {r}) = Amt({r})[r]
  BY <1>1, TotalOfOne
<1> QED BY <1>1, <1>2 DEF Sum, Amt

(* Some rows leave and others come. *)
Swap(S, A, N) == Amounts(S) /\ A \subseteq S /\ Amounts(N) /\ N \cap S = {}

(* Rows that are replaced move the sum by what they were and became. *)
LEMMA SumSwap ==
  ASSUME NEW S, NEW A, NEW N, Swap(S, A, N)
  PROVE  /\ Sum((S \ A) \cup N) = Sum(S) - Sum(A) + Sum(N)
         /\ Sum(S) \in Int /\ Sum(A) \in Int /\ Sum(N) \in Int
<1> DEFINE X == S \cup N
           R == S \ A
<1>1. Amounts(X)
  <2>1. IsFiniteSet(X)
    BY FS_Union DEF Amounts, Swap
  <2> QED BY <2>1 DEF Amounts, Swap
<1>2. R \in SUBSET X /\ A \in SUBSET X /\ N \in SUBSET X /\ S \in SUBSET X /\ R \cup N \in SUBSET X
      /\ R \cup A = S /\ R \cap A = {} /\ R \cap N = {}
  BY DEF Swap
<1> HIDE DEF X, R
<1>3. /\ Sum(R) = Total(Amt(X), R) /\ IsFiniteSet(R) /\ Ints(Amt(X), R) /\ Sum(R) \in Int
      /\ Sum(A) = Total(Amt(X), A) /\ IsFiniteSet(A) /\ Ints(Amt(X), A) /\ Sum(A) \in Int
      /\ Sum(N) = Total(Amt(X), N) /\ IsFiniteSet(N) /\ Ints(Amt(X), N) /\ Sum(N) \in Int
      /\ Sum(S) = Total(Amt(X), S) /\ Sum(S) \in Int
      /\ Sum(R \cup N) = Total(Amt(X), R \cup N)
  BY <1>1, <1>2, SumWithin DEF Amounts
<1>4. Total(Amt(X), R \cup A) = Total(Amt(X), R) + Total(Amt(X), A)
  BY <1>2, <1>3, TotalUnion
<1>5. Total(Amt(X), R \cup N) = Total(Amt(X), R) + Total(Amt(X), N)
  BY <1>2, <1>3, TotalUnion
<1>6. Sum(S) = Sum(R) + Sum(A)
  BY <1>2, <1>3, <1>4
<1>7. Sum(R \cup N) = Sum(R) + Sum(N)
  BY <1>3, <1>5
<1> QED BY <1>3, <1>6, <1>7 DEF R

(* The shares and the debts of rows after such a change. *)
LEMMA PartsSwap ==
  ASSUME NEW S, NEW A, NEW N, Swap(S, A, N)
  PROVE  /\ Shares((S \ A) \cup N) = Shares(S) - Shares(A) + Shares(N)
         /\ Debts((S \ A) \cup N) = Debts(S) - Debts(A) + Debts(N)
         /\ Shares(S) \in Int /\ Shares(A) \in Int /\ Shares(N) \in Int
         /\ Debts(S) \in Int /\ Debts(A) \in Int /\ Debts(N) \in Int
<1> DEFINE UpS == {r \in S : r.amount > 0}
           UpA == {r \in A : r.amount > 0}
           UpN == {r \in N : r.amount > 0}
           UpT == {r \in ((S \ A) \cup N) : r.amount > 0}
           DnS == {r \in S : r.amount < 0}
           DnA == {r \in A : r.amount < 0}
           DnN == {r \in N : r.amount < 0}
           DnT == {r \in ((S \ A) \cup N) : r.amount < 0}
<1>1. UpT = (UpS \ UpA) \cup UpN /\ DnT = (DnS \ DnA) \cup DnN
  OBVIOUS
<1>2. Swap(UpS, UpA, UpN) /\ Swap(DnS, DnA, DnN)
  <2>1. UpS \in SUBSET S /\ DnS \in SUBSET S /\ UpN \in SUBSET N /\ DnN \in SUBSET N
    OBVIOUS
  <2>2. Amounts(UpS) /\ Amounts(UpN) /\ Amounts(DnS) /\ Amounts(DnN)
    BY <2>1, FS_Subset DEF Amounts, Swap
  <2>3. UpA \subseteq UpS /\ UpN \cap UpS = {} /\ DnA \subseteq DnS /\ DnN \cap DnS = {}
    BY DEF Swap
  <2> QED BY <2>2, <2>3 DEF Swap
<1>3. /\ Shares(S) = Sum(UpS) /\ Shares(A) = Sum(UpA) /\ Shares(N) = Sum(UpN)
      /\ Debts(S) = -Sum(DnS) /\ Debts(A) = -Sum(DnA) /\ Debts(N) = -Sum(DnN)
      /\ Shares((S \ A) \cup N) = Sum(UpT) /\ Debts((S \ A) \cup N) = -Sum(DnT)
  BY DEF Shares, Debts
<1> HIDE DEF UpS, UpA, UpN, UpT, DnS, DnA, DnN, DnT
<1>4. Sum((UpS \ UpA) \cup UpN) = Sum(UpS) - Sum(UpA) + Sum(UpN)
      /\ Sum(UpS) \in Int /\ Sum(UpA) \in Int /\ Sum(UpN) \in Int
  BY <1>2, SumSwap
<1>5. Sum((DnS \ DnA) \cup DnN) = Sum(DnS) - Sum(DnA) + Sum(DnN)
      /\ Sum(DnS) \in Int /\ Sum(DnA) \in Int /\ Sum(DnN) \in Int
  BY <1>2, SumSwap
<1> QED BY <1>1, <1>3, <1>4, <1>5

-----------------------------------------------------------------------------
(* Rows that are settled, and at most one that is new. *)

(* The accrual rows have amounts. *)
LEMMA RowAmounts ==
  ASSUME rows \subseteq Row, IsFiniteSet(rows), NEW S \in SUBSET rows
  PROVE  Amounts(S)
BY FS_Subset DEF Amounts, Row

Fresh(n) ==
  /\ n \in Row /\ n.status = "pending" /\ n.at = NextAt

(* N follows what it replaces: it is the last row of its order. *)
RowsMove(A, st, N) ==
  /\ A \subseteq AllPending /\ st \in {"drained", "refunded"}
  /\ \A n \in N : Fresh(n)
  /\ \A n, m \in N : n = m
  /\ \A n \in N : \A q \in rows : q.order = n.order => q.seq < n.seq /\ (q.status = "pending" => q \in A)
  /\ rows' = (rows \ A) \cup Settle(A, st) \cup N

KeysApart == \A r, q \in rows : r.order = q.order /\ r.seller = q.seller /\ r.seq = q.seq => r = q
AllApart == \A r, q \in rows : Apart(r, q)

(* The row a row has become. *)
Became(A, st, r) == IF r \in A THEN [r EXCEPT !.status = st] ELSE r

(* A row that ends keeps all but its status. *)
LEMMA BecameIs ==
  ASSUME NEW A, NEW st \in {"drained", "refunded"}, NEW r \in Row
  PROVE  LET x == Became(A, st, r) IN
         /\ x \in Row
         /\ x.order = r.order /\ x.seller = r.seller /\ x.seq = r.seq
         /\ x.amount = r.amount /\ x.at = r.at
         /\ r \in A => x.status = st
         /\ r \notin A => x = r
<1>1. [r EXCEPT !.status = st] \in Row
  BY DEF Row
<1>2. CASE r \in A
  BY <1>1, <1>2 DEF Became, Row
<1>3. CASE r \notin A
  BY <1>3 DEF Became
<1> QED BY <1>2, <1>3

(* The rows after the move: the old ones, some settled, and the new one. *)
LEMMA MovedRows ==
  ASSUME rows \subseteq Row, NEW A, NEW st, NEW N, RowsMove(A, st, N)
  PROVE  /\ \A r \in rows : Became(A, st, r) \in rows'
         /\ \A x \in rows' : x \in N \/ \E r \in rows : x = Became(A, st, r)
         /\ N \subseteq rows'
<1>1. rows' = (rows \ A) \cup {[r EXCEPT !.status = st] : r \in A} \cup N /\ A \subseteq rows
  BY DEF RowsMove, Settle, AllPending
<1> QED BY <1>1 DEF Became

(* A move of the rows adds one at most. *)
LEMMA MovedCount ==
  ASSUME rows \subseteq Row, IsFiniteSet(rows), KeysApart,
         \A r \in rows : r.at < Cardinality(rows),
         NEW A, NEW st, NEW N, RowsMove(A, st, N)
  PROVE  /\ IsFiniteSet(rows')
         /\ Cardinality(rows) \in Nat
         /\ Cardinality(rows') = Cardinality(rows) + (IF N = {} THEN 0 ELSE 1)
         /\ rows' \subseteq Row
         /\ \A r \in rows : \A n \in N : n # Became(A, st, r) /\ n \notin rows
<1> DEFINE f == [r \in rows |-> Became(A, st, r)]
           M == {Became(A, st, r) : r \in rows}
<1>0. st \in {"drained", "refunded"}
  BY DEF RowsMove
<1>1. ASSUME NEW r \in rows, NEW q \in rows, Became(A, st, r) = Became(A, st, q)
      PROVE  r = q
  <2>1. r \in Row /\ q \in Row
    OBVIOUS
  <2>2. r.order = q.order /\ r.seller = q.seller /\ r.seq = q.seq
    BY <1>0, <1>1, <2>1, BecameIs
  <2> QED BY <2>2 DEF KeysApart
<1>2. f \in [rows -> M] /\ \A r, q \in rows : f[r] = f[q] => r = q
  BY <1>1
<1>3. \A x \in M : \E r \in rows : x = f[r]
  OBVIOUS
<1>4. ExistsBijection(rows, M)
  <2>1. DOMAIN f = rows
    OBVIOUS
  <2> HIDE DEF f, M
  <2>2. f \in Injection(rows, M)
    BY <1>2, <2>1 DEF Injection, IsInjective
  <2>3. f \in Surjection(rows, M)
    BY <1>2, <1>3 DEF Surjection, f
  <2> QED BY <2>2, <2>3 DEF ExistsBijection, Bijection
<1>5. IsFiniteSet(M) /\ Cardinality(M) = Cardinality(rows)
  BY <1>4, FS_Bijection
<1>6. Cardinality(rows) \in Nat
  BY FS_CardinalityType
<1>7. rows' = M \cup N
  BY MovedRows
<1>8. ASSUME NEW r \in rows, NEW n \in N PROVE n # Became(A, st, r) /\ n # r
  <2>1. n.at = Cardinality(rows)
    BY DEF RowsMove, Fresh, NextAt
  <2>2. r \in Row /\ r.at < Cardinality(rows) /\ r.at \in Nat
    BY DEF Row
  <2>3. Became(A, st, r).at = r.at
    BY <1>0, <2>2, BecameIs
  <2> QED BY <1>6, <2>1, <2>2, <2>3
<1>9. M \subseteq Row /\ N \subseteq Row
  <2>1. N \subseteq Row
    BY DEF RowsMove, Fresh
  <2>2. ASSUME NEW x \in M PROVE x \in Row
    <3>1. PICK r \in rows : x = Became(A, st, r)
      OBVIOUS
    <3>2. r \in Row
      OBVIOUS
    <3> QED BY <1>0, <3>1, <3>2, BecameIs
  <2> QED BY <2>1, <2>2
<1>10. N \cap M = {}
  BY <1>8
<1> HIDE DEF M
<1>11. CASE N = {}
  <2>1. rows' = M
    BY <1>7, <1>11
  <2> QED BY <1>5, <1>6, <1>8, <1>9, <1>11, <2>1
<1>12. CASE N # {}
  <2>1. PICK n : N = {n}
    BY <1>12 DEF RowsMove
  <2>2. n \notin M /\ rows' = M \cup {n}
    BY <1>7, <1>10, <2>1
  <2>3. IsFiniteSet(rows') /\ Cardinality(rows') = Cardinality(M) + 1
    BY <1>5, <2>2, FS_AddElement
  <2> QED BY <1>5, <1>6, <1>7, <1>8, <1>9, <1>12, <2>3
<1> QED BY <1>11, <1>12

(* After it the rows still differ in their key and their time. *)
LEMMA MovedApart ==
  ASSUME rows \subseteq Row, IsFiniteSet(rows), KeysApart, AllApart,
         \A r \in rows : r.at < Cardinality(rows),
         NEW A, NEW st, NEW N, RowsMove(A, st, N)
  PROVE  KeysApart' /\ AllApart' /\ \A x \in rows' : x.at < Cardinality(rows')
<1>0. st \in {"drained", "refunded"} /\ IsFiniteSet(rows) /\ Cardinality(rows) \in Nat
      /\ Cardinality(rows') = Cardinality(rows) + (IF N = {} THEN 0 ELSE 1)
  BY MovedCount DEF RowsMove
<1>1. ASSUME NEW r \in rows
      PROVE  LET x == Became(A, st, r) IN
             /\ x.order = r.order /\ x.seller = r.seller /\ x.seq = r.seq /\ x.at = r.at
             /\ x.status = "pending" => x = r /\ r \notin A
             /\ x.at < Cardinality(rows) /\ x.at \in Nat /\ x.seq \in Nat
  <2>1. r \in Row /\ r.at < Cardinality(rows)
    OBVIOUS
  <2> QED BY <1>0, <2>1, BecameIs DEF Row
<1>2. ASSUME NEW n \in N
      PROVE  /\ n.at = Cardinality(rows) /\ n.status = "pending" /\ n.seq \in Nat
             /\ \A m \in N : m = n
             /\ \A q \in rows : q.order = n.order => q.seq < n.seq /\ (q.status = "pending" => q \in A)
             /\ N # {}
  BY DEF RowsMove, Fresh, NextAt, Row
<1>3. \A x \in rows' : x \in N \/ \E r \in rows : x = Became(A, st, r)
  BY MovedRows
<1>4. ASSUME NEW x \in rows', NEW y \in rows'
      PROVE  /\ Apart(x, y)
             /\ x.order = y.order /\ x.seller = y.seller /\ x.seq = y.seq => x = y
  <2>1. CASE x \in N /\ y \in N
    BY <1>2, <2>1 DEF Apart
  <2>2. ASSUME x \in N, NEW q \in rows, y = Became(A, st, q)
        PROVE  /\ Apart(x, y)
               /\ x.order = y.order /\ x.seller = y.seller /\ x.seq = y.seq => x = y
    <3>1. /\ x.at = Cardinality(rows) /\ x.seq \in Nat
          /\ q.order = x.order => q.seq < x.seq
      BY <1>2, <2>2
    <3>2. y.order = q.order /\ y.seq = q.seq /\ y.at < Cardinality(rows) /\ y.at \in Nat /\ y.seq \in Nat
      BY <1>1, <2>2
    <3> QED BY <1>0, <3>1, <3>2 DEF Apart
  <2>3. ASSUME NEW r \in rows, x = Became(A, st, r), y \in N
        PROVE  /\ Apart(x, y)
               /\ x.order = y.order /\ x.seller = y.seller /\ x.seq = y.seq => x = y
    <3>1. /\ y.at = Cardinality(rows) /\ y.seq \in Nat
          /\ r.order = y.order => r.seq < y.seq /\ (r.status = "pending" => r \in A)
      BY <1>2, <2>3
    <3>2. /\ x.order = r.order /\ x.seq = r.seq /\ x.at < Cardinality(rows) /\ x.at \in Nat
          /\ x.seq \in Nat /\ (x.status = "pending" => x = r /\ r \notin A)
      BY <1>1, <2>3
    <3> QED BY <1>0, <3>1, <3>2 DEF Apart
  <2>4. ASSUME NEW r \in rows, NEW q \in rows, x = Became(A, st, r), y = Became(A, st, q)
        PROVE  /\ Apart(x, y)
               /\ x.order = y.order /\ x.seller = y.seller /\ x.seq = y.seq => x = y
    <3>1. /\ x.order = r.order /\ x.seller = r.seller /\ x.seq = r.seq /\ x.at = r.at
          /\ x.status = "pending" => x = r
      BY <1>1, <2>4
    <3>2. y.order = q.order /\ y.seller = q.seller /\ y.seq = q.seq /\ y.at = q.at
      BY <1>1, <2>4
    <3>3. Apart(r, q) /\ (r.order = q.order /\ r.seller = q.seller /\ r.seq = q.seq => r = q)
      BY DEF AllApart, KeysApart
    <3> QED BY <2>4, <3>1, <3>2, <3>3 DEF Apart
  <2> QED BY <1>3, <2>1, <2>2, <2>3, <2>4
<1>5. ASSUME NEW x \in rows' PROVE x.at < Cardinality(rows')
  <2>1. CASE x \in N
    BY <1>0, <1>2, <2>1
  <2>2. ASSUME NEW r \in rows, x = Became(A, st, r) PROVE x.at < Cardinality(rows')
    BY <1>0, <1>1, <2>2
  <2> QED BY <1>3, <2>1, <2>2
<1>6. KeysApart'
  BY <1>4 DEF KeysApart
<1>7. AllApart'
  BY <1>4 DEF AllApart
<1> QED BY <1>5, <1>6, <1>7

Of(v, S) == {r \in S : r.seller = v}

(* The rows pending after it, in all and of each seller. *)
LEMMA MovedPending ==
  ASSUME rows \subseteq Row, IsFiniteSet(rows), KeysApart,
         \A r \in rows : r.at < Cardinality(rows),
         NEW A, NEW st, NEW N, RowsMove(A, st, N)
  PROVE  /\ AllPending' = (AllPending \ A) \cup N
         /\ Swap(AllPending, A, N)
         /\ \A v : Pending(v)' = (Pending(v) \ Of(v, A)) \cup Of(v, N)
         /\ \A v : Swap(Pending(v), Of(v, A), Of(v, N))
<1>1. \A n \in N : n.status = "pending" /\ n \notin rows
  BY MovedCount DEF RowsMove, Fresh
<1>2. \A x \in rows' : x \in N \/ \E r \in rows : x = Became(A, st, r)
  BY MovedRows
<1>3. A \subseteq rows /\ \A r \in A : r.status = "pending"
  BY DEF RowsMove, AllPending
<1>4. ASSUME NEW x
      PROVE  x \in rows' /\ x.status = "pending"
               <=> (x \in rows /\ x.status = "pending" /\ x \notin A) \/ x \in N
  <2>1. ASSUME x \in rows', x.status = "pending", x \notin N
        PROVE  x \in rows /\ x \notin A
    <3>1. PICK r \in rows : x = Became(A, st, r)
      BY <1>2, <2>1
    <3>2. r \in Row /\ st \in {"drained", "refunded"}
      BY DEF RowsMove
    <3>3. (r \in A => x.status = st) /\ (r \notin A => x = r)
      BY <3>1, <3>2, BecameIs
    <3> QED BY <2>1, <3>2, <3>3
  <2>2. ASSUME x \in rows, x \notin A PROVE x \in rows'
    BY <2>2 DEF RowsMove
  <2>3. N \subseteq rows'
    BY MovedRows
  <2> QED BY <1>1, <2>1, <2>2, <2>3
<1>5. AllPending' = (AllPending \ A) \cup N
  BY <1>4 DEF AllPending
<1>6. ASSUME NEW v PROVE Pending(v)' = (Pending(v) \ Of(v, A)) \cup Of(v, N)
  BY <1>4 DEF Pending, Of
<1>7. IsFiniteSet(N) /\ IsFiniteSet(rows')
  BY MovedCount, MovedRows, FS_Subset
<1>8. rows' \subseteq Row /\ N \subseteq rows'
  BY MovedCount, MovedRows
<1>9. ASSUME NEW S, S \subseteq rows \/ S \subseteq N PROVE Amounts(S)
  <2>1. IsFiniteSet(S)
    BY <1>7, <1>9, FS_Subset
  <2> QED BY <1>8, <1>9, <2>1 DEF Amounts, Row
<1>10. Swap(AllPending, A, N)
  <2>1. AllPending \subseteq rows /\ N \cap AllPending = {}
    BY <1>1 DEF AllPending
  <2> QED BY <1>9, <2>1 DEF Swap, RowsMove
<1>11. ASSUME NEW v PROVE Swap(Pending(v), Of(v, A), Of(v, N))
  <2>1. Pending(v) \subseteq rows /\ Of(v, N) \subseteq N /\ Of(v, N) \cap Pending(v) = {}
        /\ Of(v, A) \subseteq Pending(v)
    BY <1>1, <1>3 DEF Pending, Of
  <2>2. Amounts(Pending(v)) /\ Amounts(Of(v, N))
    BY <1>9, <2>1
  <2> QED BY <2>1, <2>2 DEF Swap
<1> QED BY <1>5, <1>6, <1>10, <1>11

(* The postings of sales stay. *)
SalesStay ==
  /\ \A o \in Orders : sale[o] # Unsold =>
       /\ sale'[o] = sale[o]
       /\ SaleId(o) \in DOMAIN posted' /\ posted'[SaleId(o)] = posted[SaleId(o)]
  /\ refunds \subseteq refunds'

DrainKnown(t) == \E r \in rows : r.amount > 0 /\ r.status = "drained" /\ KeyOf(r) \in t[2]

(* What the rows, sales and drains say of each other survives it. *)
LEMMA MovedStore ==
  ASSUME rows \subseteq Row, SalesOK, RowsOK, DrainsOK, KeysApart, SalesStay,
         NEW A, NEW st, NEW N, RowsMove(A, st, N),
         st = "refunded" => \A r \in A : r.order \in refunds',
         \A n \in N : RowOK(n)' /\ (n.seq = 0 => sale[n.order] = Unsold)
  PROVE  /\ RowsOK' /\ KeysApart' /\ rows' \subseteq Row
         /\ \A o \in Orders : sale[o] # Unsold => SaleOK(o)'
         /\ \A t \in DOMAIN posted : t[1] = "drain" => DrainKnown(t)'
<1>0. /\ st \in {"drained", "refunded"} /\ IsFiniteSet(rows) /\ AllApart
      /\ \A r \in rows : RowOK(r) /\ r.at < Cardinality(rows) /\ r \in Row
  BY DEF RowsMove, RowsOK, AllApart
<1>1. /\ KeysApart' /\ AllApart' /\ \A x \in rows' : x.at < Cardinality(rows')
  BY <1>0, MovedApart
<1>2. IsFiniteSet(rows') /\ rows' \subseteq Row
  BY <1>0, MovedCount
<1>3. /\ \A r \in rows : Became(A, st, r) \in rows'
      /\ \A x \in rows' : x \in N \/ \E r \in rows : x = Became(A, st, r)
  BY MovedRows
<1>4. ASSUME NEW r \in rows
      PROVE  LET x == Became(A, st, r) IN
             /\ x.order = r.order /\ x.seller = r.seller /\ x.seq = r.seq /\ x.amount = r.amount
             /\ x.status = IF r \in A THEN st ELSE r.status
             /\ r.order \in Orders
  <2>1. r \in Row /\ r.order \in Orders
    BY <1>0 DEF Row
  <2>2. LET x == Became(A, st, r) IN
        /\ x.order = r.order /\ x.seller = r.seller /\ x.seq = r.seq /\ x.amount = r.amount
        /\ r \in A => x.status = st
        /\ r \notin A => x = r
    BY <1>0, <2>1, BecameIs
  <2> QED BY <2>1, <2>2
<1>5. ASSUME NEW x \in rows' PROVE RowOK(x)'
  <2>1. CASE x \in N
    BY <2>1
  <2>2. ASSUME NEW r \in rows, x = Became(A, st, r) PROVE RowOK(x)'
    <3>1. /\ x.order = r.order /\ x.seller = r.seller /\ x.seq = r.seq /\ x.amount = r.amount
          /\ x.status = (IF r \in A THEN st ELSE r.status) /\ r.order \in Orders
      BY <1>4, <2>2
    <3>2. RowOK(r)
      BY <1>0
    <3>3. /\ sale'[r.order] = sale[r.order] /\ posted'[SaleId(r.order)] = posted[SaleId(r.order)]
          /\ refunds \subseteq refunds'
      BY <3>1, <3>2 DEF RowOK, SalesStay
    <3>4. x.status = "refunded" => r.order \in refunds'
      BY <3>1, <3>2, <3>3 DEF RowOK
    <3> QED BY <3>1, <3>2, <3>3, <3>4 DEF RowOK
  <2> QED BY <1>3, <2>1, <2>2
<1>6. ASSUME NEW o \in Orders, sale[o] # Unsold PROVE SaleOK(o)'
  <2>1. SaleOK(o) /\ sale'[o] = sale[o]
        /\ SaleId(o) \in DOMAIN posted' /\ posted'[SaleId(o)] = posted[SaleId(o)]
    BY <1>6 DEF SalesOK, SalesStay
  <2>2. (\E r \in rows : r.order = o /\ r.seq = 0) <=> (\E x \in rows' : x.order = o /\ x.seq = 0)
    <3>1. ASSUME NEW r \in rows, r.order = o /\ r.seq = 0
          PROVE  \E x \in rows' : x.order = o /\ x.seq = 0
      BY <1>3, <1>4, <3>1
    <3>2. ASSUME NEW x \in rows', x.order = o /\ x.seq = 0
          PROVE  \E r \in rows : r.order = o /\ r.seq = 0
      <4>1. x \notin N
        BY <1>6, <3>2
      <4> QED BY <1>3, <1>4, <3>2, <4>1
    <3> QED BY <3>1, <3>2
  <2>3. /\ \A a \in Accounts \ SaleAccounts(o) : posted'[SaleId(o)][a] = 0
        /\ \A a \in {Promo(BuyerOf[o]), House("promo_float"), Spendable(BuyerOf[o])} :
             posted'[SaleId(o)][a] <= 0
        /\ \A a \in {House("accrual"), Earned(SellerOf[o])} : posted'[SaleId(o)][a] >= 0
        /\ \/ posted'[SaleId(o)][House("accrual")] = 0
           \/ posted'[SaleId(o)][Earned(SellerOf[o])] = 0
    BY <2>1 DEF SaleOK
  <2>4. posted'[SaleId(o)][House("accrual")] # 0 <=> \E x \in rows' : x.order = o /\ x.seq = 0
    BY <2>1, <2>2 DEF SaleOK
  <2>5. sale'[o] = SaleId(o) /\ SaleId(o) \in DOMAIN posted'
    BY <2>1 DEF SaleOK
  <2> QED BY <2>3, <2>4, <2>5 DEF SaleOK
<1>7. ASSUME NEW t \in DOMAIN posted, t[1] = "drain" PROVE DrainKnown(t)'
  <2>1. PICK r \in rows : r.amount > 0 /\ r.status = "drained" /\ KeyOf(r) \in t[2]
    BY <1>7 DEF DrainsOK
  <2>2. r \notin A
    BY <2>1 DEF RowsMove, AllPending
  <2>3. r \in rows'
    BY <2>2 DEF RowsMove
  <2> QED BY <2>1, <2>3 DEF DrainKnown
<1> QED BY <1>1, <1>2, <1>5, <1>6, <1>7 DEF RowsOK, AllApart

-----------------------------------------------------------------------------
(* The parts of the invariant. *)

SaleTypes ==
  DOMAIN sale = Orders /\ \A o \in Orders : sale[o] # Unsold => sale[o] \in DOMAIN posted
OtherTypes ==
  /\ grants \in [Grants -> {"none", "open", "reversed"}]
  /\ sweep \in [Sweeps -> SUBSET Grants]
  /\ owned \subseteq Buyers
  /\ accrual \in BOOLEAN
  /\ refunds \subseteq Orders
  /\ shortfall \in [Accounts -> Nat]
  /\ corrected \in [Accounts -> [up : Nat, down : Nat]]

(* TypeOK, in parts. *)
LEMMA TypeParts == TypeOK <=> LedgerOK /\ SaleTypes /\ rows \subseteq Row /\ KeysApart /\ OtherTypes
BY DEF TypeOK, LedgerOK, Legs, SaleTypes, KeysApart, OtherTypes

(* What a seller has and is owed, and the sales that count. *)
Sold(v) == {o \in Orders : sale[o] # Unsold /\ o \notin refunds /\ SellerOf[o] = v}
ShareOf(v) == [o \in Sold(v) |-> posted[sale[o]][House("accrual")] + posted[sale[o]][Earned(v)]]
Owing(v) ==
  bal[Earned(v)] - ByOperators(Earned(v)) + Shares(Pending(v)) - Debts(Pending(v))
    - shortfall[Earned(v)]
SellerOK(v) == Owing(v) = Total(ShareOf(v), Sold(v))

(* What each seller gets, one by one. *)
LEMMA SellersAre == SellersGetTheirShares <=> \A v \in Sellers : SellerOK(v)
BY DEF SellersGetTheirShares, SellerOK, Owing, ShareOf, Sold

OpenOf(u) == {g \in Grants : grants[g] = "open" /\ GranteeOf[g] = u}
PromoOK(u) ==
  bal[Promo(u)] <= Total(AmountOf, OpenOf(u)) + Refunded(Promo(u)) + corrected[Promo(u)].up

(* What each buyer holds of promo credits, one by one. *)
LEMMA PromosAre == PromoIsTracked <=> \A u \in Buyers : PromoOK(u)
BY DEF PromoIsTracked, PromoOK, OpenOf

(* The postings, one by one. *)
LEMMA PostingsAre == PostingsBalance <=> \A t \in DOMAIN posted : Balanced(posted[t])
BY DEF PostingsBalance, Balanced

Store == RowsOK /\ SalesOK /\ DrainsOK
Money ==
  /\ \A t \in DOMAIN posted : Balanced(posted[t])
  /\ EscrowMatchesRows /\ ReceivableIsOwed
  /\ \A v \in Sellers : SellerOK(v)
  /\ \A u \in Buyers : PromoOK(u)

(* The invariant, in parts. *)
LEMMA InvParts == IInv <=> LedgerOK /\ SaleTypes /\ rows \subseteq Row /\ KeysApart /\ OtherTypes
                             /\ Store /\ Money
BY TypeParts, SellersAre, PromosAre, PostingsAre DEF IInv, Store, Money

(* The invariant from its parts in the next state. *)
LEMMA InvNext ==
  ASSUME LedgerOK', SaleTypes', rows' \subseteq Row, KeysApart', OtherTypes', Store', Money'
  PROVE  IInv'
<1>1. TypeOK'
  BY DEF TypeOK, LedgerOK, Legs, SaleTypes, KeysApart, OtherTypes
<1>2. SellersGetTheirShares'
  BY DEF Money, SellersGetTheirShares, SellerOK, Owing, ShareOf, Sold
<1>3. PromoIsTracked'
  BY DEF Money, PromoIsTracked, PromoOK, OpenOf
<1>4. PostingsBalance'
  BY DEF Money, PostingsBalance, Balanced
<1> QED BY <1>1, <1>2, <1>3, <1>4 DEF IInv, Store, Money

(* Everything the steps below need of the state and the constants. *)
LEMMA Known ==
  ASSUME IInv
  PROVE  /\ bal \in [Accounts -> Int] /\ shortfall \in [Accounts -> Nat]
         /\ \A a \in Accounts : corrected[a].up \in Nat /\ corrected[a].down \in Nat
                                /\ ByOperators(a) \in Int
         /\ rows \subseteq Row /\ IsFiniteSet(rows) /\ KeysApart
         /\ \A r \in rows : r.at < Cardinality(rows)
         /\ \A S \in SUBSET rows : Amounts(S)
         /\ refunds \subseteq Orders /\ IsFiniteSet(refunds) /\ DOMAIN sale = Orders
         /\ \A o \in refunds : sale[o] # Unsold
<1>1. /\ LedgerOK /\ SaleTypes /\ rows \subseteq Row /\ KeysApart /\ OtherTypes /\ Store
  BY InvParts
<1>2. \A a \in Accounts : corrected[a].up \in Nat /\ corrected[a].down \in Nat
                          /\ ByOperators(a) \in Int
  BY <1>1 DEF OtherTypes, ByOperators
<1>3. IsFiniteSet(rows) /\ \A S \in SUBSET rows : Amounts(S)
  BY <1>1, RowAmounts DEF Store, RowsOK
<1>4. IsFiniteSet(Orders)
  BY MarketAssumption
<1>5. IsFiniteSet(refunds)
  BY <1>1, <1>4, FS_Subset DEF OtherTypes
<1>6. \A r \in rows : r.at < Cardinality(rows)
  BY <1>1 DEF Store, RowsOK
<1> QED BY <1>1, <1>2, <1>3, <1>5, <1>6 DEF LedgerOK, Legs, OtherTypes, SaleTypes, Store, SalesOK

(* The posting of a sold order. *)
LEMMA SaleKnown ==
  ASSUME IInv, NEW o \in Orders, sale[o] # Unsold
  PROVE  /\ SaleOK(o) /\ sale[o] = SaleId(o) /\ SaleId(o) \in DOMAIN posted
         /\ posted[SaleId(o)] \in Legs /\ \A a \in Accounts : posted[sale[o]][a] \in Int
         /\ posted[sale[o]] = posted[SaleId(o)]
<1>1. SaleOK(o) /\ \A t \in DOMAIN posted : posted[t] \in Legs
  BY InvParts DEF Store, SalesOK, LedgerOK
<1>2. sale[o] = SaleId(o) /\ SaleId(o) \in DOMAIN posted
  BY <1>1 DEF SaleOK
<1>3. posted[SaleId(o)] \in Legs
  BY <1>1, <1>2
<1> QED BY <1>1, <1>2, <1>3 DEF Legs

(* The parties and amounts the constants give. *)
LEMMA PartiesAre ==
  /\ \A o \in Orders : BuyerOf[o] \in Buyers /\ SellerOf[o] \in Sellers
  /\ \A o \in Orders : PriceOf[o] \in Nat /\ PriceOf[o] > 0
  /\ \A g \in Grants : GranteeOf[g] \in Buyers /\ AmountOf[g] \in Nat /\ AmountOf[g] > 0
  /\ FeeBps \in Nat /\ TopUpAmount \in Nat /\ TopUpAmount > 0
  /\ Adjustable \subseteq Accounts \ Usd /\ IsFiniteSet(Orders) /\ IsFiniteSet(Grants)
BY MarketAssumption

(* Sums over sales do not change when no sale is made or refunded. *)
LEMMA SalesSame ==
  ASSUME IInv, SalesStay, UNCHANGED <<sale, refunds>>
  PROVE  /\ \A v \in Sellers : Total(ShareOf(v), Sold(v))' = Total(ShareOf(v), Sold(v))
         /\ \A u \in Buyers : Refunded(Promo(u))' = Refunded(Promo(u))
<1>1. ASSUME NEW o \in Orders, sale[o] # Unsold
      PROVE  posted'[sale'[o]] = posted[sale[o]]
  BY <1>1, SaleKnown DEF SalesStay
<1>2. ASSUME NEW v \in Sellers PROVE Total(ShareOf(v), Sold(v))' = Total(ShareOf(v), Sold(v))
  <2>1. Sold(v)' = Sold(v)
    BY DEF Sold
  <2>2. \A o \in Sold(v) : posted'[sale'[o]] = posted[sale[o]]
    BY <1>1 DEF Sold
  <2>3. ShareOf(v)' = ShareOf(v)
    BY <2>1, <2>2 DEF ShareOf
  <2> QED BY <2>1, <2>3
<1>3. ASSUME NEW u \in Buyers PROVE Refunded(Promo(u))' = Refunded(Promo(u))
  <2>1. refunds' = refunds /\ \A o \in refunds : posted'[sale'[o]] = posted[sale[o]]
    BY <1>1, Known
  <2>2. [o \in refunds |-> -posted[sale[o]][Promo(u)]]'
          = [o \in refunds |-> -posted[sale[o]][Promo(u)]]
    BY <2>1
  <2> QED BY <2>1, <2>2 DEF Refunded
<1> QED BY <1>2, <1>3

(* A step that touches no row and no sale. *)
Quiet ==
  /\ UNCHANGED <<rows, sale, refunds>> /\ keys \subseteq keys'
  /\ DOMAIN posted \subseteq DOMAIN posted'
  /\ \A o \in Orders : SaleId(o) \in DOMAIN posted => posted'[SaleId(o)] = posted[SaleId(o)]
  /\ \A t \in DOMAIN posted' : t[1] = "drain" => t \in DOMAIN posted

(* A step that leaves the store alone keeps the sales. *)
LEMMA QuietStays ==
  ASSUME IInv, Quiet
  PROVE  SalesStay
<1>1. ASSUME NEW o \in Orders, sale[o] # Unsold PROVE SaleId(o) \in DOMAIN posted
  BY <1>1, SaleKnown
<1> QED BY <1>1 DEF Quiet, SalesStay

(* It keeps the whole store. *)
LEMMA QuietStore ==
  ASSUME IInv, Quiet
  PROVE  Store' /\ SaleTypes' /\ rows' \subseteq Row /\ KeysApart'
<1>0. /\ rows \subseteq Row /\ SalesOK /\ RowsOK /\ DrainsOK /\ KeysApart /\ SaleTypes
  BY InvParts DEF Store
<1>1. SalesStay
  BY QuietStays
<1>2. RowsMove({}, "drained", {})
  BY DEF Quiet, RowsMove, Settle
<1>3. /\ RowsOK' /\ KeysApart' /\ rows' \subseteq Row
      /\ \A o \in Orders : sale[o] # Unsold => SaleOK(o)'
      /\ \A t \in DOMAIN posted : t[1] = "drain" => DrainKnown(t)'
  BY <1>0, <1>1, <1>2, MovedStore
<1>4. SalesOK'
  BY <1>0, <1>3 DEF SalesOK, Quiet
<1>5. DrainsOK'
  BY <1>3 DEF DrainsOK, DrainKnown, Quiet
<1>6. SaleTypes'
  BY <1>0 DEF SaleTypes, Quiet
<1> QED BY <1>3, <1>4, <1>5, <1>6 DEF Store

(* What such a step has to keep for the money to stay right. *)
Steady ==
  /\ bal'[House("accrual")] - ByOperators(House("accrual"))'
       = bal[House("accrual")] - ByOperators(House("accrual"))
  /\ bal'[House("receivable")] - ByOperators(House("receivable"))' - Total(shortfall, Accounts)'
       = bal[House("receivable")] - ByOperators(House("receivable")) - Total(shortfall, Accounts)
  /\ \A v \in Sellers :
       bal'[Earned(v)] - ByOperators(Earned(v))' - shortfall'[Earned(v)]
         = bal[Earned(v)] - ByOperators(Earned(v)) - shortfall[Earned(v)]

(* What refunds could not collect has a sum. *)
LEMMA ShortfallInts ==
  ASSUME shortfall \in [Accounts -> Nat]
  PROVE  Ints(shortfall, Accounts) /\ Total(shortfall, Accounts) \in Int
<1>1. Ints(shortfall, Accounts)
  BY DEF Ints
<1> QED BY <1>1, AccountsFinite, TotalType

(* It keeps the books when escrow, receivable and sellers stay even. *)
LEMMA QuietMoney ==
  ASSUME IInv, Quiet, LedgerOK', OtherTypes', Steady,
         \A t \in DOMAIN posted' : Balanced(posted'[t]),
         \A u \in Buyers : PromoOK(u)'
  PROVE  IInv'
<1>0. Store' /\ SaleTypes' /\ rows' \subseteq Row /\ KeysApart'
  BY QuietStore
<1>1. rows' = rows
  BY DEF Quiet
<1>2. /\ AllPending' = AllPending
      /\ \A v \in Sellers : Pending(v)' = Pending(v)
  BY <1>1 DEF AllPending, Pending
<1>3. AllPending \in SUBSET rows /\ \A v \in Sellers : Pending(v) \in SUBSET rows
  BY DEF AllPending, Pending
<1>4. \A S \in SUBSET rows : Swap(S, {}, {})
  BY Known DEF Swap
<1>5. ASSUME NEW S \in SUBSET rows PROVE Shares(S) \in Int /\ Debts(S) \in Int
  BY <1>4, PartsSwap
<1>6. House("accrual") \in Accounts /\ House("receivable") \in Accounts
      /\ \A v \in Sellers : Earned(v) \in Accounts
  BY AccountsAre
<1>7. /\ bal \in [Accounts -> Int] /\ bal' \in [Accounts -> Int]
      /\ shortfall \in [Accounts -> Nat] /\ shortfall' \in [Accounts -> Nat]
      /\ \A a \in Accounts : ByOperators(a) \in Int /\ ByOperators(a)' \in Int
  BY Known DEF LedgerOK, Legs, OtherTypes, ByOperators
<1>8. Total(shortfall, Accounts) \in Int /\ Total(shortfall, Accounts)' \in Int
  BY <1>7, ShortfallInts, AccountsFinite, TotalType DEF Ints
<1>9. EscrowMatchesRows'
  <2>1. EscrowMatchesRows
    BY InvParts DEF Money
  <2> QED BY <1>2, <2>1 DEF EscrowMatchesRows, Steady
<1>10. ReceivableIsOwed'
  <2>1. ReceivableIsOwed /\ Debts(AllPending) \in Int /\ Debts(AllPending)' = Debts(AllPending)
    BY <1>2, <1>3, <1>5, InvParts DEF Money
  <2> QED BY <1>6, <1>7, <1>8, <2>1 DEF ReceivableIsOwed, Steady
<1>11. ASSUME NEW v \in Sellers PROVE SellerOK(v)'
  <2>1. SellerOK(v) /\ Total(ShareOf(v), Sold(v))' = Total(ShareOf(v), Sold(v))
    BY InvParts, SalesSame, QuietStays DEF Money, Quiet
  <2>2. Shares(Pending(v))' = Shares(Pending(v)) /\ Debts(Pending(v))' = Debts(Pending(v))
        /\ Shares(Pending(v)) \in Int /\ Debts(Pending(v)) \in Int
    BY <1>2, <1>3, <1>5
  <2>3. bal'[Earned(v)] - ByOperators(Earned(v))' - shortfall'[Earned(v)]
          = bal[Earned(v)] - ByOperators(Earned(v)) - shortfall[Earned(v)]
    BY DEF Steady
  <2>4. bal[Earned(v)] \in Int /\ bal'[Earned(v)] \in Int /\ shortfall[Earned(v)] \in Int
        /\ shortfall'[Earned(v)] \in Int /\ ByOperators(Earned(v)) \in Int
        /\ ByOperators(Earned(v))' \in Int
    BY <1>6, <1>7
  <2>5. Owing(v)' = Owing(v)
    BY <2>2, <2>3, <2>4 DEF Owing
  <2> QED BY <2>1, <2>5 DEF SellerOK
<1>12. Money'
  BY <1>9, <1>10, <1>11 DEF Money
<1> QED BY <1>0, <1>12, InvNext

(* A posting that is neither a sale nor a drain leaves the store alone. *)
LEMMA PostedQuiet ==
  ASSUME IInv, NEW txn, NEW legs \in Legs, Posted(txn, legs), txn[1] # "sale", txn[1] # "drain",
         UNCHANGED <<rows, sale, refunds>>, keys \subseteq keys', Balanced(legs)
  PROVE  Quiet /\ LedgerOK' /\ \A t \in DOMAIN posted' : Balanced(posted'[t])
<1>1. \A o \in Orders : SaleId(o) # txn
  BY DEF SaleId
<1>2. Quiet
  BY <1>1 DEF Posted, Quiet
<1>3. \A t \in DOMAIN posted' : Balanced(posted'[t])
  <2>1. \A t \in DOMAIN posted : Balanced(posted[t])
    BY InvParts DEF Money
  <2> QED BY <2>1 DEF Posted
<1> QED BY <1>2, <1>3 DEF Posted

(* Nothing posted. *)
LEMMA UnpostedQuiet ==
  ASSUME IInv, UNCHANGED <<bal, posted, rows, sale, refunds>>, keys \subseteq keys'
  PROVE  Quiet /\ LedgerOK' /\ \A t \in DOMAIN posted' : Balanced(posted'[t])
<1>1. LedgerOK /\ \A t \in DOMAIN posted : Balanced(posted[t])
  BY InvParts DEF Money
<1> QED BY <1>1 DEF Quiet, LedgerOK

(* The terms of the bound on promo credits. *)
LEMMA PromoTerms ==
  ASSUME IInv, NEW u \in Buyers
  PROVE  /\ OpenOf(u) \in SUBSET Grants /\ IsFiniteSet(OpenOf(u)) /\ Ints(AmountOf, OpenOf(u))
         /\ Total(AmountOf, OpenOf(u)) \in Nat
         /\ Refunded(Promo(u)) \in Nat
         /\ bal[Promo(u)] \in Nat /\ corrected[Promo(u)].up \in Nat
         /\ Promo(u) \in Accounts
<1>1. OpenOf(u) \in SUBSET Grants
  BY DEF OpenOf
<1>2. IsFiniteSet(OpenOf(u)) /\ \A g \in OpenOf(u) : AmountOf[g] \in Nat
  BY <1>1, PartiesAre, FS_Subset
<1>3. Total(AmountOf, OpenOf(u)) \in Nat /\ Ints(AmountOf, OpenOf(u))
  BY <1>2, TotalNat DEF Ints
<1>4. Promo(u) \in Accounts /\ Promo(u) \in Guarded
  BY AccountsAre
<1>5. bal[Promo(u)] \in Nat
  BY <1>4, InvParts DEF LedgerOK, Legs
<1>6. Refunded(Promo(u)) \in Nat
  <2> DEFINE f == [o \in refunds |-> -posted[sale[o]][Promo(u)]]
  <2>1. ASSUME NEW o \in refunds PROVE f[o] \in Nat
    <3>1. o \in Orders /\ sale[o] # Unsold
      BY Known
    <3>2. SaleOK(o) /\ posted[sale[o]] = posted[SaleId(o)] /\ posted[sale[o]][Promo(u)] \in Int
      BY <1>4, <3>1, SaleKnown
    <3>3. posted[SaleId(o)][Promo(u)] <= 0
      <4>1. CASE u = BuyerOf[o]
        BY <3>2, <4>1 DEF SaleOK
      <4>2. CASE u # BuyerOf[o]
        <5>1. Promo(u) \notin SaleAccounts(o)
          BY <4>2, AccountsApart DEF SaleAccounts, Platform
        <5> QED BY <1>4, <3>2, <5>1 DEF SaleOK
      <4> QED BY <4>1, <4>2
    <3> QED BY <3>2, <3>3
  <2>2. IsFiniteSet(refunds)
    BY Known
  <2> HIDE DEF f
  <2>3. Total(f, refunds) \in Nat
    BY <2>1, <2>2, TotalNat
  <2> QED BY <2>3 DEF f, Refunded
<1>7. corrected[Promo(u)].up \in Nat
  BY <1>4, Known
<1> QED BY <1>1, <1>2, <1>3, <1>4, <1>5, <1>6, <1>7

(* A promo balance that grows by corrections only stays covered. *)
LEMMA PromoKept ==
  ASSUME IInv, Quiet, NEW u \in Buyers, grants' = grants, bal'[Promo(u)] \in Int,
         corrected'[Promo(u)].up \in Int,
         bal'[Promo(u)] - corrected'[Promo(u)].up <= bal[Promo(u)] - corrected[Promo(u)].up
  PROVE  PromoOK(u)'
<1>1. PromoOK(u)
  BY InvParts DEF Money
<1>2. OpenOf(u)' = OpenOf(u)
  BY DEF OpenOf
<1>3. Refunded(Promo(u))' = Refunded(Promo(u))
  BY SalesSame, QuietStays DEF Quiet
<1>4. Total(AmountOf, OpenOf(u)) \in Nat /\ Refunded(Promo(u)) \in Nat
      /\ bal[Promo(u)] \in Nat /\ corrected[Promo(u)].up \in Nat
  BY PromoTerms
<1> QED BY <1>1, <1>2, <1>3, <1>4 DEF PromoOK

(* A step that posts nothing and changes neither grants nor the books. *)
LEMMA Unposted ==
  ASSUME IInv, UNCHANGED <<bal, posted, rows, sale, keys, grants, refunds, shortfall, corrected>>,
         sweep' \in [Sweeps -> SUBSET Grants], owned' \subseteq Buyers, accrual' \in BOOLEAN
  PROVE  IInv'
<1>1. Quiet /\ LedgerOK' /\ \A t \in DOMAIN posted' : Balanced(posted'[t])
  BY UnpostedQuiet
<1>2. OtherTypes'
  BY InvParts DEF OtherTypes
<1>3. Steady
  BY DEF Steady, ByOperators
<1>4. ASSUME NEW u \in Buyers PROVE PromoOK(u)'
  <2>1. bal[Promo(u)] \in Nat /\ corrected[Promo(u)].up \in Nat
    BY PromoTerms
  <2> QED BY <1>1, <2>1, PromoKept
<1> QED BY <1>1, <1>2, <1>3, <1>4, QuietMoney

(* The steps that post nothing. *)
LEMMA PlainSteps ==
  ASSUME IInv, \/ \E u \in Buyers : GrantEntitlement(u) \/ RevokeEntitlement(u)
               \/ SwitchAccrual
               \/ \E w \in Sweeps : ClaimExpired(w)
               \/ \E w \in Sweeps, g \in Grants : ReversePromoFails(w, g)
  PROVE  IInv'
<1>0. sweep \in [Sweeps -> SUBSET Grants] /\ owned \subseteq Buyers /\ accrual \in BOOLEAN
  BY InvParts DEF OtherTypes
<1>1. ASSUME NEW u \in Buyers, GrantEntitlement(u) \/ RevokeEntitlement(u) PROVE IInv'
  BY <1>0, <1>1, Unposted DEF GrantEntitlement, RevokeEntitlement
<1>2. CASE SwitchAccrual
  BY <1>0, <1>2, Unposted DEF SwitchAccrual
<1>3. ASSUME NEW w \in Sweeps, ClaimExpired(w) PROVE IInv'
  <2>1. sweep' \in [Sweeps -> SUBSET Grants]
    BY <1>0, <1>3 DEF ClaimExpired
  <2> QED BY <1>0, <1>3, <2>1, Unposted DEF ClaimExpired
<1>4. ASSUME NEW w \in Sweeps, NEW g \in Grants, ReversePromoFails(w, g) PROVE IInv'
  <2>1. sweep' \in [Sweeps -> SUBSET Grants]
    BY <1>0, <1>4 DEF ReversePromoFails
  <2> QED BY <1>0, <1>4, <2>1, Unposted DEF ReversePromoFails
<1> QED BY <1>1, <1>2, <1>3, <1>4

-----------------------------------------------------------------------------
(* The start. *)

(* Nothing is owed at first. *)
LEMMA NothingToSum ==
  /\ Shares({}) = 0 /\ Debts({}) = 0
  /\ \A f : Total(f, {}) = 0
<1>1. Shares({}) = Sum({}) /\ Debts({}) = -Sum({})
  BY DEF Shares, Debts
<1> QED BY <1>1, SumOfNone, TotalEmpty

(* The invariant holds of the empty market. *)
LEMMA InitInv == Init => IInv
<1> SUFFICES ASSUME Init PROVE IInv
  OBVIOUS
<1>1. /\ House("accrual") \in Accounts /\ House("receivable") \in Accounts
      /\ \A v \in Sellers : Earned(v) \in Accounts
      /\ \A u \in Buyers : Promo(u) \in Accounts
  BY AccountsAre
<1>2. \A a \in Guarded : a \in Accounts
  BY DEF Guarded
<1>3. /\ bal \in Legs /\ \A a \in Accounts : bal[a] = 0
      /\ shortfall \in [Accounts -> Nat] /\ \A a \in Accounts : shortfall[a] = 0
      /\ \A a \in Accounts : corrected[a].up = 0 /\ corrected[a].down = 0 /\ ByOperators(a) = 0
  BY DEF Init, NoLegs, Legs, ByOperators
<1>4. LedgerOK
  BY <1>2, <1>3 DEF LedgerOK, Init
<1>5. OtherTypes
  BY DEF OtherTypes, Init
<1>6. SaleTypes /\ rows \subseteq Row /\ KeysApart
  BY DEF Init, SaleTypes, KeysApart
<1>7. Store
  <2>1. IsFiniteSet(rows)
    BY FS_EmptySet DEF Init
  <2> QED BY <2>1 DEF Init, Store, RowsOK, SalesOK, DrainsOK
<1>8. /\ AllPending = {} /\ \A v : Pending(v) = {}
      /\ \A v : Sold(v) = {}
      /\ \A u : OpenOf(u) = {}
      /\ refunds = {}
  BY DEF Init, AllPending, Pending, Sold, OpenOf
<1>9. Total(shortfall, Accounts) = 0
  BY <1>3, AccountsFinite, TotalZero
<1>10. EscrowMatchesRows /\ ReceivableIsOwed
  BY <1>1, <1>3, <1>8, <1>9, NothingToSum DEF EscrowMatchesRows, ReceivableIsOwed
<1>11. ASSUME NEW v \in Sellers PROVE SellerOK(v)
  <2>1. Total(ShareOf(v), Sold(v)) = 0
    BY <1>8, NothingToSum
  <2>2. Owing(v) = 0
    <3>1. Shares(Pending(v)) = 0 /\ Debts(Pending(v)) = 0
      BY <1>8, NothingToSum
    <3>2. bal[Earned(v)] = 0 /\ ByOperators(Earned(v)) = 0 /\ shortfall[Earned(v)] = 0
      BY <1>1, <1>3
    <3> QED BY <3>1, <3>2 DEF Owing
  <2> QED BY <2>1, <2>2 DEF SellerOK
<1>12. ASSUME NEW u \in Buyers PROVE PromoOK(u)
  <2>1. Refunded(Promo(u)) = 0
    BY <1>8, NothingToSum DEF Refunded
  <2>2. Total(AmountOf, OpenOf(u)) = 0
    BY <1>8, NothingToSum
  <2>3. bal[Promo(u)] = 0 /\ corrected[Promo(u)].up = 0
    BY <1>1, <1>3
  <2> QED BY <2>1, <2>2, <2>3 DEF PromoOK
<1>13. Money
  BY <1>10, <1>11, <1>12 DEF Money, Init
<1> QED BY <1>4, <1>5, <1>6, <1>7, <1>13, InvParts

-----------------------------------------------------------------------------
(* Issue of credits. *)

(* Three legs of one currency that cancel balance. *)
LEMMA ThreeLegs ==
  ASSUME NEW legs \in Legs, NEW T \in {Usd, Accounts \ Usd},
         NEW a \in T, NEW b \in T, NEW d \in T, NEW x \in Int, NEW y \in Int, NEW z \in Int,
         \A c \in Accounts : legs[c] = At(a, x, c) + At(b, y, c) + At(d, z, c),
         Sg(a, x) + Sg(b, y) + Sg(d, z) = 0
  PROVE  Balanced(legs)
<1>1. Five(legs, a, x, b, y, d, z, d, 0, d, 0)
  BY DEF At, Five
<1>2. Sg(a, x) + Sg(b, y) + Sg(d, z) + Sg(d, 0) + Sg(d, 0) = 0
  BY DEF Sg
<1> QED BY <1>1, <1>2, FiveLegs

(* So do two. *)
LEMMA TwoLegs ==
  ASSUME NEW legs \in Legs, NEW T \in {Usd, Accounts \ Usd},
         NEW a \in T, NEW b \in T, NEW x \in Int, NEW y \in Int,
         \A c \in Accounts : legs[c] = At(a, x, c) + At(b, y, c),
         Sg(a, x) + Sg(b, y) = 0
  PROVE  Balanced(legs)
<1>1. \A c \in Accounts : legs[c] = At(a, x, c) + At(b, y, c) + At(b, 0, c)
  BY DEF At
<1>2. Sg(a, x) + Sg(b, y) + Sg(b, 0) = 0
  BY DEF Sg
<1> QED BY <1>1, <1>2, ThreeLegs

(* A step that leaves the sellers' side of the books alone. *)
LEMMA SteadyAside ==
  ASSUME UNCHANGED <<shortfall, corrected>>,
         bal'[House("accrual")] = bal[House("accrual")],
         bal'[House("receivable")] = bal[House("receivable")],
         \A v \in Sellers : bal'[Earned(v)] = bal[Earned(v)]
  PROVE  Steady
BY DEF Steady, ByOperators

(* A top-up keeps the invariant. *)
LEMMA TopUpKeeps ==
  ASSUME IInv, NEW u \in Buyers, TopUp(u)
  PROVE  IInv'
<1> DEFINE issue == <<"topUp", count.topUps>>
           cash == <<"topUp.cash", count.topUps>>
           a1 == [NoLegs EXCEPT ![Spendable(u)] = TopUpAmount, ![House("stored_value")] = TopUpAmount]
           a2 == CashLegs(TopUpAmount)
<1>0. /\ Spendable(u) \in Accounts \ (Usd \cup DebitNormal)
      /\ House("stored_value") \in (Accounts \cap DebitNormal) \ Usd
      /\ House("trust_cash") \in Usd /\ House("usd_clearing") \in Usd
      /\ Usd \subseteq Accounts \cap DebitNormal /\ TopUpAmount \in Int
      /\ Spendable(u) # House("stored_value") /\ House("trust_cash") # House("usd_clearing")
  BY AccountsAre, AccountsApart, PartiesAre DEF Usd, Platform
<1>1. a1 \in Legs /\ a2 \in Legs
  BY <1>0 DEF Legs, NoLegs, CashLegs
<1>2. Balanced(a1)
  <2>1. \A c \in Accounts : a1[c] = At(Spendable(u), TopUpAmount, c) + At(House("stored_value"), TopUpAmount, c)
    BY <1>0 DEF NoLegs, At
  <2>2. Sg(Spendable(u), TopUpAmount) + Sg(House("stored_value"), TopUpAmount) = 0
    BY <1>0 DEF Sg
  <2>3. Spendable(u) \in Accounts \ Usd /\ House("stored_value") \in Accounts \ Usd
    BY <1>0
  <2> HIDE DEF a1
  <2> QED BY <1>0, <1>1, <2>1, <2>2, <2>3, TwoLegs
<1>3. Balanced(a2)
  <2>1. \A c \in Accounts : a2[c] = At(House("trust_cash"), TopUpAmount, c) + At(House("usd_clearing"), -TopUpAmount, c)
    BY <1>0 DEF NoLegs, At, CashLegs
  <2>2. Sg(House("trust_cash"), TopUpAmount) + Sg(House("usd_clearing"), -TopUpAmount) = 0
    BY <1>0 DEF Sg
  <2>3. -TopUpAmount \in Int
    BY <1>0
  <2> HIDE DEF a2
  <2> QED BY <1>0, <1>1, <2>1, <2>2, <2>3, TwoLegs
<1>4. /\ PostAll([t \in {issue, cash} |-> IF t = cash THEN a2 ELSE a1])
      /\ UNCHANGED <<sale, rows, keys, grants, sweep, owned, accrual, refunds, shortfall, corrected>>
      /\ issue # cash
  BY DEF TopUp
<1>5. LedgerOK /\ \A t \in DOMAIN posted : Balanced(posted[t])
  BY InvParts DEF Money
<1>5a. /\ \A c \in Accounts : c # Spendable(u) /\ c # House("stored_value") => a1[c] = 0
       /\ \A c \in Accounts : c \notin Usd => a2[c] = 0
  BY <1>0 DEF NoLegs, CashLegs
<1>5b. issue[1] = "topUp" /\ cash[1] = "topUp.cash"
  OBVIOUS
<1> HIDE DEF a1, a2, issue, cash
<1>6. /\ LedgerOK'
      /\ \A a \in Accounts : bal'[a] = bal[a] + a1[a] + a2[a]
      /\ DOMAIN posted' = DOMAIN posted \cup {issue, cash}
      /\ posted'[issue] = a1 /\ posted'[cash] = a2
      /\ \A t \in DOMAIN posted \ {issue, cash} : posted'[t] = posted[t]
  BY <1>1, <1>4, <1>5, PostTwo
<1>7. Quiet
  <2>1. \A o \in Orders : SaleId(o) # issue /\ SaleId(o) # cash
    BY <1>5b DEF SaleId
  <2> QED BY <1>4, <1>5b, <1>6, <2>1 DEF Quiet
<1>8. \A t \in DOMAIN posted' : Balanced(posted'[t])
  BY <1>2, <1>3, <1>5, <1>6
<1>9. ASSUME NEW a \in Accounts \ (Usd \cup {Spendable(u), House("stored_value")})
      PROVE  bal'[a] = bal[a]
  BY <1>5, <1>5a, <1>6 DEF LedgerOK, Legs
<1>10. Steady
  <2>1. \A a \in {House("accrual"), House("receivable")} : a \in Accounts \ (Usd \cup {Spendable(u), House("stored_value")})
    BY AccountsAre, AccountsApart DEF Platform
  <2>2. \A v \in Sellers : Earned(v) \in Accounts \ (Usd \cup {Spendable(u), House("stored_value")})
    BY AccountsAre, AccountsApart DEF Platform
  <2> QED BY <1>4, <1>9, <2>1, <2>2, SteadyAside
<1>11. ASSUME NEW w \in Buyers PROVE PromoOK(w)'
  <2>1. Promo(w) \in Accounts \ (Usd \cup {Spendable(u), House("stored_value")})
    BY AccountsAre, AccountsApart DEF Platform
  <2>2. bal'[Promo(w)] = bal[Promo(w)] /\ bal[Promo(w)] \in Nat /\ corrected[Promo(w)].up \in Nat
    BY <1>9, <2>1, PromoTerms
  <2> QED BY <1>4, <1>7, <2>2, PromoKept
<1>12. OtherTypes'
  BY <1>4, InvParts DEF OtherTypes
<1> QED BY <1>6, <1>7, <1>8, <1>10, <1>11, <1>12, QuietMoney


(* The open grants of a buyer, when one grant opens or is settled. *)
LEMMA GrantOpens ==
  ASSUME IInv, NEW g \in Grants, grants[g] # "open", grants' = [grants EXCEPT ![g] = "open"],
         NEW u \in Buyers
  PROVE  Total(AmountOf, OpenOf(u))'
           = Total(AmountOf, OpenOf(u)) + (IF GranteeOf[g] = u THEN AmountOf[g] ELSE 0)
<1>0. grants \in [Grants -> {"none", "open", "reversed"}]
  BY InvParts DEF OtherTypes
<1>1. /\ OpenOf(u) \in SUBSET Grants /\ IsFiniteSet(OpenOf(u)) /\ Ints(AmountOf, OpenOf(u))
      /\ Total(AmountOf, OpenOf(u)) \in Nat /\ AmountOf[g] \in Int
  BY PromoTerms, PartiesAre
<1>2. CASE GranteeOf[g] = u
  <2>1. OpenOf(u)' = OpenOf(u) \cup {g} /\ g \notin OpenOf(u)
    BY <1>0, <1>2 DEF OpenOf
  <2>2. Total(AmountOf, OpenOf(u) \cup {g}) = Total(AmountOf, OpenOf(u)) + AmountOf[g]
    BY <1>1, <2>1, TotalAdd
  <2> QED BY <1>2, <2>1, <2>2
<1>3. CASE GranteeOf[g] # u
  <2>1. OpenOf(u)' = OpenOf(u)
    BY <1>0, <1>3 DEF OpenOf
  <2> QED BY <1>1, <1>3, <2>1
<1> QED BY <1>2, <1>3

(* A grant reversed no longer covers promo credits. *)
LEMMA GrantCloses ==
  ASSUME IInv, NEW g \in Grants, grants' = [grants EXCEPT ![g] = "reversed"], NEW u \in Buyers
  PROVE  Total(AmountOf, OpenOf(u))'
           = Total(AmountOf, OpenOf(u)) - (IF g \in OpenOf(u) THEN AmountOf[g] ELSE 0)
<1>0. grants \in [Grants -> {"none", "open", "reversed"}]
  BY InvParts DEF OtherTypes
<1>1. /\ OpenOf(u) \in SUBSET Grants /\ IsFiniteSet(OpenOf(u)) /\ Ints(AmountOf, OpenOf(u))
      /\ Total(AmountOf, OpenOf(u)) \in Nat /\ AmountOf[g] \in Int
  BY PromoTerms, PartiesAre
<1>2. OpenOf(u)' = OpenOf(u) \ {g}
  BY <1>0 DEF OpenOf
<1>3. CASE g \in OpenOf(u)
  <2>1. Total(AmountOf, OpenOf(u)) = AmountOf[g] + Total(AmountOf, OpenOf(u) \ {g})
    BY <1>1, <1>3, TotalRemove
  <2>2. IsFiniteSet(OpenOf(u) \ {g}) /\ Ints(AmountOf, OpenOf(u) \ {g})
    BY <1>1, FS_Subset DEF Ints
  <2>3. Total(AmountOf, OpenOf(u) \ {g}) \in Int
    BY <2>2, TotalType
  <2> QED BY <1>1, <1>2, <1>3, <2>1, <2>3
<1>4. CASE g \notin OpenOf(u)
  <2>1. OpenOf(u) \ {g} = OpenOf(u)
    BY <1>4
  <2>2. Total(AmountOf, OpenOf(u)') = Total(AmountOf, OpenOf(u))
    BY <1>2, <2>1
  <2> QED BY <1>1, <1>4, <2>2
<1> QED BY <1>3, <1>4

(* A promo leg and its float. *)
PromoMove(u, n) == [NoLegs EXCEPT ![Promo(u)] = n, ![House("promo_float")] = n]

(* A promo grant and its reversal balance. *)
LEMMA PromoLegs ==
  ASSUME NEW u \in Buyers, NEW n \in Int
  PROVE  /\ PromoMove(u, n) \in Legs /\ Balanced(PromoMove(u, n))
         /\ \A a \in Accounts :
              PromoMove(u, n)[a] = IF a \in {Promo(u), House("promo_float")} THEN n ELSE 0
<1> DEFINE legs == PromoMove(u, n)
<1>0. /\ Promo(u) \in Accounts \ (Usd \cup DebitNormal)
      /\ House("promo_float") \in (Accounts \cap DebitNormal) \ Usd
      /\ Promo(u) # House("promo_float")
  BY AccountsAre, AccountsApart DEF Platform
<1>1. legs = [a \in Accounts |-> IF a \in {Promo(u), House("promo_float")} THEN n ELSE 0]
  BY <1>0 DEF NoLegs, PromoMove
<1> HIDE DEF legs
<1>2. legs \in Legs /\ \A c \in Accounts : legs[c] = IF c \in {Promo(u), House("promo_float")} THEN n ELSE 0
  BY <1>1 DEF Legs
<1>3. \A c \in Accounts : legs[c] = At(Promo(u), n, c) + At(House("promo_float"), n, c)
  BY <1>0, <1>2 DEF At
<1>4. Sg(Promo(u), n) + Sg(House("promo_float"), n) = 0
  BY <1>0 DEF Sg
<1>5. Promo(u) \in Accounts \ Usd /\ House("promo_float") \in Accounts \ Usd
  BY <1>0
<1>6. Balanced(legs)
  BY <1>2, <1>3, <1>4, <1>5, TwoLegs
<1> QED BY <1>2, <1>6 DEF legs

(* What such a posting leaves alone. *)
LEMMA PromoAside ==
  ASSUME IInv, NEW u \in Buyers, UNCHANGED <<shortfall, corrected>>,
         \A a \in Accounts \ {Promo(u), House("promo_float")} : bal'[a] = bal[a]
  PROVE  Steady /\ \A w \in Buyers \ {u} : bal'[Promo(w)] = bal[Promo(w)]
<1>1. \A a \in {House("accrual"), House("receivable")} : a \in Accounts \ {Promo(u), House("promo_float")}
  BY AccountsAre, AccountsApart DEF Platform
<1>2. \A v \in Sellers : Earned(v) \in Accounts \ {Promo(u), House("promo_float")}
  BY AccountsAre, AccountsApart DEF Platform
<1>3. \A w \in Buyers \ {u} : Promo(w) \in Accounts \ {Promo(u), House("promo_float")}
  BY AccountsAre, AccountsApart DEF Platform
<1> QED BY <1>1, <1>2, <1>3, SteadyAside

(* A promo grant keeps the invariant. *)
LEMMA GrantPromoKeeps ==
  ASSUME IInv, NEW g \in Grants, GrantPromo(g)
  PROVE  IInv'
<1> DEFINE u == GranteeOf[g]
           txn == <<"grant", g>>
           legs == PromoMove(u, AmountOf[g])
<1>0. u \in Buyers /\ AmountOf[g] \in Nat /\ txn[1] = "grant"
  BY PartiesAre
<1>1. /\ legs \in Legs /\ Balanced(legs)
      /\ \A a \in Accounts : legs[a] = IF a \in {Promo(u), House("promo_float")} THEN AmountOf[g] ELSE 0
  BY <1>0, PromoLegs
<1>2. /\ Post(txn, legs) /\ grants[g] # "open" /\ grants' = [grants EXCEPT ![g] = "open"]
      /\ UNCHANGED <<sale, rows, keys, sweep, owned, accrual, refunds, shortfall, corrected, count>>
  BY DEF GrantPromo, PromoMove
<1> HIDE DEF legs, txn
<1>3. Posted(txn, legs) /\ bal \in [Accounts -> Int]
  BY <1>1, <1>2, PostOne, InvParts, Known
<1>4. Quiet /\ LedgerOK' /\ \A t \in DOMAIN posted' : Balanced(posted'[t])
  BY <1>0, <1>1, <1>2, <1>3, PostedQuiet
<1>5. \A a \in Accounts \ {Promo(u), House("promo_float")} : bal'[a] = bal[a]
  BY <1>1, <1>3 DEF Posted
<1>6. Steady /\ \A w \in Buyers \ {u} : bal'[Promo(w)] = bal[Promo(w)]
  BY <1>0, <1>2, <1>5, PromoAside
<1>7. ASSUME NEW w \in Buyers PROVE PromoOK(w)'
  <2>1. /\ Total(AmountOf, OpenOf(w)) \in Nat /\ Refunded(Promo(w)) \in Nat
        /\ bal[Promo(w)] \in Nat /\ corrected[Promo(w)].up \in Nat /\ Promo(w) \in Accounts
    BY PromoTerms
  <2>2. Total(AmountOf, OpenOf(w))' = Total(AmountOf, OpenOf(w)) + (IF u = w THEN AmountOf[g] ELSE 0)
    BY <1>2, GrantOpens
  <2>3. bal'[Promo(w)] = bal[Promo(w)] + (IF u = w THEN AmountOf[g] ELSE 0)
    <3>1. CASE u = w
      BY <1>1, <1>3, <2>1, <3>1 DEF Posted
    <3>2. CASE u # w
      BY <1>6, <2>1, <3>2
    <3> QED BY <3>1, <3>2
  <2>4. Refunded(Promo(w))' = Refunded(Promo(w))
    BY <1>4, SalesSame, QuietStays DEF Quiet
  <2>5. PromoOK(w) /\ corrected' = corrected
    BY <1>2, InvParts DEF Money
  <2> QED BY <1>0, <2>1, <2>2, <2>3, <2>4, <2>5 DEF PromoOK
<1>8. OtherTypes'
  BY <1>2, InvParts DEF OtherTypes
<1> QED BY <1>4, <1>6, <1>7, <1>8, QuietMoney

-----------------------------------------------------------------------------
(* The expiry of a grant takes back no more than the grant and the balance. *)

(* The reversal of an expired grant keeps it. *)
LEMMA ReversePromoKeeps ==
  ASSUME IInv, NEW w \in Sweeps, NEW g \in Grants, ReversePromo(w, g)
  PROVE  IInv'
<1> DEFINE u == GranteeOf[g]
           left == Min({bal[Promo(u)], AmountOf[g]})
           txn == <<"expiry", g, w>>
           legs == PromoMove(u, -left)
<1>0. /\ u \in Buyers /\ AmountOf[g] \in Nat /\ txn[1] = "expiry"
      /\ bal[Promo(u)] \in Nat /\ Promo(u) \in Accounts
  BY PartiesAre, PromoTerms
<1>1. left = (IF bal[Promo(u)] <= AmountOf[g] THEN bal[Promo(u)] ELSE AmountOf[g])
  BY <1>0, MinOfTwo
<1>2. /\ IF left = 0 THEN UNCHANGED <<bal, posted>> ELSE Post(txn, legs)
      /\ grants' = [grants EXCEPT ![g] = "reversed"]
      /\ sweep' = [sweep EXCEPT ![w] = @ \ {g}]
      /\ UNCHANGED <<sale, rows, keys, owned, accrual, refunds, shortfall, corrected, count>>
  BY DEF ReversePromo, PromoMove
<1>3. left \in Nat /\ -left \in Int
  BY <1>0, <1>1
<1>4. /\ legs \in Legs /\ Balanced(legs)
      /\ \A a \in Accounts : legs[a] = IF a \in {Promo(u), House("promo_float")} THEN -left ELSE 0
  BY <1>0, <1>3, PromoLegs
<1> HIDE DEF legs, txn, left
<1>5. /\ Quiet /\ LedgerOK' /\ \A t \in DOMAIN posted' : Balanced(posted'[t])
      /\ \A a \in Accounts : bal'[a] = bal[a] + (IF a \in {Promo(u), House("promo_float")} THEN -left ELSE 0)
  <2>0. bal \in [Accounts -> Int] /\ LedgerOK
    BY InvParts, Known
  <2>1. CASE left = 0
    <3>1. UNCHANGED <<bal, posted, rows, sale, refunds>> /\ keys \subseteq keys'
      BY <1>2, <2>1
    <3>2. \A a \in Accounts : bal'[a] = bal[a] + (IF a \in {Promo(u), House("promo_float")} THEN -left ELSE 0)
      BY <2>0, <2>1, <3>1
    <3> QED BY <3>1, <3>2, UnpostedQuiet
  <2>2. CASE left # 0
    <3>1. Posted(txn, legs)
      BY <1>2, <1>4, <2>0, <2>2, PostOne
    <3>2. Quiet /\ LedgerOK' /\ \A t \in DOMAIN posted' : Balanced(posted'[t])
      BY <1>0, <1>2, <1>4, <3>1, PostedQuiet
    <3> QED BY <1>4, <3>1, <3>2 DEF Posted
  <2> QED BY <2>1, <2>2
<1>6. \A a \in Accounts \ {Promo(u), House("promo_float")} : bal'[a] = bal[a]
  BY <1>5, Known
<1>7. Steady /\ \A x \in Buyers \ {u} : bal'[Promo(x)] = bal[Promo(x)]
  BY <1>0, <1>2, <1>6, PromoAside
<1>8. ASSUME NEW x \in Buyers PROVE PromoOK(x)'
  <2>1. /\ Total(AmountOf, OpenOf(x)) \in Nat /\ Refunded(Promo(x)) \in Nat
        /\ bal[Promo(x)] \in Nat /\ corrected[Promo(x)].up \in Nat /\ Promo(x) \in Accounts
    BY PromoTerms
  <2>2. Total(AmountOf, OpenOf(x))'
          = Total(AmountOf, OpenOf(x)) - (IF g \in OpenOf(x) THEN AmountOf[g] ELSE 0)
    BY <1>2, GrantCloses
  <2>3. Refunded(Promo(x))' = Refunded(Promo(x)) /\ PromoOK(x) /\ corrected' = corrected
    BY <1>2, <1>5, SalesSame, QuietStays, InvParts DEF Quiet, Money
  <2>4. CASE x # u
    <3>1. g \notin OpenOf(x) /\ bal'[Promo(x)] = bal[Promo(x)]
      BY <1>7, <2>4 DEF OpenOf
    <3> QED BY <2>1, <2>2, <2>3, <3>1 DEF PromoOK
  <2>5. CASE x = u
    <3>1. bal'[Promo(x)] = bal[Promo(x)] - left
      BY <1>3, <1>5, <2>1, <2>5
    <3>2. CASE left = AmountOf[g]
      BY <1>0, <2>1, <2>2, <2>3, <3>1, <3>2 DEF PromoOK
    <3>3. CASE left # AmountOf[g]
      <4>1. bal'[Promo(x)] = 0
        BY <1>0, <1>1, <2>1, <2>5, <3>1, <3>3
      <4>2. Total(AmountOf, OpenOf(x))' \in Nat
        <5>1. OpenOf(x)' \in SUBSET Grants
          BY DEF OpenOf
        <5>2. IsFiniteSet(OpenOf(x)') /\ \A y \in OpenOf(x)' : AmountOf[y] \in Nat
          BY <5>1, PartiesAre, FS_Subset
        <5> QED BY <5>2, TotalNat
      <4> QED BY <2>1, <2>3, <4>1, <4>2 DEF PromoOK
    <3> QED BY <3>2, <3>3
  <2> QED BY <2>4, <2>5
<1>9. OtherTypes'
  BY <1>2, InvParts DEF OtherTypes
<1> QED BY <1>5, <1>7, <1>8, <1>9, QuietMoney


-----------------------------------------------------------------------------
(* A chargeback owes what it cannot collect. *)

(* A clawback keeps it. *)
LEMMA ClawbackKeeps ==
  ASSUME IInv, NEW u \in Buyers, NEW named \in {{}} \cup {{OrderKey(o)} : o \in Orders},
         Clawback(u, named)
  PROVE  IInv'
<1> DEFINE recovered == Min({bal[Spendable(u)], TopUpAmount})
           short == TopUpAmount - recovered
           txn == <<"clawback", count.corrections>>
           legs == [NoLegs EXCEPT ![Spendable(u)] = -recovered, ![House("receivable")] = short,
                                  ![House("stored_value")] = -TopUpAmount]
<1>0. /\ Spendable(u) \in Accounts \ (Usd \cup DebitNormal) /\ Spendable(u) \in Guarded
      /\ House("receivable") \in (Accounts \cap DebitNormal) \ Usd
      /\ House("stored_value") \in (Accounts \cap DebitNormal) \ Usd
      /\ Spendable(u) # House("receivable") /\ Spendable(u) # House("stored_value")
      /\ House("receivable") # House("stored_value") /\ TopUpAmount \in Nat /\ txn[1] = "clawback"
  BY AccountsAre, AccountsApart, PartiesAre DEF Platform
<1>1. bal[Spendable(u)] \in Nat
  BY <1>0, InvParts DEF LedgerOK, Legs
<1>2. recovered = (IF bal[Spendable(u)] <= TopUpAmount THEN bal[Spendable(u)] ELSE TopUpAmount)
  BY <1>0, <1>1, MinOfTwo
<1>3. /\ keys' = keys \cup named /\ Post(txn, legs)
      /\ shortfall' = [shortfall EXCEPT ![Spendable(u)] = @ + short]
      /\ UNCHANGED <<sale, rows, grants, sweep, owned, accrual, refunds, corrected>>
  BY DEF Clawback
<1> HIDE DEF recovered
<1>4. recovered \in Nat /\ short \in Nat /\ -recovered \in Int /\ -TopUpAmount \in Int
      /\ short = TopUpAmount - recovered
  BY <1>0, <1>1, <1>2
<1> HIDE DEF short
<1>5. legs \in Legs /\ \A c \in Accounts : legs[c] = At(Spendable(u), -recovered, c)
         + At(House("receivable"), short, c) + At(House("stored_value"), -TopUpAmount, c)
  BY <1>0, <1>4 DEF Legs, NoLegs, At
<1> HIDE DEF legs, txn
<1>6. Balanced(legs)
  <2>1. Sg(Spendable(u), -recovered) + Sg(House("receivable"), short)
          + Sg(House("stored_value"), -TopUpAmount) = 0
    BY <1>0, <1>4 DEF Sg
  <2>2. Spendable(u) \in Accounts \ Usd /\ House("receivable") \in Accounts \ Usd
        /\ House("stored_value") \in Accounts \ Usd
    BY <1>0
  <2> QED BY <1>4, <1>5, <2>1, <2>2, ThreeLegs
<1>7. Posted(txn, legs) /\ bal \in [Accounts -> Int] /\ shortfall \in [Accounts -> Nat]
  BY <1>3, <1>5, PostOne, InvParts, Known
<1>8. Quiet /\ LedgerOK' /\ \A t \in DOMAIN posted' : Balanced(posted'[t])
  BY <1>0, <1>3, <1>5, <1>6, <1>7, PostedQuiet
<1>9. \A a \in Accounts : bal'[a] = bal[a] + At(Spendable(u), -recovered, a)
         + At(House("receivable"), short, a) + At(House("stored_value"), -TopUpAmount, a)
  BY <1>4, <1>5, <1>7 DEF Posted, At
<1>10. Total(shortfall', Accounts) = Total(shortfall, Accounts) + short
       /\ Total(shortfall, Accounts) \in Int
  <2>1. Ints(shortfall, Accounts) /\ Total(shortfall, Accounts) \in Int
    BY <1>7, ShortfallInts
  <2>2. \A a \in Accounts : shortfall'[a] = IF a = Spendable(u) THEN shortfall[a] + short ELSE shortfall[a]
    BY <1>3, <1>7
  <2> QED BY <1>0, <1>4, <2>1, <2>2, AccountsFinite, TotalShift
<1>11. Steady
  <2>1. \A a \in Accounts : ByOperators(a)' = ByOperators(a) /\ ByOperators(a) \in Int
    BY <1>3, Known DEF ByOperators
  <2>2. House("accrual") \in Accounts /\ bal'[House("accrual")] = bal[House("accrual")]
    BY <1>7, <1>9, AccountsAre, AccountsApart DEF At, Platform
  <2>3. bal'[House("receivable")] = bal[House("receivable")] + short
    BY <1>0, <1>4, <1>7, <1>9 DEF At
  <2>4. ASSUME NEW v \in Sellers
        PROVE  Earned(v) \in Accounts /\ bal'[Earned(v)] = bal[Earned(v)]
               /\ shortfall'[Earned(v)] = shortfall[Earned(v)]
    <3>1. Earned(v) \in Accounts /\ Earned(v) # Spendable(u) /\ Earned(v) # House("receivable")
          /\ Earned(v) # House("stored_value")
      BY AccountsAre, AccountsApart DEF Platform
    <3> QED BY <1>3, <1>7, <1>9, <3>1 DEF At
  <2>5. bal'[House("receivable")] - ByOperators(House("receivable"))' - Total(shortfall', Accounts)
          = bal[House("receivable")] - ByOperators(House("receivable")) - Total(shortfall, Accounts)
    BY <1>0, <1>4, <1>7, <1>10, <2>1, <2>3
  <2> QED BY <2>1, <2>2, <2>4, <2>5 DEF Steady
<1>12. ASSUME NEW w \in Buyers PROVE PromoOK(w)'
  <2>1. bal[Promo(w)] \in Nat /\ corrected[Promo(w)].up \in Nat /\ Promo(w) \in Accounts
    BY PromoTerms
  <2>2. Promo(w) # Spendable(u) /\ Promo(w) # House("receivable") /\ Promo(w) # House("stored_value")
    BY AccountsApart DEF Platform
  <2>3. bal'[Promo(w)] = bal[Promo(w)]
    BY <1>9, <2>1, <2>2 DEF At
  <2> QED BY <1>3, <1>8, <2>1, <2>3, PromoKept
<1>13. OtherTypes'
  <2>1. shortfall[Spendable(u)] + short \in Nat
    BY <1>0, <1>4, <1>7
  <2>2. shortfall' \in [Accounts -> Nat]
    BY <1>3, <1>7, <2>1
  <2> QED BY <1>3, <2>2, InvParts DEF OtherTypes
<1> QED BY <1>8, <1>11, <1>12, <1>13, QuietMoney

-----------------------------------------------------------------------------
(* What operators post is booked as theirs. *)

(* A correction of the operators keeps it: they are held to what they
   moved. *)
LEMMA CorrectKeeps ==
  ASSUME IInv, NEW txn, NEW legs \in Legs, Correct(txn, legs), Balanced(legs),
         txn[1] # "sale", txn[1] # "drain", keys \subseteq keys'
  PROVE  IInv'
<1>1. /\ Post(txn, legs)
      /\ corrected' = [a \in Accounts |-> [up |-> corrected[a].up + Positive(legs[a]),
                                           down |-> corrected[a].down + Positive(-legs[a])]]
      /\ UNCHANGED <<sale, rows, grants, sweep, owned, accrual, refunds, shortfall>>
  BY DEF Correct
<1>2. Posted(txn, legs) /\ bal \in [Accounts -> Int] /\ shortfall \in [Accounts -> Nat]
  BY <1>1, PostOne, InvParts, Known
<1>3. Quiet /\ LedgerOK' /\ \A t \in DOMAIN posted' : Balanced(posted'[t])
  BY <1>1, <1>2, PostedQuiet
<1>4. ASSUME NEW a \in Accounts
      PROVE  /\ corrected'[a].up \in Nat /\ corrected'[a].down \in Nat
             /\ ByOperators(a)' = ByOperators(a) + legs[a] /\ ByOperators(a) \in Int
             /\ bal'[a] = bal[a] + legs[a] /\ bal[a] \in Int /\ legs[a] \in Int
             /\ corrected'[a].up >= corrected[a].up + legs[a]
  <2>1. legs[a] \in Int /\ -legs[a] \in Int /\ bal[a] \in Int
    BY <1>2 DEF Legs
  <2>2. /\ Positive(legs[a]) = (IF legs[a] > 0 THEN legs[a] ELSE 0)
        /\ Positive(-legs[a]) = (IF -legs[a] > 0 THEN -legs[a] ELSE 0)
    BY <2>1, PositiveIs
  <2>3. /\ corrected'[a].up = corrected[a].up + Positive(legs[a])
        /\ corrected'[a].down = corrected[a].down + Positive(-legs[a])
    BY <1>1
  <2>4. corrected[a].up \in Nat /\ corrected[a].down \in Nat
    BY Known
  <2>5. ByOperators(a)' = corrected'[a].up - corrected'[a].down
        /\ ByOperators(a) = corrected[a].up - corrected[a].down
    BY DEF ByOperators
  <2> QED BY <1>2, <2>1, <2>2, <2>3, <2>4, <2>5 DEF Posted
<1>5. OtherTypes'
  <2>1. corrected' \in [Accounts -> [up : Nat, down : Nat]]
    <3>1. DOMAIN corrected' = Accounts /\ \A a \in Accounts : DOMAIN corrected'[a] = {"up", "down"}
      BY <1>1
    <3>2. ASSUME NEW a \in Accounts PROVE corrected'[a] \in [up : Nat, down : Nat]
      <4>1. corrected'[a] = [up |-> corrected[a].up + Positive(legs[a]),
                             down |-> corrected[a].down + Positive(-legs[a])]
        BY <1>1
      <4> QED BY <1>4, <4>1
    <3> QED BY <1>1, <3>2
  <2> QED BY <1>1, <2>1, InvParts DEF OtherTypes
<1>6. Steady
  <2>0. House("accrual") \in Accounts /\ House("receivable") \in Accounts
        /\ \A v \in Sellers : Earned(v) \in Accounts
    BY AccountsAre
  <2>1. ASSUME NEW a \in Accounts PROVE bal'[a] - ByOperators(a)' = bal[a] - ByOperators(a)
    BY <1>4
  <2>2. shortfall' = shortfall
    BY <1>1
  <2> QED BY <2>0, <2>1, <2>2 DEF Steady
<1>7. ASSUME NEW u \in Buyers PROVE PromoOK(u)'
  <2>1. bal[Promo(u)] \in Nat /\ corrected[Promo(u)].up \in Nat /\ Promo(u) \in Accounts
    BY PromoTerms
  <2>2. bal'[Promo(u)] \in Int /\ corrected'[Promo(u)].up \in Int
        /\ bal'[Promo(u)] - corrected'[Promo(u)].up <= bal[Promo(u)] - corrected[Promo(u)].up
    BY <1>4, <2>1
  <2> QED BY <1>1, <1>3, <2>2, PromoKept
<1> QED BY <1>3, <1>5, <1>6, <1>7, QuietMoney

(* An adjustment is one. *)
LEMMA AdjustKeeps ==
  ASSUME IInv, NEW a \in Adjustable, NEW delta \in {-1, 1}, Adjust(a, delta)
  PROVE  IInv'
<1> DEFINE e == IF a \in DebitNormal THEN delta ELSE -delta
           legs == [[NoLegs EXCEPT ![a] = delta] EXCEPT ![House("opening_equity")] = @ + e]
           txn == <<"adjust", count.corrections>>
<1>0. /\ a \in Accounts \ Usd /\ delta \in Int /\ e \in Int
      /\ House("opening_equity") \in Accounts \ Usd /\ House("opening_equity") \notin DebitNormal
      /\ txn[1] = "adjust"
  BY PartiesAre, AccountsAre
<1> DEFINE f == [NoLegs EXCEPT ![a] = delta]
<1>1. f = [c \in Accounts |-> At(a, delta, c)]
  BY <1>0 DEF NoLegs, At
<1>1a. legs = [f EXCEPT ![House("opening_equity")] = @ + e]
  OBVIOUS
<1> HIDE DEF f
<1>2. legs \in Legs /\ \A c \in Accounts : legs[c] = At(a, delta, c) + At(House("opening_equity"), e, c)
  <2> HIDE DEF legs, e
  <2>1. legs = [c \in Accounts |-> At(a, delta, c) + At(House("opening_equity"), e, c)]
    BY <1>0, <1>1, <1>1a DEF At
  <2> QED BY <1>0, <2>1 DEF At, Legs
<1>3. Sg(a, delta) + Sg(House("opening_equity"), e) = 0
  BY <1>0 DEF Sg
<1>4. Correct(txn, legs) /\ keys' = keys
  BY DEF Adjust
<1> HIDE DEF legs, txn, e
<1>5. Balanced(legs)
  BY <1>0, <1>2, <1>3, TwoLegs
<1> QED BY <1>0, <1>2, <1>4, <1>5, CorrectKeeps

(* The reverse of a posting is one. *)
LEMMA ReverseKeeps ==
  ASSUME IInv, NEW t \in DOMAIN posted, Reverse(t)
  PROVE  IInv'
<1> DEFINE legs == [a \in Accounts |-> -posted[t][a]]
           txn == <<"reverse", t>>
<1>1. posted[t] \in Legs /\ Balanced(posted[t])
  BY InvParts DEF LedgerOK, Money
<1>2. legs \in Legs /\ \A a \in Accounts : legs[a] = -posted[t][a]
  BY <1>1 DEF Legs
<1>3. Correct(txn, legs) /\ keys \subseteq keys' /\ txn[1] = "reverse"
  BY DEF Reverse
<1> HIDE DEF legs, txn
<1>4. Balanced(legs)
  BY <1>1, <1>2, OppositeBalanced
<1> QED BY <1>2, <1>3, <1>4, CorrectKeeps


-----------------------------------------------------------------------------
(* What a change of rows does to the sums. *)

(* The shares and debts pending after a move of the rows. *)
LEMMA MovedSums ==
  ASSUME IInv, NEW A, NEW st, NEW N, RowsMove(A, st, N)
  PROVE  /\ Shares(AllPending)' = Shares(AllPending) - Shares(A) + Shares(N)
         /\ Debts(AllPending)' = Debts(AllPending) - Debts(A) + Debts(N)
         /\ \A S \in {AllPending, A, N} : Shares(S) \in Int /\ Debts(S) \in Int
         /\ \A v : /\ Shares(Pending(v))' = Shares(Pending(v)) - Shares(Of(v, A)) + Shares(Of(v, N))
                   /\ Debts(Pending(v))' = Debts(Pending(v)) - Debts(Of(v, A)) + Debts(Of(v, N))
                   /\ \A S \in {Pending(v), Of(v, A), Of(v, N)} : Shares(S) \in Int /\ Debts(S) \in Int
<1>1. /\ AllPending' = (AllPending \ A) \cup N
      /\ Swap(AllPending, A, N)
      /\ \A v : Pending(v)' = (Pending(v) \ Of(v, A)) \cup Of(v, N)
      /\ \A v : Swap(Pending(v), Of(v, A), Of(v, N))
  BY Known, MovedPending
<1>2. /\ Shares(AllPending)' = Shares(AllPending')
      /\ Debts(AllPending)' = Debts(AllPending')
      /\ \A v : Shares(Pending(v))' = Shares(Pending(v)') /\ Debts(Pending(v))' = Debts(Pending(v)')
  BY DEF Shares, Debts
<1>3. /\ Shares((AllPending \ A) \cup N) = Shares(AllPending) - Shares(A) + Shares(N)
      /\ Debts((AllPending \ A) \cup N) = Debts(AllPending) - Debts(A) + Debts(N)
      /\ Shares(AllPending) \in Int /\ Shares(A) \in Int /\ Shares(N) \in Int
      /\ Debts(AllPending) \in Int /\ Debts(A) \in Int /\ Debts(N) \in Int
  BY <1>1, PartsSwap
<1>4. ASSUME NEW v
      PROVE  /\ Shares((Pending(v) \ Of(v, A)) \cup Of(v, N))
                  = Shares(Pending(v)) - Shares(Of(v, A)) + Shares(Of(v, N))
             /\ Debts((Pending(v) \ Of(v, A)) \cup Of(v, N))
                  = Debts(Pending(v)) - Debts(Of(v, A)) + Debts(Of(v, N))
             /\ Shares(Pending(v)) \in Int /\ Shares(Of(v, A)) \in Int /\ Shares(Of(v, N)) \in Int
             /\ Debts(Pending(v)) \in Int /\ Debts(Of(v, A)) \in Int /\ Debts(Of(v, N)) \in Int
  <2>1. Swap(Pending(v), Of(v, A), Of(v, N))
    BY <1>1
  <2> QED BY <2>1, PartsSwap
<1> QED BY <1>1, <1>2, <1>3, <1>4

(* A single row is a share or a debt of its seller. *)
LEMMA OneRow ==
  ASSUME NEW n, n.amount \in Int
  PROVE  /\ Shares({n}) = (IF n.amount > 0 THEN n.amount ELSE 0)
         /\ Debts({n}) = (IF n.amount < 0 THEN -n.amount ELSE 0)
         /\ \A v : Of(v, {n}) = IF n.seller = v THEN {n} ELSE {}
<1>0. Sum({n}) = n.amount /\ Sum({}) = 0
  BY SumOfOne, SumOfNone
<1>1. Shares({n}) = (IF n.amount > 0 THEN n.amount ELSE 0)
  <2>1. {r \in {n} : r.amount > 0} = IF n.amount > 0 THEN {n} ELSE {}
    OBVIOUS
  <2> QED BY <1>0, <2>1 DEF Shares
<1>2. Debts({n}) = (IF n.amount < 0 THEN -n.amount ELSE 0)
  <2>1. {r \in {n} : r.amount < 0} = IF n.amount < 0 THEN {n} ELSE {}
    OBVIOUS
  <2> QED BY <1>0, <2>1 DEF Debts
<1>3. \A v : Of(v, {n}) = IF n.seller = v THEN {n} ELSE {}
  BY DEF Of
<1> QED BY <1>1, <1>2, <1>3

-----------------------------------------------------------------------------
(* A sale: the fee is no more than what promo leaves, so the share is no more *)
(* than the price.                                                            *)

(* The fee is no more than the price. *)
LEMMA FeeBounds ==
  ASSUME NEW n \in Nat
  PROVE  FeeFor(n) \in Nat /\ FeeFor(n) <= n
<1>1. n * FeeBps \in Nat
  BY PartiesAre
<1> DEFINE k == n * FeeBps
<1> HIDE DEF k
<1>2. (k + 9999) \div 10000 \in Nat
  BY <1>1 DEF k
<1>3. Min({n, (k + 9999) \div 10000})
        = IF n <= (k + 9999) \div 10000 THEN n ELSE (k + 9999) \div 10000
  BY <1>2, MinOfTwo
<1> QED BY <1>2, <1>3 DEF FeeFor, k

(* A price splits into promo, own credits, fee and share. *)
LEMMA SaleParts ==
  ASSUME IInv, NEW o \in Orders
  PROVE  /\ PromoPart(o) \in Nat /\ PromoPart(o) <= PriceOf[o]
         /\ Share(o) \in Nat /\ PriceOf[o] \in Nat
<1>1. BuyerOf[o] \in Buyers /\ PriceOf[o] \in Nat
  BY PartiesAre
<1>2. bal[Promo(BuyerOf[o])] \in Nat
  BY <1>1, PromoTerms
<1>3. PromoPart(o) = IF bal[Promo(BuyerOf[o])] <= PriceOf[o] THEN bal[Promo(BuyerOf[o])] ELSE PriceOf[o]
  BY <1>1, <1>2, MinOfTwo DEF PromoPart
<1>4. PriceOf[o] - PromoPart(o) \in Nat
  BY <1>1, <1>2, <1>3
<1>5. FeeFor(PriceOf[o] - PromoPart(o)) \in Nat
      /\ FeeFor(PriceOf[o] - PromoPart(o)) <= PriceOf[o] - PromoPart(o)
  BY <1>4, FeeBounds
<1> QED BY <1>1, <1>2, <1>3, <1>5 DEF Share

(* The accounts of a sale. *)
LEMMA SaleAre ==
  ASSUME NEW o \in Orders
  PROVE  /\ Promo(BuyerOf[o]) \in Accounts \ (Usd \cup DebitNormal)
         /\ Spendable(BuyerOf[o]) \in Accounts \ (Usd \cup DebitNormal)
         /\ Earned(SellerOf[o]) \in Accounts \ (Usd \cup DebitNormal)
         /\ House("revenue") \in Accounts \ (Usd \cup DebitNormal)
         /\ House("accrual") \in Accounts \ (Usd \cup DebitNormal)
         /\ House("promo_float") \in (Accounts \cap DebitNormal) \ Usd
         /\ Promo(BuyerOf[o]) # Spendable(BuyerOf[o]) /\ Promo(BuyerOf[o]) # Earned(SellerOf[o])
         /\ Promo(BuyerOf[o]) # House("revenue") /\ Promo(BuyerOf[o]) # House("accrual")
         /\ Spendable(BuyerOf[o]) # Earned(SellerOf[o])
         /\ Spendable(BuyerOf[o]) # House("revenue") /\ Spendable(BuyerOf[o]) # House("accrual")
         /\ Earned(SellerOf[o]) # House("revenue") /\ Earned(SellerOf[o]) # House("accrual")
         /\ House("revenue") # House("accrual")
BY AccountsAre, AccountsApart, PartiesAre DEF Platform

(* The legs of a sale balance; the share is parked or earned. *)
LEMMA SaleLegsAre ==
  ASSUME IInv, NEW o \in Orders
  PROVE  /\ SaleLegs(o) \in Legs /\ Balanced(SaleLegs(o))
         /\ SaleLegs(o)[House("accrual")] = (IF accrual THEN Share(o) ELSE 0)
         /\ SaleLegs(o)[Earned(SellerOf[o])] = (IF accrual THEN 0 ELSE Share(o))
         /\ \A a \in {Promo(BuyerOf[o]), House("promo_float"), Spendable(BuyerOf[o])} : SaleLegs(o)[a] <= 0
         /\ \A a \in Accounts \ SaleAccounts(o) : SaleLegs(o)[a] = 0
<1> DEFINE p == PromoPart(o)
           s == Share(o)
           price == PriceOf[o]
           legs == SaleLegs(o)
<1>0. p \in Nat /\ p <= price /\ s \in Nat /\ price \in Nat
  BY SaleParts
<1>1. accrual \in BOOLEAN /\ ShareAccount(o) = (IF accrual THEN House("accrual") ELSE Earned(SellerOf[o]))
  BY InvParts DEF OtherTypes, ShareAccount
<1>2. ShareAccount(o) \in Accounts \ (Usd \cup DebitNormal)
      /\ ShareAccount(o) # Promo(BuyerOf[o]) /\ ShareAccount(o) # Spendable(BuyerOf[o])
      /\ ShareAccount(o) # House("revenue")
  BY <1>1, SaleAre
<1> HIDE DEF p, s, price
<1>2a. legs = [NoLegs EXCEPT ![Promo(BuyerOf[o])] = -p, ![House("promo_float")] = -p,
                 ![Spendable(BuyerOf[o])] = p - price, ![House("revenue")] = price - p - s,
                 ![ShareAccount(o)] = s]
  BY DEF SaleLegs, p, s, price
<1> HIDE DEF legs
<1>3a. DOMAIN legs = Accounts /\ legs = [c \in Accounts |-> legs[c]]
  BY <1>2a DEF NoLegs
<1>4. \A c \in Accounts : legs[c] = At(Promo(BuyerOf[o]), -p, c) + At(House("promo_float"), -p, c)
         + At(Spendable(BuyerOf[o]), p - price, c) + At(House("revenue"), price - p - s, c)
         + At(ShareAccount(o), s, c)
  BY <1>0, <1>2, <1>2a, SaleAre DEF NoLegs, At
<1>3. legs \in Legs
  <2>1. \A c \in Accounts : legs[c] \in Int
    BY <1>0, <1>4 DEF At
  <2> QED BY <1>3a, <2>1 DEF Legs
<1>5. Sg(Promo(BuyerOf[o]), -p) + Sg(House("promo_float"), -p) + Sg(Spendable(BuyerOf[o]), p - price)
        + Sg(House("revenue"), price - p - s) + Sg(ShareAccount(o), s) = 0
  BY <1>0, <1>2, SaleAre DEF Sg
<1>6. Balanced(legs)
  <2>1. /\ Promo(BuyerOf[o]) \in Accounts \ Usd /\ House("promo_float") \in Accounts \ Usd
        /\ Spendable(BuyerOf[o]) \in Accounts \ Usd /\ House("revenue") \in Accounts \ Usd
        /\ ShareAccount(o) \in Accounts \ Usd
    BY <1>2, SaleAre
  <2>2. -p \in Int /\ p - price \in Int /\ price - p - s \in Int /\ s \in Int
    BY <1>0
  <2>3. Accounts \ Usd \in {Usd, Accounts \ Usd}
    OBVIOUS
  <2> HIDE DEF legs, p, s, price
  <2> DEFINE a1 == Promo(BuyerOf[o])
             a2 == House("promo_float")
             a3 == Spendable(BuyerOf[o])
             a4 == House("revenue")
             a5 == ShareAccount(o)
             x1 == -p
             x3 == p - price
             x4 == price - p - s
  <2>4. /\ Five(legs, a1, x1, a2, x1, a3, x3, a4, x4, a5, s)
        /\ Sg(a1, x1) + Sg(a2, x1) + Sg(a3, x3) + Sg(a4, x4) + Sg(a5, s) = 0
        /\ a1 \in Accounts \ Usd /\ a2 \in Accounts \ Usd /\ a3 \in Accounts \ Usd
        /\ a4 \in Accounts \ Usd /\ a5 \in Accounts \ Usd
        /\ x1 \in Int /\ x3 \in Int /\ x4 \in Int /\ s \in Int
    BY <1>4, <1>5, <2>1, <2>2 DEF Five
  <2> HIDE DEF a1, a2, a3, a4, a5, x1, x3, x4
  <2> QED BY <1>3, <2>3, <2>4, FiveLegs
<1>7. legs[ShareAccount(o)] = s /\ \A c \in Accounts : c # ShareAccount(o) /\ c # Promo(BuyerOf[o])
        /\ c # House("promo_float") /\ c # Spendable(BuyerOf[o]) /\ c # House("revenue") => legs[c] = 0
  BY <1>2, <1>2a DEF NoLegs
<1>8. legs[House("accrual")] = (IF accrual THEN s ELSE 0)
      /\ legs[Earned(SellerOf[o])] = (IF accrual THEN 0 ELSE s)
  BY <1>1, <1>7, SaleAre
<1>9. \A a \in {Promo(BuyerOf[o]), House("promo_float"), Spendable(BuyerOf[o])} : legs[a] <= 0
  <2>1. /\ legs[Promo(BuyerOf[o])] = -p /\ legs[House("promo_float")] = -p
        /\ legs[Spendable(BuyerOf[o])] = p - price
    BY <1>2, <1>2a, SaleAre DEF NoLegs
  <2> QED BY <1>0, <2>1
<1>10. \A a \in Accounts \ SaleAccounts(o) : legs[a] = 0
  BY <1>1, <1>7 DEF SaleAccounts
<1> QED BY <1>3, <1>6, <1>8, <1>9, <1>10 DEF legs, s


(* A sale is known by its order. *)
LEMMA SaleIds ==
  /\ \A o : SaleId(o) # Unsold /\ SaleId(o)[1] = "sale"
  /\ \A o, q : SaleId(o) = SaleId(q) => o = q
BY DEF SaleId, Unsold

(* The row of a sale: its share, when the split parks one. *)
NewRows(o) == IF accrual THEN ShareRows(o) ELSE {}

(* The accrual row of a sale is the first of its order. *)
LEMMA SaleRow ==
  ASSUME IInv, NEW o \in Orders, sale[o] = Unsold, Spend(o)
  PROVE  /\ RowsMove({}, "drained", NewRows(o))
         /\ Posted(SaleId(o), SaleLegs(o))
         /\ \A q \in rows : q.order # o
         /\ LET n == [order |-> o, seller |-> SellerOf[o], seq |-> 0, amount |-> Share(o),
                      at |-> NextAt, status |-> "pending"]
            IN NewRows(o) = IF accrual /\ Share(o) # 0 THEN {n} ELSE {}
<1> DEFINE n == [order |-> o, seller |-> SellerOf[o], seq |-> 0, amount |-> Share(o),
                 at |-> NextAt, status |-> "pending"]
<1>1. NewRows(o) = IF accrual /\ Share(o) # 0 THEN {n} ELSE {}
  BY DEF NewRows, ShareRows
<1>2. Fresh(n)
  <2>1. NextAt \in Nat
    BY Known, FS_CardinalityType DEF NextAt
  <2>2. Share(o) \in Int /\ SellerOf[o] \in Sellers
    BY SaleParts, PartiesAre
  <2> QED BY <2>1, <2>2 DEF Fresh, Row
<1>3. \A q \in rows : q.order # o
  BY InvParts DEF Store, RowsOK, RowOK
<1>4. rows' = rows \cup NewRows(o) /\ Post(SaleId(o), SaleLegs(o))
  BY DEF Spend, NewRows, SaleId
<1>5. RowsMove({}, "drained", NewRows(o))
  <2>1. \A m \in NewRows(o) : m = n
    BY <1>1
  <2>2. n.order = o
    OBVIOUS
  <2>3. (rows \ {}) \cup Settle({}, "drained") \cup NewRows(o) = rows'
    BY <1>4 DEF Settle
  <2> HIDE DEF n
  <2> QED BY <1>2, <1>3, <2>1, <2>2, <2>3 DEF RowsMove
<1>6. Posted(SaleId(o), SaleLegs(o))
  BY <1>4, SaleLegsAre, PostOne, InvParts
<1> QED BY <1>1, <1>3, <1>5, <1>6

(* A sale leaves the other orders alone. *)
LEMMA SaleStays ==
  ASSUME IInv, NEW o \in Orders, sale[o] = Unsold, Posted(SaleId(o), SaleLegs(o)),
         sale' = [sale EXCEPT ![o] = SaleId(o)], refunds' = refunds
  PROVE  /\ SalesStay /\ sale'[o] = SaleId(o) /\ DOMAIN sale' = Orders
         /\ \A q \in Orders \ {o} : sale'[q] = sale[q]
         /\ \A q \in Orders \ {o} : sale[q] # Unsold => posted'[sale[q]] = posted[sale[q]]
         /\ o \notin refunds
<1>1. DOMAIN sale = Orders
  BY Known
<1>2. ASSUME NEW q \in Orders, sale[q] # Unsold
      PROVE  /\ sale'[q] = sale[q] /\ sale[q] = SaleId(q)
             /\ SaleId(q) \in DOMAIN posted' /\ posted'[SaleId(q)] = posted[SaleId(q)]
  <2>1. SaleId(q) # SaleId(o) /\ SaleId(q) \in DOMAIN posted /\ sale[q] = SaleId(q)
    BY <1>2, SaleKnown, SaleIds
  <2> QED BY <1>1, <1>2, <2>1 DEF Posted
<1>3. o \notin refunds
  BY Known
<1>4. \A q \in Orders \ {o} : sale[q] # Unsold => posted'[sale[q]] = posted[sale[q]]
  BY <1>2
<1> QED BY <1>1, <1>2, <1>3, <1>4 DEF SalesStay

(* It keeps the store. *)
LEMMA SpendStore ==
  ASSUME IInv, NEW o \in Orders, Spend(o)
  PROVE  Store' /\ SaleTypes' /\ rows' \subseteq Row /\ KeysApart'
<1>0. /\ rows \subseteq Row /\ SalesOK /\ RowsOK /\ DrainsOK /\ KeysApart /\ SaleTypes
  BY InvParts DEF Store
<1>1. /\ sale[o] = Unsold /\ sale' = [sale EXCEPT ![o] = SaleId(o)] /\ refunds' = refunds
      /\ keys' = keys
  BY DEF Spend, SaleId
<1> DEFINE n == [order |-> o, seller |-> SellerOf[o], seq |-> 0, amount |-> Share(o),
                 at |-> NextAt, status |-> "pending"]
<1>2. /\ RowsMove({}, "drained", NewRows(o))
      /\ Posted(SaleId(o), SaleLegs(o))
      /\ \A q \in rows : q.order # o
      /\ NewRows(o) = IF accrual /\ Share(o) # 0 THEN {n} ELSE {}
  BY <1>1, SaleRow
<1>3. /\ SalesStay /\ sale'[o] = SaleId(o) /\ DOMAIN sale' = Orders
      /\ \A q \in Orders \ {o} : sale'[q] = sale[q]
      /\ \A q \in Orders \ {o} : sale[q] # Unsold => posted'[sale[q]] = posted[sale[q]]
      /\ o \notin refunds
  BY <1>1, <1>2, SaleStays
<1>4. /\ n.order = o /\ n.seller = SellerOf[o] /\ n.seq = 0 /\ n.amount = Share(o)
      /\ n.status = "pending"
  OBVIOUS
<1> HIDE DEF n
<1>5. /\ posted'[SaleId(o)] = SaleLegs(o) /\ SaleId(o) \in DOMAIN posted'
      /\ Share(o) \in Nat
  BY <1>2, SaleParts DEF Posted
<1>6. \A m \in NewRows(o) : RowOK(m)' /\ (m.seq = 0 => sale[m.order] = Unsold)
  <2>1. ASSUME NEW m \in NewRows(o) PROVE RowOK(m)' /\ (m.seq = 0 => sale[m.order] = Unsold)
    <3>1. m = n /\ accrual /\ Share(o) # 0
      BY <1>2
    <3>2. posted'[SaleId(o)][House("accrual")] = Share(o)
      BY <1>5, <3>1, SaleLegsAre
    <3>3. sale'[o] # Unsold
      BY <1>3, SaleIds
    <3> QED BY <1>1, <1>4, <1>5, <3>1, <3>2, <3>3 DEF RowOK
  <2> QED BY <2>1
<1>7. /\ RowsOK' /\ KeysApart' /\ rows' \subseteq Row
      /\ \A q \in Orders : sale[q] # Unsold => SaleOK(q)'
      /\ \A t \in DOMAIN posted : t[1] = "drain" => DrainKnown(t)'
  BY <1>0, <1>2, <1>3, <1>6, MovedStore
<1>8. SaleOK(o)'
  <2>1. rows' = rows \cup NewRows(o)
    BY DEF Spend, NewRows
  <2>2. (\E r \in rows' : r.order = o /\ r.seq = 0) <=> accrual /\ Share(o) # 0
    BY <1>2, <1>4, <2>1
  <2>3. posted'[SaleId(o)][House("accrual")] = (IF accrual THEN Share(o) ELSE 0)
        /\ posted'[SaleId(o)][Earned(SellerOf[o])] = (IF accrual THEN 0 ELSE Share(o))
    BY <1>5, SaleLegsAre
  <2>4. /\ \A a \in Accounts \ SaleAccounts(o) : posted'[SaleId(o)][a] = 0
        /\ \A a \in {Promo(BuyerOf[o]), House("promo_float"), Spendable(BuyerOf[o])} :
             posted'[SaleId(o)][a] <= 0
    BY <1>5, SaleLegsAre
  <2>5. \A a \in {House("accrual"), Earned(SellerOf[o])} : posted'[SaleId(o)][a] >= 0
    BY <1>5, <2>3
  <2>6. posted'[SaleId(o)][House("accrual")] = 0 \/ posted'[SaleId(o)][Earned(SellerOf[o])] = 0
    BY <2>3
  <2>7. posted'[SaleId(o)][House("accrual")] # 0 <=> \E r \in rows' : r.order = o /\ r.seq = 0
    BY <2>2, <2>3
  <2> QED BY <1>3, <1>5, <2>4, <2>5, <2>6, <2>7 DEF SaleOK
<1>9. SalesOK'
  <2>1. \A q \in Orders : sale'[q] # Unsold => SaleOK(q)'
    BY <1>3, <1>7, <1>8
  <2>2. \A q \in refunds : sale'[q] # Unsold /\ OrderKey(q) \in keys
    BY <1>0, <1>3, Known DEF SalesOK
  <2> QED BY <1>1, <2>1, <2>2 DEF SalesOK
<1>10. DrainsOK'
  <2>1. \A t \in DOMAIN posted' : t \in DOMAIN posted \/ t = SaleId(o)
    BY <1>2 DEF Posted
  <2>2. SaleId(o)[1] # "drain"
    BY SaleIds
  <2> QED BY <1>7, <2>1, <2>2 DEF DrainsOK, DrainKnown
<1>11. SaleTypes'
  <2>1. \A q \in Orders : sale'[q] # Unsold => sale'[q] \in DOMAIN posted'
    BY <1>0, <1>2, <1>3, <1>5 DEF SaleTypes, Posted
  <2> QED BY <1>3, <2>1 DEF SaleTypes
<1> QED BY <1>7, <1>9, <1>10, <1>11 DEF Store


(* The sales of a seller are finitely many, and their shares are numbers. *)
LEMMA SoldKnown ==
  ASSUME IInv, NEW v \in Sellers
  PROVE  /\ Sold(v) \in SUBSET Orders /\ IsFiniteSet(Sold(v))
         /\ \A o \in Sold(v) : /\ ShareOf(v)[o] \in Int
                               /\ ShareOf(v)[o] = posted[sale[o]][House("accrual")] + posted[sale[o]][Earned(v)]
         /\ Ints(ShareOf(v), Sold(v)) /\ Total(ShareOf(v), Sold(v)) \in Int
<1>1. Sold(v) \in SUBSET Orders
  BY DEF Sold
<1>2. IsFiniteSet(Sold(v))
  BY <1>1, PartiesAre, FS_Subset
<1>3. ASSUME NEW o \in Sold(v)
      PROVE  /\ ShareOf(v)[o] = posted[sale[o]][House("accrual")] + posted[sale[o]][Earned(v)]
             /\ ShareOf(v)[o] \in Int
  <2>1. o \in Orders /\ sale[o] # Unsold
    BY DEF Sold
  <2>2. House("accrual") \in Accounts /\ Earned(v) \in Accounts
    BY AccountsAre
  <2>3. posted[sale[o]][House("accrual")] \in Int /\ posted[sale[o]][Earned(v)] \in Int
    BY <2>1, <2>2, SaleKnown
  <2> QED BY <2>3 DEF ShareOf
<1>4. Ints(ShareOf(v), Sold(v))
  BY <1>3 DEF Ints
<1>5. Total(ShareOf(v), Sold(v)) \in Int
  BY <1>2, <1>4, TotalType
<1> QED BY <1>1, <1>2, <1>3, <1>4, <1>5

(* It adds its share to what the seller sold. *)
LEMMA SaleShares ==
  ASSUME IInv, NEW o \in Orders, sale[o] = Unsold, Posted(SaleId(o), SaleLegs(o)),
         sale' = [sale EXCEPT ![o] = SaleId(o)], refunds' = refunds, NEW v \in Sellers
  PROVE  Total(ShareOf(v), Sold(v))'
           = Total(ShareOf(v), Sold(v)) + (IF v = SellerOf[o] THEN Share(o) ELSE 0)
<1>1. /\ SalesStay /\ sale'[o] = SaleId(o) /\ DOMAIN sale' = Orders
      /\ \A q \in Orders \ {o} : sale'[q] = sale[q]
      /\ \A q \in Orders \ {o} : sale[q] # Unsold => posted'[sale[q]] = posted[sale[q]]
      /\ o \notin refunds
  BY SaleStays
<1>2. /\ Sold(v) \in SUBSET Orders /\ IsFiniteSet(Sold(v))
      /\ Ints(ShareOf(v), Sold(v)) /\ Total(ShareOf(v), Sold(v)) \in Int
  BY SoldKnown
<1> DEFINE f == ShareOf(v)
           S == Sold(v)
           g == ShareOf(v)'
<1>3. Total(ShareOf(v), Sold(v))' = Total(g, Sold(v)')
  OBVIOUS
<1>4. g = [q \in Sold(v)' |-> posted'[sale'[q]][House("accrual")] + posted'[sale'[q]][Earned(v)]]
  BY DEF ShareOf
<1>5. o \notin S
  BY DEF Sold
<1>6. Sold(v)' = S \cup (IF v = SellerOf[o] THEN {o} ELSE {})
  <2>1. sale'[o] # Unsold
    BY <1>1, SaleIds
  <2> QED BY <1>1, <2>1 DEF Sold
<1>7. \A q \in S : g[q] = f[q]
  <2>1. ASSUME NEW q \in S PROVE g[q] = f[q]
    <3>1. q \in Orders \ {o} /\ sale[q] # Unsold /\ q \in Sold(v)'
      BY <1>5, <1>6 DEF Sold
    <3>2. sale'[q] = sale[q] /\ posted'[sale[q]] = posted[sale[q]]
      BY <1>1, <3>1
    <3>3. f[q] = posted[sale[q]][House("accrual")] + posted[sale[q]][Earned(v)]
      BY DEF ShareOf
    <3> QED BY <1>4, <3>1, <3>2, <3>3
  <2> QED BY <2>1
<1> HIDE DEF f, g
<1>8. Total(g, S) = Total(f, S) /\ Ints(g, S) /\ Total(f, S) \in Int
  BY <1>2, <1>7, TotalSame DEF Ints, f
<1>9. CASE v = SellerOf[o]
  <2>1. g[o] = SaleLegs(o)[House("accrual")] + SaleLegs(o)[Earned(v)]
    BY <1>1, <1>4, <1>6, <1>9 DEF Posted
  <2>2. accrual \in BOOLEAN /\ Share(o) \in Nat
    BY InvParts, SaleParts DEF OtherTypes
  <2>3. g[o] = Share(o)
    BY <1>9, <2>1, <2>2, SaleLegsAre
  <2>4. Total(g, S \cup {o}) = Total(g, S) + g[o]
    BY <1>2, <1>5, <1>8, <2>2, <2>3, TotalAdd
  <2>5. Total(g, Sold(v)') = Total(f, S) + Share(o)
    BY <1>6, <1>8, <1>9, <2>3, <2>4
  <2> QED BY <1>3, <1>9, <2>5 DEF f
<1>10. CASE v # SellerOf[o]
  BY <1>3, <1>6, <1>8, <1>10 DEF f
<1> QED BY <1>9, <1>10

(* It keeps the invariant. *)
LEMMA SpendKeeps ==
  ASSUME IInv, NEW o \in Orders, Spend(o)
  PROVE  IInv'
<1>0. Store' /\ SaleTypes' /\ rows' \subseteq Row /\ KeysApart'
  BY SpendStore
<1>1. /\ sale[o] = Unsold /\ sale' = [sale EXCEPT ![o] = SaleId(o)]
      /\ owned' = owned \cup {BuyerOf[o]}
      /\ UNCHANGED <<keys, grants, sweep, accrual, refunds, shortfall, corrected, count>>
  BY DEF Spend, SaleId
<1> DEFINE n == [order |-> o, seller |-> SellerOf[o], seq |-> 0, amount |-> Share(o),
                 at |-> NextAt, status |-> "pending"]
           legs == SaleLegs(o)
           N == NewRows(o)
<1>2. /\ RowsMove({}, "drained", N) /\ Posted(SaleId(o), legs)
      /\ N = IF accrual /\ Share(o) # 0 THEN {n} ELSE {}
  BY <1>1, SaleRow
<1>3. /\ accrual \in BOOLEAN /\ Share(o) \in Nat /\ SellerOf[o] \in Sellers
      /\ bal \in [Accounts -> Int] /\ shortfall \in [Accounts -> Nat]
      /\ \A a \in Accounts : ByOperators(a) \in Int /\ ByOperators(a)' = ByOperators(a)
  BY <1>1, InvParts, SaleParts, PartiesAre, Known DEF OtherTypes, ByOperators
<1>4. /\ legs \in Legs /\ Balanced(legs)
      /\ legs[House("accrual")] = (IF accrual THEN Share(o) ELSE 0)
      /\ legs[Earned(SellerOf[o])] = (IF accrual THEN 0 ELSE Share(o))
      /\ \A a \in {Promo(BuyerOf[o]), House("promo_float"), Spendable(BuyerOf[o])} : legs[a] <= 0
      /\ \A a \in Accounts \ SaleAccounts(o) : legs[a] = 0
  BY SaleLegsAre
<1>5. n.order = o /\ n.seller = SellerOf[o] /\ n.amount = Share(o)
  OBVIOUS
<1> HIDE DEF n, N, legs
<1>6. /\ Shares(N) = (IF accrual THEN Share(o) ELSE 0) /\ Debts(N) = 0
      /\ \A v : /\ Shares(Of(v, N)) = (IF accrual /\ v = SellerOf[o] THEN Share(o) ELSE 0)
                /\ Debts(Of(v, N)) = 0
  <2>1. CASE N = {n} /\ accrual
    <3>1. /\ Shares({n}) = IF n.amount > 0 THEN n.amount ELSE 0
          /\ Debts({n}) = IF n.amount < 0 THEN -n.amount ELSE 0
          /\ \A v : Of(v, {n}) = IF n.seller = v THEN {n} ELSE {}
      BY <1>3, <1>5, OneRow
    <3>2. Shares({n}) = Share(o) /\ Debts({n}) = 0
      BY <1>3, <1>5, <3>1
    <3> QED BY <1>5, <2>1, <3>1, <3>2, NothingToSum
  <2>2. CASE N = {} /\ (accrual => Share(o) = 0)
    <3>1. \A v : Of(v, N) = {}
      BY <2>2 DEF Of
    <3> QED BY <2>2, <3>1, NothingToSum
  <2> QED BY <1>2, <2>1, <2>2
<1>7. /\ Shares(AllPending)' = Shares(AllPending) - Shares({}) + Shares(N)
      /\ Debts(AllPending)' = Debts(AllPending) - Debts({}) + Debts(N)
      /\ Shares(AllPending) \in Int /\ Debts(AllPending) \in Int
      /\ \A v : /\ Shares(Pending(v))' = Shares(Pending(v)) - Shares({}) + Shares(Of(v, N))
                /\ Debts(Pending(v))' = Debts(Pending(v)) - Debts({}) + Debts(Of(v, N))
                /\ Shares(Pending(v)) \in Int /\ Debts(Pending(v)) \in Int
  <2>1. \A v : Of(v, {}) = {}
    BY DEF Of
  <2> QED BY <1>2, <2>1, MovedSums
<1>8. \A a \in Accounts : bal'[a] = bal[a] + legs[a] /\ bal[a] \in Int /\ legs[a] \in Int
  BY <1>2, <1>3, <1>4 DEF Posted, Legs
<1>9. \A t \in DOMAIN posted' : Balanced(posted'[t])
  BY <1>2, <1>4, InvParts DEF Posted, Money
<1>10. EscrowMatchesRows'
  <2>1. EscrowMatchesRows /\ House("accrual") \in Accounts
    BY InvParts, AccountsAre DEF Money
  <2> QED BY <1>3, <1>4, <1>6, <1>7, <1>8, <2>1, NothingToSum DEF EscrowMatchesRows
<1>11. ReceivableIsOwed'
  <2>1. ReceivableIsOwed /\ House("receivable") \in Accounts \ SaleAccounts(o)
    BY InvParts, AccountsAre, AccountsApart DEF Money, SaleAccounts, Platform
  <2>2. bal'[House("receivable")] = bal[House("receivable")]
    BY <1>4, <1>8, <2>1
  <2>3. Debts(AllPending)' = Debts(AllPending) /\ Total(shortfall, Accounts)' = Total(shortfall, Accounts)
    BY <1>1, <1>6, <1>7, NothingToSum
  <2> QED BY <1>3, <2>1, <2>2, <2>3 DEF ReceivableIsOwed
<1>12. ASSUME NEW v \in Sellers PROVE SellerOK(v)'
  <2>1. SellerOK(v) /\ Earned(v) \in Accounts
    BY InvParts, AccountsAre DEF Money
  <2>2. Total(ShareOf(v), Sold(v))'
          = Total(ShareOf(v), Sold(v)) + (IF v = SellerOf[o] THEN Share(o) ELSE 0)
    BY <1>1, <1>2, SaleShares DEF legs
  <2>3. Earned(v) = Earned(SellerOf[o]) \/ (v # SellerOf[o] /\ legs[Earned(v)] = 0)
    <3>1. v # SellerOf[o] => Earned(v) \notin SaleAccounts(o)
      BY AccountsApart DEF SaleAccounts, Platform
    <3> QED BY <1>4, <2>1, <3>1
  <2>4. v # SellerOf[o] => Earned(v) # Earned(SellerOf[o])
    BY AccountsApart
  <2>5. /\ Debts(Pending(v))' = Debts(Pending(v))
        /\ Shares(Pending(v))' = Shares(Pending(v)) + (IF accrual /\ v = SellerOf[o] THEN Share(o) ELSE 0)
        /\ bal'[Earned(v)] = bal[Earned(v)] + (IF ~accrual /\ v = SellerOf[o] THEN Share(o) ELSE 0)
        /\ shortfall'[Earned(v)] = shortfall[Earned(v)] /\ shortfall[Earned(v)] \in Nat
    BY <1>1, <1>3, <1>4, <1>6, <1>7, <1>8, <2>1, <2>3, <2>4, NothingToSum
  <2>6. Owing(v)' = Owing(v) + (IF v = SellerOf[o] THEN Share(o) ELSE 0)
    BY <1>3, <1>7, <1>8, <2>1, <2>5 DEF Owing
  <2>7. Total(ShareOf(v), Sold(v)) \in Int
    BY SoldKnown
  <2> QED BY <2>1, <2>2, <2>6, <2>7 DEF SellerOK
<1>13. ASSUME NEW u \in Buyers PROVE PromoOK(u)'
  <2>1. /\ Total(AmountOf, OpenOf(u)) \in Nat /\ Refunded(Promo(u)) \in Nat
        /\ bal[Promo(u)] \in Nat /\ corrected[Promo(u)].up \in Nat /\ Promo(u) \in Accounts
    BY PromoTerms
  <2>2. legs[Promo(u)] <= 0
    <3>1. u # BuyerOf[o] => Promo(u) \notin SaleAccounts(o)
      BY AccountsApart DEF SaleAccounts, Platform
    <3> QED BY <1>4, <2>1, <3>1
  <2>3. bal'[Promo(u)] <= bal[Promo(u)] /\ bal'[Promo(u)] \in Int
    BY <1>8, <2>1, <2>2
  <2>4. OpenOf(u)' = OpenOf(u)
    BY <1>1 DEF OpenOf
  <2>5. Refunded(Promo(u))' = Refunded(Promo(u))
    <3>1. \A q \in refunds : posted'[sale'[q]] = posted[sale[q]]
      BY <1>1, <1>2, SaleStays, Known DEF legs
    <3>2. [q \in refunds |-> -posted[sale[q]][Promo(u)]]' = [q \in refunds |-> -posted[sale[q]][Promo(u)]]
      BY <1>1, <3>1
    <3> QED BY <1>1, <3>2 DEF Refunded
  <2>6. PromoOK(u) /\ corrected' = corrected
    BY <1>1, InvParts DEF Money
  <2> QED BY <2>1, <2>3, <2>4, <2>5, <2>6 DEF PromoOK
<1>14. Money'
  BY <1>9, <1>10, <1>11, <1>12, <1>13 DEF Money
<1>15. OtherTypes'
  BY <1>1, InvParts, PartiesAre DEF OtherTypes
<1>16. LedgerOK'
  BY <1>2 DEF Posted
<1> QED BY <1>0, <1>14, <1>15, <1>16, InvNext


-----------------------------------------------------------------------------
(* A refund: the rows of the order, which are its share or none. *)

(* A sale not refunded has the row it parked, and no other. *)
LEMMA SaleRowIs ==
  ASSUME IInv, NEW o \in Orders, sale[o] # Unsold, o \notin refunds
  PROVE  /\ \A q \in rows : q.order = o => q \in SaleRows(o)
         /\ \/ SaleRows(o) = {} /\ posted[SaleId(o)][House("accrual")] = 0
            \/ \E s \in rows :
                 /\ SaleRows(o) = {s} /\ s.order = o /\ s.seq = 0 /\ s.seller = SellerOf[o]
                 /\ s.amount = posted[SaleId(o)][House("accrual")] /\ s.amount > 0
                 /\ s.status \in {"pending", "drained"} /\ s \in Row
<1>1. \A r \in rows : RowOK(r) /\ r \in Row
  BY InvParts DEF Store, RowsOK
<1>2. \A q \in rows : q.order = o => q \in SaleRows(o)
  BY <1>1 DEF RowOK, SaleRows
<1>3. SaleOK(o) /\ posted[SaleId(o)][House("accrual")] \in Int
  BY SaleKnown, AccountsAre DEF Legs
<1>4. CASE SaleRows(o) = {}
  <2>1. posted[SaleId(o)][House("accrual")] = 0
    BY <1>3, <1>4 DEF SaleOK, SaleRows
  <2> QED BY <1>2, <1>4, <2>1
<1>5. CASE SaleRows(o) # {}
  <2>1. PICK s \in SaleRows(o) : TRUE
    BY <1>5
  <2>2. s \in rows /\ s.order = o /\ s.seq = 0 /\ RowOK(s) /\ s \in Row
    BY <1>1 DEF SaleRows
  <2>3. ASSUME NEW q \in SaleRows(o) PROVE q = s
    <3>1. q \in rows /\ q.order = o /\ q.seq = 0 /\ RowOK(q)
      BY <1>1 DEF SaleRows
    <3>2. KeysApart
      BY Known
    <3> QED BY <2>2, <3>1, <3>2 DEF KeysApart, RowOK
  <2>4. s.status \in {"pending", "drained"}
    BY <2>2 DEF RowOK, Row
  <2>5. SaleRows(o) = {s}
    BY <2>1, <2>3
  <2> QED BY <1>2, <2>2, <2>4, <2>5 DEF RowOK
<1> QED BY <1>4, <1>5

Taken(o) == {r \in SaleRows(o) : r.status = "pending"}
Paid(o) == {r \in SaleRows(o) : r.status = "drained"}
ByRow(o) == IF SaleRows(o) = {} THEN {} ELSE {House("accrual")}

(* A refund takes the row, or leaves a recovery row for a share that was
   drained. *)
LEMMA RefundRows ==
  ASSUME IInv, NEW o \in Orders, sale[o] # Unsold, o \notin refunds,
         rows' = (rows \ Taken(o)) \cup Settle(Taken(o), "refunded") \cup Recovery(Paid(o)),
         refunds' = refunds \cup {o}, UNCHANGED sale
  PROVE  /\ RowsMove(Taken(o), "refunded", Recovery(Paid(o)))
         /\ \A n \in Recovery(Paid(o)) : RowOK(n)' /\ n.seq # 0
         /\ \A r \in Taken(o) : r.order = o
         /\ Sum(Taken(o)) \in Nat /\ Sum(Paid(o)) \in Nat
         /\ Sum(Taken(o)) + Sum(Paid(o)) = posted[SaleId(o)][House("accrual")]
         /\ Shares(Taken(o)) = Sum(Taken(o)) /\ Debts(Taken(o)) = 0
         /\ Shares(Recovery(Paid(o))) = 0 /\ Debts(Recovery(Paid(o))) = Sum(Paid(o))
         /\ \A v : Of(v, Taken(o)) = (IF v = SellerOf[o] THEN Taken(o) ELSE {})
         /\ \A v : Of(v, Recovery(Paid(o))) = (IF v = SellerOf[o] THEN Recovery(Paid(o)) ELSE {})
         /\ ByRow(o) # {} => ByRow(o) = {House("accrual")}
         /\ ByRow(o) = {} => posted[SaleId(o)][House("accrual")] = 0
<1>1. \A q \in rows : q.order = o => q \in SaleRows(o)
  BY SaleRowIs
<1>2. CASE SaleRows(o) = {} /\ posted[SaleId(o)][House("accrual")] = 0
  <2>1. Taken(o) = {} /\ Paid(o) = {} /\ ByRow(o) = {}
    BY <1>2 DEF Taken, Paid, ByRow
  <2>2. Recovery({}) = {} /\ \A v : Of(v, {}) = {}
    BY DEF Recovery, Of
  <2>3. RowsMove({}, "refunded", {})
    BY <2>1, <2>2 DEF RowsMove
  <2>4. /\ Shares({}) = 0 /\ Debts({}) = 0 /\ Sum({}) = 0
    BY NothingToSum, SumOfNone
  <2>5. /\ Recovery(Paid(o)) = {} /\ Sum(Taken(o)) = 0 /\ Sum(Paid(o)) = 0
        /\ Shares(Taken(o)) = 0 /\ Debts(Taken(o)) = 0
        /\ Shares(Recovery(Paid(o))) = 0 /\ Debts(Recovery(Paid(o))) = 0
    BY <2>1, <2>2, <2>4
  <2>6. RowsMove(Taken(o), "refunded", Recovery(Paid(o)))
    BY <2>1, <2>2, <2>3
  <2>7. /\ \A v : Of(v, Taken(o)) = (IF v = SellerOf[o] THEN Taken(o) ELSE {})
        /\ \A v : Of(v, Recovery(Paid(o))) = (IF v = SellerOf[o] THEN Recovery(Paid(o)) ELSE {})
    BY <2>1, <2>2
  <2>8. /\ \A n \in Recovery(Paid(o)) : RowOK(n)' /\ n.seq # 0
        /\ \A r \in Taken(o) : r.order = o
    BY <2>1, <2>5
  <2> QED BY <1>2, <2>1, <2>5, <2>6, <2>7, <2>8
<1>3. ASSUME NEW s \in rows,
             SaleRows(o) = {s}, s.order = o, s.seq = 0, s.seller = SellerOf[o],
             s.amount = posted[SaleId(o)][House("accrual")], s.amount > 0,
             s.status \in {"pending", "drained"}, s \in Row
      PROVE  /\ RowsMove(Taken(o), "refunded", Recovery(Paid(o)))
             /\ \A n \in Recovery(Paid(o)) : RowOK(n)' /\ n.seq # 0
             /\ \A r \in Taken(o) : r.order = o
             /\ Sum(Taken(o)) \in Nat /\ Sum(Paid(o)) \in Nat
             /\ Sum(Taken(o)) + Sum(Paid(o)) = posted[SaleId(o)][House("accrual")]
             /\ Shares(Taken(o)) = Sum(Taken(o)) /\ Debts(Taken(o)) = 0
             /\ Shares(Recovery(Paid(o))) = 0 /\ Debts(Recovery(Paid(o))) = Sum(Paid(o))
             /\ \A v : Of(v, Taken(o)) = (IF v = SellerOf[o] THEN Taken(o) ELSE {})
             /\ \A v : Of(v, Recovery(Paid(o))) = (IF v = SellerOf[o] THEN Recovery(Paid(o)) ELSE {})
             /\ ByRow(o) = {House("accrual")}
  <2>0. s.amount \in Nat /\ ByRow(o) = {House("accrual")}
    BY <1>3 DEF Row, ByRow
  <2>1. CASE s.status = "pending"
    <3>1. Taken(o) = {s} /\ Paid(o) = {} /\ Recovery({}) = {} /\ \A v : Of(v, {}) = {}
      BY <1>3, <2>1 DEF Taken, Paid, Recovery, Of
    <3>2. RowsMove({s}, "refunded", {})
      BY <1>3, <2>1, <3>1 DEF RowsMove, AllPending
    <3>3. /\ Shares({s}) = s.amount /\ Debts({s}) = 0 /\ Sum({s}) = s.amount
          /\ \A v : Of(v, {s}) = IF s.seller = v THEN {s} ELSE {}
      BY <1>3, <2>0, OneRow, SumOfOne
    <3>4. Shares({}) = 0 /\ Debts({}) = 0 /\ Sum({}) = 0
      BY NothingToSum, SumOfNone
    <3> HIDE DEF Taken
    <3>5. /\ Sum(Taken(o)) = s.amount /\ Sum(Paid(o)) = 0 /\ Shares(Taken(o)) = s.amount
          /\ Debts(Taken(o)) = 0 /\ Shares(Recovery(Paid(o))) = 0 /\ Debts(Recovery(Paid(o))) = 0
      BY <3>1, <3>3, <3>4
    <3>6. RowsMove(Taken(o), "refunded", Recovery(Paid(o))) /\ \A r \in Taken(o) : r.order = o
      BY <1>3, <3>1, <3>2
    <3>7. Recovery(Paid(o)) = {}
      BY <3>1
    <3>8. /\ \A v : Of(v, Taken(o)) = (IF v = SellerOf[o] THEN Taken(o) ELSE {})
          /\ \A v : Of(v, Recovery(Paid(o))) = (IF v = SellerOf[o] THEN Recovery(Paid(o)) ELSE {})
      BY <1>3, <3>1, <3>3, <3>7
    <3> QED BY <1>3, <2>0, <3>5, <3>6, <3>7, <3>8
  <2>2. CASE s.status = "drained"
    <3>0. PICK n : n = [order |-> s.order, seller |-> s.seller, seq |-> s.seq + 1,
                        amount |-> -s.amount, at |-> NextAt, status |-> "pending"]
      OBVIOUS
    <3>1. Taken(o) = {} /\ Paid(o) = {s} /\ Recovery({s}) = {n} /\ \A v : Of(v, {}) = {}
      BY <1>3, <2>2, <3>0 DEF Taken, Paid, Recovery, Of
    <3>2. /\ n.order = o /\ n.seller = SellerOf[o] /\ n.seq = 1 /\ n.amount = -s.amount
          /\ n.status = "pending" /\ n.seq # 0 /\ n.status # "refunded"
      BY <1>3, <3>0
    <3>3. Fresh(n)
      <4>1. NextAt \in Nat
        BY Known, FS_CardinalityType DEF NextAt
      <4>2. s.order \in Orders /\ s.seller \in Sellers /\ -s.amount \in Int /\ s.seq + 1 \in Nat
        BY <1>3, <2>0 DEF Row
      <4> QED BY <3>0, <4>1, <4>2 DEF Fresh, Row
    <3>4. \A q \in rows : q.order = o => q.seq < 1 /\ q.status # "pending"
      BY <1>1, <1>3, <2>2
    <3>5. RowsMove({}, "refunded", {n})
      <4>1. Settle({}, "refunded") = {}
        BY DEF Settle
      <4>2. rows' = (rows \ {}) \cup Settle({}, "refunded") \cup {n}
        BY <3>1
      <4> QED BY <3>2, <3>3, <3>4, <4>2 DEF RowsMove
    <3>6. RowOK(n)'
      <4>1. n.amount < 0 /\ n.order \in refunds' /\ sale'[n.order] # Unsold
        BY <1>3, <2>0, <3>2
      <4> QED BY <3>2, <4>1 DEF RowOK
    <3>7. /\ Shares({n}) = 0 /\ Debts({n}) = s.amount
          /\ \A v : Of(v, {n}) = IF n.seller = v THEN {n} ELSE {}
      <4>1. n.amount \in Int /\ ~(n.amount > 0) /\ n.amount < 0 /\ -n.amount = s.amount
        BY <1>3, <2>0, <3>2
      <4>2. /\ Shares({n}) = (IF n.amount > 0 THEN n.amount ELSE 0)
            /\ Debts({n}) = (IF n.amount < 0 THEN -n.amount ELSE 0)
            /\ \A v : Of(v, {n}) = IF n.seller = v THEN {n} ELSE {}
        BY <4>1, OneRow
      <4> QED BY <4>1, <4>2
    <3>8. Shares({}) = 0 /\ Debts({}) = 0 /\ Sum({}) = 0 /\ Sum({s}) = s.amount
      BY <2>0, NothingToSum, SumOfNone, SumOfOne
    <3>9. Recovery(Paid(o)) = {n}
      BY <3>1
    <3>10. /\ Sum(Taken(o)) = 0 /\ Sum(Paid(o)) = s.amount /\ Shares(Taken(o)) = 0
           /\ Debts(Taken(o)) = 0 /\ Shares(Recovery(Paid(o))) = 0
           /\ Debts(Recovery(Paid(o))) = s.amount
      BY <3>1, <3>7, <3>8, <3>9
    <3>11. RowsMove(Taken(o), "refunded", Recovery(Paid(o)))
      BY <3>1, <3>5, <3>9
    <3>12. /\ \A v : Of(v, Taken(o)) = (IF v = SellerOf[o] THEN Taken(o) ELSE {})
           /\ \A v : Of(v, Recovery(Paid(o))) = (IF v = SellerOf[o] THEN Recovery(Paid(o)) ELSE {})
      BY <3>1, <3>2, <3>7, <3>9
    <3>13. /\ \A m \in Recovery(Paid(o)) : RowOK(m)' /\ m.seq # 0
           /\ \A r \in Taken(o) : r.order = o
      BY <3>1, <3>2, <3>6, <3>9
    <3> QED BY <1>3, <2>0, <3>10, <3>11, <3>12, <3>13
  <2> QED BY <1>3, <2>1, <2>2
<1> QED BY <1>2, <1>3, SaleRowIs


(* The posting of a refund: the opposite of the sale, but for what cannot be *)
(* collected, and for the share, which follows its row.                      *)
RefundOf(o, legs, byRow, x, y, short, refund) ==
  /\ legs = posted[SaleId(o)] /\ x + y = legs[House("accrual")]
  /\ byRow # {} => byRow = {House("accrual")}
  /\ byRow = {} => legs[House("accrual")] = 0
  /\ short = Uncollected(legs, byRow) /\ refund = RefundLegs(legs, byRow, x, y)

(* The legs of a refund balance, whatever it could not collect. *)
LEMMA RefundLegsAre ==
  ASSUME IInv, NEW o \in Orders, sale[o] # Unsold, NEW x \in Nat, NEW y \in Nat, NEW byRow,
         NEW legs, NEW short, NEW refund, RefundOf(o, legs, byRow, x, y, short, refund)
  PROVE  /\ refund \in Legs /\ Balanced(refund)
         /\ short \in [Accounts -> Nat] /\ Total(short, Accounts) \in Nat
         /\ \A a \in Accounts : legs[a] \in Int
         /\ refund[House("accrual")] = -x
         /\ refund[House("receivable")] = y + Total(short, Accounts)
         /\ \A a \in Accounts \ {House("accrual"), House("receivable")} : refund[a] = short[a] - legs[a]
         /\ \A a \in Accounts \ SaleAccounts(o) : short[a] = 0 /\ legs[a] = 0
         /\ legs[Promo(BuyerOf[o])] <= 0 /\ short[Promo(BuyerOf[o])] = 0
<1> DEFINE accr == House("accrual")
           rec == House("receivable")
<1>0. /\ legs = posted[SaleId(o)] /\ x + y = posted[SaleId(o)][House("accrual")]
      /\ byRow # {} => byRow = {House("accrual")}
      /\ byRow = {} => posted[SaleId(o)][House("accrual")] = 0
      /\ short = Uncollected(legs, byRow) /\ refund = RefundLegs(legs, byRow, x, y)
  BY DEF RefundOf
<1> USE <1>0
<1>1. SaleOK(o) /\ legs \in Legs /\ Balanced(legs) /\ bal \in [Accounts -> Int]
  BY SaleKnown, InvParts, Known DEF Money
<1>2. /\ accr \in Accounts \ (Usd \cup DebitNormal) /\ rec \in (Accounts \cap DebitNormal) \ Usd
      /\ accr # rec /\ rec \notin SaleAccounts(o) /\ Usd \subseteq Accounts \cap DebitNormal
      /\ Usd \cap SaleAccounts(o) = {}
  <2>1. rec \notin SaleAccounts(o) /\ Usd \cap SaleAccounts(o) = {}
    BY AccountsApart DEF SaleAccounts, Platform, Usd
  <2> QED BY <2>1, AccountsAre
<1>3. /\ \A a \in Accounts : legs[a] \in Int
      /\ \A a \in Accounts \ SaleAccounts(o) : legs[a] = 0
      /\ legs[accr] = x + y
      /\ \A a \in {Promo(BuyerOf[o]), House("promo_float"), Spendable(BuyerOf[o])} : legs[a] <= 0
  BY <1>1 DEF SaleOK, Legs
<1> HIDE DEF accr, rec
<1>4. ASSUME NEW a \in Accounts, legs[a] > 0 PROVE Covered(a, legs[a]) \in Nat /\ Covered(a, legs[a]) <= legs[a]
  <2>1. bal[a] \in Int /\ legs[a] \in Int
    BY <1>1, <1>3
  <2>2. Positive(bal[a]) \in Nat
    BY <2>1, PositiveIs
  <2>3. Covered(a, legs[a]) = IF legs[a] <= Positive(bal[a]) THEN legs[a] ELSE Positive(bal[a])
    BY <2>1, <2>2, MinOfTwo DEF Covered
  <2> QED BY <1>4, <2>1, <2>2, <2>3
<1>5. ASSUME NEW a \in Accounts
      PROVE  /\ short[a] \in Nat
             /\ short[a] = IF legs[a] > 0 /\ a \notin byRow THEN legs[a] - Covered(a, legs[a]) ELSE 0
             /\ legs[a] <= 0 => short[a] = 0
  BY <1>3, <1>4 DEF Uncollected
<1>6. short \in [Accounts -> Nat]
  <2>1. short = [a \in Accounts |-> IF legs[a] > 0 /\ a \notin byRow THEN legs[a] - Covered(a, legs[a]) ELSE 0]
    BY DEF Uncollected
  <2> QED BY <1>5, <2>1
<1>7. short[accr] = 0 /\ Undo(legs, byRow)[accr] = 0
  <2>1. CASE byRow = {}
    <3>1. legs[accr] = 0
      BY <2>1 DEF accr
    <3> QED BY <1>2, <1>5, <2>1, <3>1 DEF Undo
  <2>2. CASE byRow = {accr}
    BY <1>2, <1>5, <2>2 DEF Undo
  <2> QED BY <2>1, <2>2 DEF accr
<1>8. ASSUME NEW a \in Accounts \ {accr}
      PROVE  Undo(legs, byRow)[a] = short[a] - legs[a]
  <2>1. a \notin byRow
    BY DEF accr
  <2>2. CASE legs[a] > 0
    BY <1>3, <1>4, <1>5, <2>1, <2>2 DEF Undo
  <2>3. CASE ~(legs[a] > 0)
    BY <1>3, <1>5, <2>1, <2>3 DEF Undo
  <2> QED BY <2>2, <2>3
<1>9. Total(short, Accounts) \in Nat
  BY <1>5, AccountsFinite, TotalNat
<1> DEFINE u == Total(short, Accounts)
<1>10. legs[rec] = 0 /\ short[rec] = 0
  BY <1>2, <1>3, <1>5
<1>11. /\ refund[accr] = -x /\ refund[rec] = y + u
       /\ \A a \in Accounts \ {accr, rec} : refund[a] = short[a] - legs[a]
       /\ refund \in Legs
  <2>1. refund = [Undo(legs, byRow) EXCEPT ![accr] = @ - x, ![rec] = @ + y + u]
    BY DEF RefundLegs, accr, rec
  <2>2. DOMAIN Undo(legs, byRow) = Accounts /\ \A a \in Accounts : Undo(legs, byRow)[a] \in Int
    <3>1. DOMAIN Undo(legs, byRow) = Accounts
      BY DEF Undo
    <3> QED BY <1>3, <1>5, <1>7, <1>8, <3>1
  <2>3. Undo(legs, byRow)[rec] = 0
    BY <1>2, <1>8, <1>10
  <2>4. u \in Nat
    BY <1>9
  <2>5. DOMAIN refund = Accounts
    BY <2>1, <2>2
  <2>6. refund[accr] = -x
    BY <1>2, <1>7, <2>1, <2>2
  <2>7. refund[rec] = y + u
    <3> HIDE DEF u
    <3> QED BY <1>2, <2>1, <2>2, <2>3, <2>4
  <2>8. \A a \in Accounts \ {accr, rec} : refund[a] = Undo(legs, byRow)[a]
    BY <1>2, <2>1, <2>2
  <2>9. \A a \in Accounts : refund[a] \in Int
    BY <1>2, <2>2, <2>4, <2>6, <2>7, <2>8
  <2>10. refund = [a \in Accounts |-> refund[a]]
    BY <2>1, <2>5
  <2> QED BY <1>8, <2>6, <2>7, <2>8, <2>9, <2>10 DEF Legs
<1>12. \A a \in Accounts \ SaleAccounts(o) : short[a] = 0 /\ legs[a] = 0
  BY <1>3, <1>5
<1>13. legs[Promo(BuyerOf[o])] <= 0 /\ short[Promo(BuyerOf[o])] = 0
  BY <1>3, <1>5, SaleAre
<1>14. \A a \in DebitNormal : short[a] = 0
  <2>1. ASSUME NEW a \in DebitNormal PROVE short[a] = 0
    <3>0. a \in Accounts
      BY DEF DebitNormal, Accounts, Platform
    <3>1. CASE a \in SaleAccounts(o)
      <4>1. a = House("promo_float")
        BY <3>1, SaleAre DEF SaleAccounts
      <4> QED BY <1>3, <1>5, <3>0, <4>1
    <3>2. CASE a \notin SaleAccounts(o)
      BY <1>12, <3>0, <3>2
    <3> QED BY <3>1, <3>2
  <2> QED BY <2>1
<1>15. Balanced(refund)
  <2> DEFINE h == [a \in Accounts |-> -legs[a]]
             m == [a \in Accounts |-> short[a] - legs[a]]
             m2 == [a \in Accounts |-> IF a = accr THEN m[a] + y ELSE m[a]]
  <2>1. h \in Legs /\ m \in Legs /\ m2 \in Legs
    BY <1>3, <1>5 DEF Legs
  <2>2. \A a \in Accounts : h[a] = -legs[a] /\ m[a] = short[a] - legs[a]
    OBVIOUS
  <2>3. OneMore(m, m2, accr, y)
    BY DEF OneMore
  <2>4. OneMore(m2, refund, rec, y + u)
    <3>1. ASSUME NEW a \in Accounts
          PROVE  refund[a] = IF a = rec THEN m2[a] + (y + u) ELSE m2[a]
      <4>1. u \in Nat
        BY <1>9
      <4> HIDE DEF u
      <4>2. CASE a = accr
        BY <1>2, <1>3, <1>7, <1>11, <2>2, <4>2
      <4>3. CASE a = rec
        BY <1>2, <1>3, <1>10, <1>11, <2>2, <4>1, <4>3
      <4>4. CASE a # accr /\ a # rec
        BY <1>11, <2>2, <4>4
      <4> QED BY <4>2, <4>3, <4>4
    <3> QED BY <3>1 DEF OneMore
  <2> HIDE DEF h, m, m2, u
  <2>5. Balanced(h)
    BY <1>1, <2>1, <2>2, OppositeBalanced
  <2>6. ASSUME NEW S \in {Usd, Accounts \ Usd} PROVE Total(Signed(refund), S) = 0
    <3>0. S \in SUBSET Accounts
      BY <1>2
    <3>1. Total(Signed(h), S) = 0
      BY <2>1, <2>5, BalancedSigned
    <3>2. Total(Signed(m), S) = Total(Signed(h), S) + Total(short, S)
      <4>1. IsFiniteSet(S) /\ Ints(Signed(h), S) /\ Ints(short, S)
        BY <1>5, <2>1, <3>0, SignedInts, PartOfAccounts DEF Ints
      <4>2. ASSUME NEW a \in S PROVE Signed(m)[a] = Signed(h)[a] + short[a]
        <5>1. a \in Accounts /\ m[a] = short[a] + h[a] /\ h[a] \in Int /\ short[a] \in Int
          BY <1>3, <1>5, <2>2, <3>0
        <5>2. Signed(m)[a] = (IF a \in DebitNormal THEN -m[a] ELSE m[a])
              /\ Signed(h)[a] = (IF a \in DebitNormal THEN -h[a] ELSE h[a])
          BY <5>1 DEF Signed
        <5> QED BY <1>14, <5>1, <5>2
      <4> QED BY <4>1, <4>2, TotalPlus
    <3>3. Total(short, S) = IF S = Usd THEN 0 ELSE u
      <4>1. IsFiniteSet(Usd) /\ IsFiniteSet(Accounts \ Usd)
        BY <1>2, AccountsFinite, FS_Subset
      <4>2. Total(short, Usd) = 0
        <5>1. \A a \in Usd : short[a] = 0
          BY <1>2, <1>14
        <5> QED BY <4>1, <5>1, TotalZero
      <4>3. Accounts = Usd \cup (Accounts \ Usd) /\ Usd \cap (Accounts \ Usd) = {}
        BY <1>2
      <4>4. Ints(short, Usd) /\ Ints(short, Accounts \ Usd)
        BY <1>2, <1>5 DEF Ints
      <4>5. Total(short, Usd \cup (Accounts \ Usd)) = Total(short, Usd) + Total(short, Accounts \ Usd)
        BY <4>1, <4>3, <4>4, TotalUnion
      <4>6. Total(short, Accounts \ Usd) \in Int
        BY <4>1, <4>4, TotalType
      <4>6a. Total(short, Accounts) = Total(short, Usd) + Total(short, Accounts \ Usd)
        BY <4>3, <4>5
      <4>7. Total(short, Accounts \ Usd) = u
        BY <4>2, <4>6, <4>6a DEF u
      <4> QED BY <4>2, <4>7
    <3>4. Total(Signed(m2), S) = Total(Signed(m), S)
            + (IF accr \in S THEN IF accr \in DebitNormal THEN -y ELSE y ELSE 0)
      BY <1>2, <2>1, <2>3, <3>0, OneLeg
    <3>5. u \in Nat /\ y + u \in Int
      BY <1>9 DEF u
    <3>6. Total(Signed(refund), S) = Total(Signed(m2), S)
            + (IF rec \in S THEN IF rec \in DebitNormal THEN -(y + u) ELSE y + u ELSE 0)
      BY <1>2, <1>11, <2>1, <2>4, <3>0, <3>5, OneLeg
    <3>7. Usd # Accounts \ Usd
      BY <1>2
    <3>8. CASE S = Usd
      BY <1>2, <3>1, <3>2, <3>3, <3>4, <3>6, <3>8
    <3>9. CASE S = Accounts \ Usd
      BY <1>2, <3>1, <3>2, <3>3, <3>4, <3>5, <3>6, <3>7, <3>9
    <3> QED BY <3>8, <3>9
  <2> QED BY <1>11, <2>6, BalancedSigned
<1> QED BY <1>3, <1>6, <1>9, <1>11, <1>12, <1>13, <1>15 DEF accr, rec


(* A refund keeps the invariant. *)
LEMMA RefundKeeps ==
  ASSUME IInv, NEW o \in Orders, Refund(o)
  PROVE  IInv'
<1> DEFINE legs == posted[sale[o]]
           x == Sum(Taken(o))
           y == Sum(Paid(o))
           short == Uncollected(legs, ByRow(o))
           refund == RefundLegs(legs, ByRow(o), x, y)
           txn == <<"refund", o>>
           A == Taken(o)
           N == Recovery(Paid(o))
<1>0. /\ rows \subseteq Row /\ SalesOK /\ RowsOK /\ DrainsOK /\ KeysApart /\ SaleTypes
  BY InvParts DEF Store
<1>1. /\ sale[o] # Unsold /\ OrderKey(o) \notin keys
      /\ keys' = keys \cup {OrderKey(o)} /\ Post(txn, refund)
      /\ rows' = (rows \ A) \cup Settle(A, "refunded") \cup N
      /\ owned' = Revoked(o) /\ refunds' = refunds \cup {o}
      /\ shortfall' = [a \in Accounts |-> shortfall[a] + short[a]]
      /\ UNCHANGED <<sale, grants, sweep, accrual, corrected, count>>
  BY DEF Refund, Taken, Paid, ByRow
<1>2. o \notin refunds /\ legs = posted[SaleId(o)] /\ SaleId(o) \in DOMAIN posted /\ sale[o] = SaleId(o)
  BY <1>0, <1>1, SaleKnown DEF SalesOK
<1>3. /\ RowsMove(A, "refunded", N)
      /\ \A n \in N : RowOK(n)' /\ n.seq # 0
      /\ \A r \in A : r.order = o
      /\ x \in Nat /\ y \in Nat
      /\ x + y = posted[SaleId(o)][House("accrual")]
      /\ Shares(A) = x /\ Debts(A) = 0 /\ Shares(N) = 0 /\ Debts(N) = y
      /\ \A v : Of(v, A) = (IF v = SellerOf[o] THEN A ELSE {})
      /\ \A v : Of(v, N) = (IF v = SellerOf[o] THEN N ELSE {})
      /\ ByRow(o) # {} => ByRow(o) = {House("accrual")}
      /\ ByRow(o) = {} => posted[SaleId(o)][House("accrual")] = 0
  BY <1>1, <1>2, RefundRows
<1> HIDE DEF x, y, A, N
<1>4. /\ refund \in Legs /\ Balanced(refund)
      /\ short \in [Accounts -> Nat] /\ Total(short, Accounts) \in Nat
      /\ \A a \in Accounts : legs[a] \in Int
      /\ refund[House("accrual")] = -x
      /\ refund[House("receivable")] = y + Total(short, Accounts)
      /\ \A a \in Accounts \ {House("accrual"), House("receivable")} : refund[a] = short[a] - legs[a]
      /\ \A a \in Accounts \ SaleAccounts(o) : short[a] = 0 /\ legs[a] = 0
      /\ legs[Promo(BuyerOf[o])] <= 0 /\ short[Promo(BuyerOf[o])] = 0
  <2>1. PICK b, l, s, r : b = ByRow(o) /\ l = legs /\ s = short /\ r = refund
    OBVIOUS
  <2>2. RefundOf(o, l, b, x, y, s, r) /\ x \in Nat /\ y \in Nat /\ sale[o] # Unsold
    BY <1>1, <1>2, <1>3, <2>1 DEF RefundOf
  <2> HIDE DEF legs, short, refund
  <2>3. /\ r \in Legs /\ Balanced(r)
        /\ s \in [Accounts -> Nat] /\ Total(s, Accounts) \in Nat
        /\ \A a \in Accounts : l[a] \in Int
        /\ r[House("accrual")] = -x
        /\ r[House("receivable")] = y + Total(s, Accounts)
        /\ \A a \in Accounts \ {House("accrual"), House("receivable")} : r[a] = s[a] - l[a]
        /\ \A a \in Accounts \ SaleAccounts(o) : s[a] = 0 /\ l[a] = 0
        /\ l[Promo(BuyerOf[o])] <= 0 /\ s[Promo(BuyerOf[o])] = 0
    BY <2>2, RefundLegsAre
  <2> QED BY <2>1, <2>3
<1>5. legs[House("accrual")] = x + y
  BY <1>2, <1>3
<1>6. txn[1] = "refund" /\ txn # SaleId(o) /\ \A q : SaleId(q) # txn
  BY DEF SaleId
<1>7. \A q \in Orders : sale[q] # Unsold => posted[sale[q]] = posted[SaleId(q)] /\ SaleId(q) \in DOMAIN posted
  BY SaleKnown
<1>8. Posted(txn, refund) /\ bal \in [Accounts -> Int] /\ shortfall \in [Accounts -> Nat]
  <2> HIDE DEF refund, txn
  <2> QED BY <1>1, <1>4, PostOne, InvParts, Known
<1>8a. legs = posted[sale[o]]
  OBVIOUS
<1> HIDE DEF legs, short, refund, txn
<1>9. SalesStay /\ \A q \in Orders : sale[q] # Unsold => posted'[sale'[q]] = posted[sale[q]]
  <2>1. ASSUME NEW q \in Orders, sale[q] # Unsold
        PROVE  /\ SaleId(q) \in DOMAIN posted' /\ posted'[SaleId(q)] = posted[SaleId(q)]
               /\ posted'[sale'[q]] = posted[sale[q]]
    <3>1. SaleId(q) \in DOMAIN posted /\ sale[q] = SaleId(q) /\ SaleId(q) # txn
      BY <1>6, <2>1, SaleKnown
    <3> QED BY <1>1, <1>8, <3>1 DEF Posted
  <2> QED BY <1>1, <2>1 DEF SalesStay
<1>10. /\ RowsOK' /\ KeysApart' /\ rows' \subseteq Row
       /\ \A q \in Orders : sale[q] # Unsold => SaleOK(q)'
       /\ \A t \in DOMAIN posted : t[1] = "drain" => DrainKnown(t)'
  <2>1. \A r \in A : r.order \in refunds'
    BY <1>1, <1>3
  <2>2. \A n \in N : RowOK(n)' /\ (n.seq = 0 => sale[n.order] = Unsold)
    BY <1>3
  <2> QED BY <1>0, <1>3, <1>9, <2>1, <2>2, MovedStore
<1>11. Store'
  <2>1. SalesOK'
    BY <1>0, <1>1, <1>10 DEF SalesOK
  <2>2. DrainsOK'
    BY <1>6, <1>8, <1>10 DEF DrainsOK, DrainKnown, Posted
  <2> QED BY <1>10, <2>1, <2>2 DEF Store
<1>12. SaleTypes'
  BY <1>0, <1>1, <1>8 DEF SaleTypes, Posted
<1>13. OtherTypes'
  <2>1. shortfall' \in [Accounts -> Nat]
    BY <1>1, <1>4, <1>8
  <2> QED BY <1>1, <2>1, InvParts DEF OtherTypes, Revoked
<1>14. \A t \in DOMAIN posted' : Balanced(posted'[t])
  BY <1>4, <1>8, InvParts DEF Posted, Money
<1>15. /\ Shares(AllPending)' = Shares(AllPending) - Shares(A) + Shares(N)
       /\ Debts(AllPending)' = Debts(AllPending) - Debts(A) + Debts(N)
       /\ Shares(AllPending) \in Int /\ Debts(AllPending) \in Int
       /\ \A v : /\ Shares(Pending(v))' = Shares(Pending(v)) - Shares(Of(v, A)) + Shares(Of(v, N))
                 /\ Debts(Pending(v))' = Debts(Pending(v)) - Debts(Of(v, A)) + Debts(Of(v, N))
                 /\ Shares(Pending(v)) \in Int /\ Debts(Pending(v)) \in Int
  BY <1>3, MovedSums
<1>16. \A a \in Accounts : /\ bal'[a] = bal[a] + refund[a] /\ bal[a] \in Int
                           /\ ByOperators(a) \in Int /\ ByOperators(a)' = ByOperators(a)
                           /\ shortfall'[a] = shortfall[a] + short[a]
                           /\ shortfall[a] \in Nat /\ short[a] \in Nat
  BY <1>1, <1>4, <1>8, Known DEF Posted, ByOperators
<1>17. EscrowMatchesRows'
  <2>1. EscrowMatchesRows /\ House("accrual") \in Accounts
    BY InvParts, AccountsAre DEF Money
  <2> QED BY <1>3, <1>4, <1>15, <1>16, <2>1 DEF EscrowMatchesRows
<1>18. ReceivableIsOwed'
  <2>1. ReceivableIsOwed /\ House("receivable") \in Accounts
    BY InvParts, AccountsAre DEF Money
  <2>2. Total(shortfall', Accounts) = Total(shortfall, Accounts) + Total(short, Accounts)
        /\ Total(shortfall, Accounts) \in Int
    <3>1. Ints(shortfall, Accounts) /\ Ints(short, Accounts) /\ Total(shortfall, Accounts) \in Int
      BY <1>8, <1>16, ShortfallInts DEF Ints
    <3> QED BY <1>16, <3>1, AccountsFinite, TotalPlus
  <2>3. Debts(AllPending)' = Debts(AllPending) + y
    BY <1>3, <1>15
  <2>4. bal'[House("receivable")] = bal[House("receivable")] + y + Total(short, Accounts)
    BY <1>3, <1>4, <1>16, <2>1
  <2> QED BY <1>3, <1>4, <1>15, <1>16, <2>1, <2>2, <2>3, <2>4 DEF ReceivableIsOwed
<1>19. ASSUME NEW v \in Sellers PROVE SellerOK(v)'
  <2>1. SellerOK(v) /\ Earned(v) \in Accounts /\ Earned(v) # House("accrual") /\ Earned(v) # House("receivable")
    BY InvParts, AccountsAre, AccountsApart DEF Money, Platform
  <2>2. /\ Sold(v) \in SUBSET Orders /\ IsFiniteSet(Sold(v))
        /\ Ints(ShareOf(v), Sold(v)) /\ Total(ShareOf(v), Sold(v)) \in Int
    BY SoldKnown
  <2>3. Sold(v)' = Sold(v) \ {o}
    BY <1>1 DEF Sold
  <2> DEFINE f == ShareOf(v)
             g == ShareOf(v)'
  <2>4. g = [q \in Sold(v) \ {o} |-> posted'[sale'[q]][House("accrual")] + posted'[sale'[q]][Earned(v)]]
    BY <2>3 DEF ShareOf
  <2>5. \A q \in Sold(v) \ {o} : g[q] = f[q]
    BY <1>9, <2>4 DEF ShareOf, Sold
  <2>6. Total(ShareOf(v), Sold(v))' = Total(g, Sold(v) \ {o})
    BY <2>3
  <2>7. IsFiniteSet(Sold(v) \ {o}) /\ Ints(f, Sold(v) \ {o})
    BY <2>2, FS_Subset DEF Ints
  <2>8. o \in Sold(v) => f[o] = legs[House("accrual")] + legs[Earned(v)]
    BY <1>8a DEF ShareOf
  <2> HIDE DEF f, g
  <2>9. Total(g, Sold(v) \ {o}) = Total(f, Sold(v) \ {o})
    BY <2>5, <2>7, TotalSame
  <2>10. refund[Earned(v)] = short[Earned(v)] - legs[Earned(v)] /\ legs[Earned(v)] \in Int
    BY <1>4, <2>1
  <2>11. o \in Sold(v) <=> v = SellerOf[o]
    BY <1>1, <1>2 DEF Sold
  <2>12. CASE v = SellerOf[o]
    <3>1. Total(f, Sold(v)) = f[o] + Total(f, Sold(v) \ {o})
      BY <2>2, <2>11, <2>12, TotalRemove DEF f
    <3>2. Total(f, Sold(v) \ {o}) \in Int
      BY <2>7, TotalType
    <3>3. Total(ShareOf(v), Sold(v))' = Total(ShareOf(v), Sold(v)) - (x + y) - legs[Earned(v)]
      BY <1>3, <1>5, <2>6, <2>8, <2>9, <2>10, <2>11, <2>12, <3>1, <3>2 DEF f
    <3>4. Shares(Pending(v))' = Shares(Pending(v)) - x /\ Debts(Pending(v))' = Debts(Pending(v)) + y
      BY <1>3, <1>15, <2>12
    <3>5. Owing(v)' = Owing(v) - (x + y) - legs[Earned(v)]
      BY <1>3, <1>15, <1>16, <2>1, <2>10, <3>4 DEF Owing
    <3> QED BY <2>1, <3>3, <3>5 DEF SellerOK
  <2>13. CASE v # SellerOf[o]
    <3>1. Sold(v) \ {o} = Sold(v)
      BY <2>11, <2>13
    <3>2. Total(ShareOf(v), Sold(v))' = Total(ShareOf(v), Sold(v))
      BY <2>6, <2>9, <3>1 DEF f
    <3>3. Earned(v) \notin SaleAccounts(o)
      BY <2>13, AccountsApart DEF SaleAccounts, Platform
    <3>4. short[Earned(v)] = 0 /\ refund[Earned(v)] = 0
      BY <1>4, <2>1, <2>10, <3>3
    <3>5. Shares(Pending(v))' = Shares(Pending(v)) /\ Debts(Pending(v))' = Debts(Pending(v))
      <4>1. Of(v, A) = {} /\ Of(v, N) = {} /\ Shares({}) = 0 /\ Debts({}) = 0
        BY <1>3, <2>13, NothingToSum
      <4>2. /\ Shares(Pending(v))' = Shares(Pending(v)) - Shares({}) + Shares({})
            /\ Debts(Pending(v))' = Debts(Pending(v)) - Debts({}) + Debts({})
            /\ Shares(Pending(v)) \in Int /\ Debts(Pending(v)) \in Int
        BY <1>15, <4>1
      <4> QED BY <4>1, <4>2
    <3>6. Owing(v)' = Owing(v)
      BY <1>15, <1>16, <2>1, <3>4, <3>5 DEF Owing
    <3> QED BY <2>1, <3>2, <3>6 DEF SellerOK
  <2> QED BY <2>12, <2>13
<1>20. ASSUME NEW u \in Buyers PROVE PromoOK(u)'
  <2>1. /\ Total(AmountOf, OpenOf(u)) \in Nat /\ Refunded(Promo(u)) \in Nat
        /\ bal[Promo(u)] \in Nat /\ corrected[Promo(u)].up \in Nat /\ Promo(u) \in Accounts
        /\ Promo(u) # House("accrual") /\ Promo(u) # House("receivable")
    BY PromoTerms, AccountsApart DEF Platform
  <2> DEFINE f == [q \in refunds |-> -posted[sale[q]][Promo(u)]]
             g == [q \in refunds \cup {o} |-> -posted'[sale'[q]][Promo(u)]]
  <2>2. Refunded(Promo(u)) = Total(f, refunds) /\ Refunded(Promo(u))' = Total(g, refunds \cup {o})
    BY <1>1 DEF Refunded
  <2>3. ASSUME NEW q \in refunds PROVE g[q] = f[q] /\ f[q] \in Int
    <3>1. q \in Orders /\ sale[q] # Unsold
      BY Known
    <3>2. posted'[sale'[q]] = posted[sale[q]] /\ posted[sale[q]][Promo(u)] \in Int
      BY <1>9, <2>1, <3>1, SaleKnown
    <3> QED BY <3>2
  <2>4. g[o] = -legs[Promo(u)] /\ g[o] \in Int /\ legs[Promo(u)] \in Int
    BY <1>1, <1>4, <1>8a, <1>9, <2>1
  <2> HIDE DEF f, g
  <2>5. IsFiniteSet(refunds) /\ Ints(g, refunds) /\ Ints(f, refunds)
    BY <2>3, Known DEF Ints
  <2>6. Total(g, refunds \cup {o}) = Total(g, refunds) + g[o]
    BY <1>2, <2>4, <2>5, TotalAdd
  <2>7. Total(g, refunds) = Total(f, refunds)
    BY <2>3, <2>5, TotalSame
  <2>8. refund[Promo(u)] = short[Promo(u)] - legs[Promo(u)] /\ short[Promo(u)] = 0
    <3>1. CASE u = BuyerOf[o]
      BY <1>4, <2>1, <3>1
    <3>2. CASE u # BuyerOf[o]
      <4>1. Promo(u) \notin SaleAccounts(o)
        BY <3>2, AccountsApart DEF SaleAccounts, Platform
      <4> QED BY <1>4, <2>1, <4>1
    <3> QED BY <3>1, <3>2
  <2>9. bal'[Promo(u)] = bal[Promo(u)] - legs[Promo(u)]
    BY <1>16, <2>1, <2>4, <2>8
  <2>10. Refunded(Promo(u))' = Refunded(Promo(u)) - legs[Promo(u)]
    BY <2>1, <2>2, <2>4, <2>6, <2>7
  <2>11. OpenOf(u)' = OpenOf(u) /\ corrected' = corrected /\ PromoOK(u)
    BY <1>1, InvParts DEF OpenOf, Money
  <2> QED BY <2>1, <2>4, <2>9, <2>10, <2>11 DEF PromoOK
<1>21. Money'
  BY <1>14, <1>17, <1>18, <1>19, <1>20 DEF Money
<1>22. LedgerOK'
  BY <1>8 DEF Posted
<1> QED BY <1>10, <1>11, <1>12, <1>13, <1>21, <1>22, InvNext


-----------------------------------------------------------------------------
(* How a drain repays debts: those it consumes are the oldest, all of them are *)
(* repaid but for the last, and what is left of that is the residual.          *)

(* More debts sum to less. *)
LEMMA DebtSums ==
  ASSUME NEW debts, Amounts(debts), \A r \in debts : r.amount < 0
  PROVE  /\ \A T \in SUBSET debts : Sum(T) \in Int /\ Sum(T) <= 0
         /\ \A U \in SUBSET debts : \A T \in SUBSET U : Sum(U) <= Sum(T)
         /\ \A T \in SUBSET debts, r \in debts : r \notin T => Sum(T \cup {r}) = Sum(T) + r.amount
<1> DEFINE f == Amt(debts)
<1>1. \A r \in debts : f[r] = r.amount /\ r.amount \in Int
  BY DEF Amounts, Amt
<1>2. \A T \in SUBSET debts : Sum(T) = Total(f, T) /\ Sum(T) \in Int /\ IsFiniteSet(T) /\ Ints(f, T)
  BY SumWithin DEF Amounts
<1> HIDE DEF f
<1>3. ASSUME NEW T \in SUBSET debts PROVE Sum(T) <= 0
  <2> DEFINE z == [r \in T |-> 0]
  <2>1. Ints(z, T) /\ \A r \in T : f[r] <= z[r]
    BY <1>1 DEF Ints
  <2>2. Total(z, T) = 0
    BY <1>2, TotalZero
  <2> HIDE DEF z
  <2>3. Total(f, T) <= Total(z, T)
    BY <1>2, <2>1, TotalLeq
  <2> QED BY <1>2, <2>2, <2>3
<1>4. ASSUME NEW U \in SUBSET debts, NEW T \in SUBSET U PROVE Sum(U) <= Sum(T)
  <2>1. T \in SUBSET debts /\ U \ T \in SUBSET debts /\ T \cup (U \ T) = U /\ T \cap (U \ T) = {}
    OBVIOUS
  <2>2. Total(f, T \cup (U \ T)) = Total(f, T) + Total(f, U \ T)
    BY <1>2, <2>1, TotalUnion
  <2>3. Sum(U) = Sum(T) + Sum(U \ T) /\ Sum(U \ T) <= 0 /\ Sum(U \ T) \in Int /\ Sum(T) \in Int
    BY <1>2, <1>3, <2>1, <2>2
  <2> QED BY <2>3
<1>5. ASSUME NEW T \in SUBSET debts, NEW r \in debts, r \notin T
      PROVE  Sum(T \cup {r}) = Sum(T) + r.amount
  <2>1. Total(f, T \cup {r}) = Total(f, T) + f[r]
    BY <1>1, <1>2, <1>5, TotalAdd
  <2>2. T \cup {r} \in SUBSET debts
    OBVIOUS
  <2> QED BY <1>1, <1>2, <2>1, <2>2
<1> QED BY <1>2, <1>3, <1>4, <1>5

LeftOf(m, e) == [m EXCEPT !.seq = @ + 1, !.at = NextAt, !.status = "pending", !.amount = e]

Splits(debts, parked, C, R) ==
  /\ debts \subseteq Row /\ Amounts(debts) /\ \A r \in debts : r.amount < 0
  /\ \A r, q \in debts : r.at = q.at => r = q
  /\ parked \in Nat /\ parked > 0
  /\ C = Consumed(debts, parked) /\ R = Residual(debts, parked)

(* The debts a drain takes, with what it leaves of the last, are what it
   recovers. *)
LEMMA Repaid ==
  ASSUME NEW debts, NEW parked, NEW C, NEW R, Splits(debts, parked, C, R)
  PROVE  /\ C \subseteq debts /\ Sum(C) \in Int
         /\ \/ R = {} /\ Min({parked, -Sum(debts)}) = -Sum(C)
            \/ \E m \in C, e \in Int : /\ e < 0 /\ R = {LeftOf(m, e)}
                                      /\ Min({parked, -Sum(debts)}) = e - Sum(C)
         /\ Min({parked, -Sum(debts)}) \in Nat
<1> DEFINE Prior(r) == {q \in debts : q.at < r.at}
           P == [r \in debts |-> parked + Sum(Prior(r))]
           at == [r \in debts |-> r.at]
<1>0. /\ debts \subseteq Row /\ Amounts(debts) /\ \A r \in debts : r.amount < 0
      /\ \A r, q \in debts : r.at = q.at => r = q
      /\ parked \in Nat /\ parked > 0
      /\ C = Consumed(debts, parked) /\ R = Residual(debts, parked)
  BY DEF Splits
<1> USE <1>0
<1>1. /\ \A T \in SUBSET debts : Sum(T) \in Int /\ Sum(T) <= 0
      /\ \A U \in SUBSET debts : \A T \in SUBSET U : Sum(U) <= Sum(T)
      /\ \A T \in SUBSET debts, r \in debts : r \notin T => Sum(T \cup {r}) = Sum(T) + r.amount
  BY DebtSums
<1>2. \A r \in debts : r.at \in Nat /\ r.amount \in Int /\ IsFiniteSet(debts)
  BY DEF Row, Amounts
<1>3. ASSUME NEW r \in debts
      PROVE  /\ {q \in debts : Before(q, r)} = Prior(r)
             /\ Prior(r) \in SUBSET debts /\ P[r] = parked + Sum(Prior(r)) /\ P[r] \in Int
  <2>1. \A q \in debts : Before(q, r) <=> q.at < r.at
    BY <1>2 DEF Before
  <2> QED BY <1>1, <2>1
<1>4. C = {r \in debts : P[r] > 0}
  BY <1>3 DEF Consumed
<1>5. R = {LeftOf(r, P[r] + r.amount) : r \in {r \in debts : P[r] > 0 /\ P[r] + r.amount < 0}}
  <2>1. R = {[r EXCEPT !.seq = @ + 1, !.at = NextAt, !.status = "pending",
                !.amount = parked + Sum({q \in debts : Before(q, r)}) + r.amount] :
               r \in {r \in debts : /\ parked + Sum({q \in debts : Before(q, r)}) > 0
                                    /\ parked + Sum({q \in debts : Before(q, r)}) + r.amount < 0}}
    BY DEF Residual
  <2>2. \A r \in debts : parked + Sum({q \in debts : Before(q, r)}) = P[r]
    BY <1>3
  <2>3. {r \in debts : /\ parked + Sum({q \in debts : Before(q, r)}) > 0
                       /\ parked + Sum({q \in debts : Before(q, r)}) + r.amount < 0}
          = {r \in debts : P[r] > 0 /\ P[r] + r.amount < 0}
    BY <2>2
  <2> HIDE DEF P
  <2> QED BY <2>1, <2>2, <2>3 DEF LeftOf
<1>6. \A r, q \in debts : q.at < r.at => P[r] <= P[q] + q.amount
  <2>1. ASSUME NEW r \in debts, NEW q \in debts, q.at < r.at PROVE P[r] <= P[q] + q.amount
    <3>1. Prior(q) \cup {q} \in SUBSET Prior(r) /\ q \notin Prior(q)
      BY <1>2, <2>1
    <3>2. Sum(Prior(r)) <= Sum(Prior(q) \cup {q}) /\ Sum(Prior(q) \cup {q}) = Sum(Prior(q)) + q.amount
      BY <1>1, <1>3, <3>1
    <3>3. Sum(Prior(r)) \in Int /\ Sum(Prior(q)) \in Int /\ q.amount \in Int
      BY <1>1, <1>2, <1>3
    <3> QED BY <1>3, <3>2, <3>3
  <2> QED BY <2>1
<1>6a. \A r \in debts : P[r] \in Int /\ P[r] = parked + Sum(Prior(r)) /\ Prior(r) \in SUBSET debts
  BY <1>3
<1>6b. \A r \in debts : \A q : q \in Prior(r) <=> q \in debts /\ q.at < r.at
  OBVIOUS
<1>7. C \in SUBSET debts /\ Sum(C) \in Int /\ Sum(debts) \in Int /\ Sum(debts) <= Sum(C) /\ Sum(C) <= 0
  BY <1>1, <1>4
<1>7a. IsFiniteSet(C) /\ IsFiniteSet(debts \ C)
  BY <1>7, FS_Subset DEF Amounts
<1> HIDE DEF P, Prior
<1>8. Min({parked, -Sum(debts)}) = (IF parked <= -Sum(debts) THEN parked ELSE -Sum(debts))
      /\ Min({parked, -Sum(debts)}) \in Nat
  <2>1. Min({parked, -Sum(debts)}) = (IF parked <= -Sum(debts) THEN parked ELSE -Sum(debts))
    BY <1>7, MinOfTwo
  <2> QED BY <1>7, <2>1
<1>9. \A r \in debts \ C : (\A q \in debts \ C : r.at <= q.at) => Prior(r) = C
  <2>1. ASSUME NEW r \in debts \ C, \A q \in debts \ C : r.at <= q.at PROVE Prior(r) = C
    <3>1. ASSUME NEW q \in Prior(r) PROVE q \in C
      BY <1>2, <1>6b, <2>1, <3>1
    <3>2. ASSUME NEW q \in C PROVE q \in Prior(r)
      <4>1. q \in debts /\ r \in debts /\ q # r /\ P[q] > 0 /\ ~(P[r] > 0)
        BY <1>4
      <4>2. ~(r.at < q.at)
        <5>1. SUFFICES ASSUME r.at < q.at PROVE FALSE
          OBVIOUS
        <5>2. P[q] <= P[r] + r.amount /\ r.amount < 0
          BY <1>6, <4>1, <5>1
        <5> QED BY <1>2, <1>6a, <4>1, <5>2
      <4>3. q.at # r.at
        BY <4>1
      <4> QED BY <1>2, <1>6b, <4>1, <4>2, <4>3
    <3> QED BY <3>1, <3>2
  <2> QED BY <2>1
<1>10. C # debts => \E r \in debts \ C : Prior(r) = C
  <2>1. SUFFICES ASSUME C # debts PROVE \E r \in debts \ C : Prior(r) = C
    OBVIOUS
  <2>2. debts \ C # {} /\ Ints(at, debts \ C)
    BY <1>2, <1>7, <2>1 DEF Ints
  <2>3. PICK r \in debts \ C : \A q \in debts \ C : at[r] <= at[q]
    <3> HIDE DEF at
    <3> QED BY <1>7a, <2>2, FiniteLeast
  <2>4. \A q \in debts \ C : r.at <= q.at
    BY <2>3
  <2> QED BY <1>9, <2>4
<1>11. C # debts => parked + Sum(C) <= 0
  <2>1. SUFFICES ASSUME C # debts PROVE parked + Sum(C) <= 0
    OBVIOUS
  <2>2. PICK r \in debts \ C : Prior(r) = C
    BY <1>10, <2>1
  <2>3. P[r] = parked + Sum(C) /\ ~(P[r] > 0) /\ P[r] \in Int
    BY <1>4, <1>6a, <2>2
  <2> QED BY <2>3
<1>12. CASE C = {}
  <2>1. C = debts
    <3>1. Sum(C) = 0
      BY <1>12, SumOfNone
    <3> QED BY <1>11, <3>1
  <2>2. R = {}
    BY <1>4, <1>5, <1>12
  <2>3. Sum(debts) = 0 /\ Sum(C) = 0
    BY <1>12, <2>1, SumOfNone
  <2> QED BY <1>7, <1>8, <2>2, <2>3
<1>13. CASE C # {}
  <2> DEFINE late == [r \in debts |-> -r.at]
  <2>1. PICK m \in C : \A q \in C : q.at <= m.at
    <3>1. Ints(late, C)
      BY <1>2, <1>7 DEF Ints
    <3>2. PICK m \in C : \A q \in C : late[m] <= late[q]
      <4> HIDE DEF late
      <4> QED BY <1>7a, <1>13, <3>1, FiniteLeast
    <3>3. ASSUME NEW q \in C PROVE q.at <= m.at
      <4>1. late[m] = -m.at /\ late[q] = -q.at /\ m.at \in Nat /\ q.at \in Nat
        BY <1>2, <1>7
      <4>2. late[m] <= late[q]
        BY <3>2
      <4> HIDE DEF late
      <4> QED BY <4>1, <4>2
    <3> QED BY <3>3
  <2>2. m \in debts /\ P[m] > 0 /\ P[m] \in Int /\ m.amount \in Int /\ m.amount < 0
    BY <1>2, <1>4, <1>6a
  <2>3. C = Prior(m) \cup {m} /\ m \notin Prior(m)
    <3>1. ASSUME NEW q \in C PROVE q \in Prior(m) \cup {m}
      <4>1. q \in debts /\ q.at <= m.at /\ (q.at = m.at => q = m)
        BY <1>7, <2>1, <2>2
      <4> QED BY <1>2, <1>6b, <2>2, <4>1
    <3>2. ASSUME NEW q \in Prior(m) PROVE q \in C
      <4>1. q \in debts /\ P[m] <= P[q] + q.amount /\ q.amount < 0
        BY <1>6, <1>6b, <2>2
      <4>2. P[q] > 0
        BY <1>2, <1>6a, <2>2, <4>1
      <4> QED BY <1>4, <4>1, <4>2
    <3>3. m \notin Prior(m)
      BY <1>2, <1>6b, <2>2
    <3> QED BY <2>1, <3>1, <3>2, <3>3
  <2>4. parked + Sum(C) = P[m] + m.amount
    <3>1. Sum(C) = Sum(Prior(m)) + m.amount /\ P[m] = parked + Sum(Prior(m)) /\ Sum(Prior(m)) \in Int
      BY <1>1, <1>6a, <2>2, <2>3
    <3> QED BY <2>2, <3>1
  <2> DEFINE e == P[m] + m.amount
  <2>5. \A r \in C : r # m => ~(P[r] + r.amount < 0)
    <3>1. ASSUME NEW r \in C, r # m PROVE ~(P[r] + r.amount < 0)
      <4>1. r \in debts /\ r.at < m.at
        BY <1>6b, <2>2, <2>3, <3>1
      <4>2. P[m] <= P[r] + r.amount
        BY <1>6, <2>2, <4>1
      <4> QED BY <1>2, <1>6a, <2>2, <4>1, <4>2
    <3> QED BY <3>1
  <2>6. {r \in debts : P[r] > 0 /\ P[r] + r.amount < 0} = IF e < 0 THEN {m} ELSE {}
    BY <1>4, <2>2, <2>5
  <2>7. CASE e < 0
    <3>1. {r \in debts : P[r] > 0 /\ P[r] + r.amount < 0} = {m}
      BY <2>6, <2>7
    <3>1a. R = {LeftOf(m, e)}
      BY <1>5, <3>1
    <3>2. e \in Int /\ parked + Sum(C) = e
      BY <2>2, <2>4
    <3> HIDE DEF e
    <3>3. Min({parked, -Sum(debts)}) = e - Sum(C)
      BY <1>7, <1>8, <2>7, <3>2
    <3> QED BY <1>7, <1>8, <2>1, <2>7, <3>1a, <3>2, <3>3
  <2>8. CASE ~(e < 0)
    <3>1. {r \in debts : P[r] > 0 /\ P[r] + r.amount < 0} = {}
      BY <2>6, <2>8
    <3>2. R = {}
      BY <1>5, <3>1
    <3>3. e \in Int /\ parked + Sum(C) = e
      BY <2>2, <2>4
    <3> HIDE DEF e
    <3>4. Min({parked, -Sum(debts)}) = -Sum(C)
      <4>1. CASE C = debts
        BY <1>7, <1>8, <2>8, <3>3, <4>1
      <4>2. CASE C # debts
        BY <1>7, <1>8, <1>11, <2>8, <3>3, <4>2
      <4> QED BY <4>1, <4>2
    <3> QED BY <1>7, <1>8, <3>2, <3>4
  <2> QED BY <2>7, <2>8
<1> QED BY <1>12, <1>13


-----------------------------------------------------------------------------
(* A drain: what it takes of the rows, and the row it leaves. *)

Drains(v, claim, S, D, C, R, parked, recovered) ==
  /\ claim \subseteq Pending(v) /\ S = {r \in claim : r.amount > 0} /\ S # {} /\ D = claim \ S
  /\ parked = Sum(S) /\ recovered = Min({parked, -Sum(D)})
  /\ C = Consumed(D, parked) /\ R = Residual(D, parked)

(* Shares sum to something. *)
LEMMA SumPositive ==
  ASSUME NEW S, Amounts(S), S # {}, \A r \in S : r.amount > 0
  PROVE  Sum(S) \in Nat /\ Sum(S) > 0
<1> DEFINE f == Amt(S)
<1>1. Sum(S) = Total(f, S) /\ Sum(S) \in Int
  BY SumWithin
<1>2. \A r \in S : f[r] \in Nat /\ f[r] > 0
  BY DEF Amounts, Amt
<1> HIDE DEF f
<1>3. PICK s \in S : TRUE
  OBVIOUS
<1>4. IsFiniteSet(S) /\ Ints(f, S) /\ IsFiniteSet(S \ {s})
  BY <1>2, FS_Subset DEF Amounts, Ints
<1>5. Total(f, S) = f[s] + Total(f, S \ {s})
  BY <1>3, <1>4, TotalRemove
<1>6. Total(f, S \ {s}) \in Nat
  BY <1>2, <1>4, TotalNat
<1> QED BY <1>1, <1>2, <1>3, <1>5, <1>6

(* What a drain claims: shares, and the debts they pay. *)
LEMMA DrainClaims ==
  ASSUME IInv, NEW v \in Sellers, NEW claim, NEW S, NEW D, NEW C, NEW R, NEW parked, NEW recovered,
         Drains(v, claim, S, D, C, R, parked, recovered)
  PROVE  /\ parked \in Nat /\ parked > 0 /\ recovered \in Nat
         /\ S \subseteq claim /\ C \subseteq claim /\ \A r \in S : r.amount > 0
         /\ \A r \in C : r.amount < 0 /\ r.seq # 0 /\ r.order \in refunds
         /\ \A r \in claim : r \in rows /\ r \in Row /\ RowOK(r) /\ r.status = "pending" /\ r.seller = v
         /\ Sum(C) \in Int
         /\ \/ R = {} /\ recovered = -Sum(C)
            \/ \E m \in C, e \in Int : e < 0 /\ R = {LeftOf(m, e)} /\ recovered = e - Sum(C)
<1>0. /\ claim \subseteq Pending(v) /\ S = {r \in claim : r.amount > 0} /\ S # {} /\ D = claim \ S
      /\ parked = Sum(S) /\ recovered = Min({parked, -Sum(D)})
      /\ C = Consumed(D, parked) /\ R = Residual(D, parked)
  BY DEF Drains
<1>1. \A r \in rows : RowOK(r) /\ r \in Row
  BY InvParts DEF Store, RowsOK
<1>2. \A r \in claim : r \in rows /\ r \in Row /\ RowOK(r) /\ r.status = "pending" /\ r.seller = v
  BY <1>0, <1>1 DEF Pending
<1>3. S \in SUBSET rows /\ D \in SUBSET rows /\ D \in SUBSET Row /\ Amounts(S) /\ Amounts(D)
  BY <1>0, <1>2, Known
<1>4. \A r \in D : r.amount < 0 /\ r.seq # 0 /\ r.order \in refunds
  <2>1. ASSUME NEW r \in D PROVE r.amount < 0 /\ r.seq # 0 /\ r.order \in refunds
    <3>1. r \in claim /\ ~(r.amount > 0) /\ RowOK(r)
      BY <1>0, <1>2
    <3> QED BY <3>1 DEF RowOK
  <2> QED BY <2>1
<1>5. \A r, q \in D : r.at = q.at => r = q
  BY <1>3, InvParts DEF Store, RowsOK, Apart
<1>6. parked \in Nat /\ parked > 0
  BY <1>0, <1>3, SumPositive
<1>7. /\ C \subseteq D /\ Sum(C) \in Int
      /\ \/ R = {} /\ Min({parked, -Sum(D)}) = -Sum(C)
         \/ \E m \in C, e \in Int : /\ e < 0 /\ R = {LeftOf(m, e)}
                                   /\ Min({parked, -Sum(D)}) = e - Sum(C)
      /\ Min({parked, -Sum(D)}) \in Nat
  <2>1. Splits(D, parked, C, R)
    BY <1>0, <1>3, <1>4, <1>5, <1>6 DEF Splits
  <2> QED BY <2>1, Repaid
<1> QED BY <1>0, <1>2, <1>4, <1>6, <1>7

(* Shares and debts are summed apart. *)
LEMMA DrainSums ==
  ASSUME NEW S, NEW C, Amounts(S), Amounts(C),
         \A r \in S : r.amount > 0, \A r \in C : r.amount < 0
  PROVE  Shares(S \cup C) = Sum(S) /\ Debts(S \cup C) = -Sum(C)
<1>1. {r \in S \cup C : r.amount > 0} = S /\ {r \in S \cup C : r.amount < 0} = C
  BY DEF Amounts
<1> QED BY <1>1 DEF Shares, Debts

Drained(S, C, R) ==
  /\ rows' = (rows \ (S \cup C)) \cup Settle(S \cup C, "drained") \cup R
  /\ UNCHANGED <<sale, refunds>>

(* The rows a drain moves. *)
LEMMA DrainRows ==
  ASSUME IInv, NEW v \in Sellers, NEW claim, NEW S, NEW D, NEW C, NEW R, NEW parked, NEW recovered,
         Drains(v, claim, S, D, C, R, parked, recovered), Drained(S, C, R)
  PROVE  /\ RowsMove(S \cup C, "drained", R)
         /\ \A n \in R : RowOK(n)' /\ n.seq # 0 /\ n.seller = v
         /\ Shares(R) = 0 /\ Debts(R) \in Int
         /\ Shares(S \cup C) = parked /\ Debts(S \cup C) = recovered + Debts(R)
<1>0. /\ parked = Sum(S) /\ UNCHANGED <<sale, refunds>>
      /\ rows' = (rows \ (S \cup C)) \cup Settle(S \cup C, "drained") \cup R
  BY DEF Drains, Drained
<1> USE <1>0
<1>1. /\ parked \in Nat /\ parked > 0 /\ recovered \in Nat
      /\ S \subseteq claim /\ C \subseteq claim /\ \A r \in S : r.amount > 0
      /\ \A r \in C : r.amount < 0 /\ r.seq # 0 /\ r.order \in refunds
      /\ \A r \in claim : r \in rows /\ r \in Row /\ RowOK(r) /\ r.status = "pending" /\ r.seller = v
      /\ Sum(C) \in Int
      /\ \/ R = {} /\ recovered = -Sum(C)
         \/ \E m \in C, e \in Int : e < 0 /\ R = {LeftOf(m, e)} /\ recovered = e - Sum(C)
  BY DrainClaims
<1>2. Amounts(S) /\ Amounts(C)
  <2>1. S \in SUBSET rows /\ C \in SUBSET rows
    BY <1>1
  <2> QED BY <2>1, Known
<1>3. Shares(S \cup C) = parked /\ Debts(S \cup C) = -Sum(C)
  BY <1>0, <1>1, <1>2, DrainSums
<1>4. S \cup C \subseteq AllPending
  BY <1>1 DEF AllPending
<1>5. CASE R = {} /\ recovered = -Sum(C)
  <2>1. RowsMove(S \cup C, "drained", R)
    BY <1>4, <1>5 DEF RowsMove
  <2>2. Shares(R) = 0 /\ Debts(R) = 0
    BY <1>5, NothingToSum
  <2>3. Debts(S \cup C) = recovered + Debts(R)
    BY <1>1, <1>3, <1>5, <2>2
  <2>4. \A n \in R : RowOK(n)' /\ n.seq # 0 /\ n.seller = v
    BY <1>5
  <2> QED BY <1>3, <2>1, <2>2, <2>3, <2>4
<1>6. ASSUME NEW m \in C, NEW e \in Int, e < 0, R = {LeftOf(m, e)}, recovered = e - Sum(C)
      PROVE  /\ RowsMove(S \cup C, "drained", R)
             /\ \A n \in R : RowOK(n)' /\ n.seq # 0 /\ n.seller = v
             /\ Shares(R) = 0 /\ Debts(R) \in Int
             /\ Debts(S \cup C) = recovered + Debts(R)
  <2>0. PICK n : n = LeftOf(m, e)
    OBVIOUS
  <2>1. /\ m \in claim /\ m \in rows /\ m \in Row /\ RowOK(m) /\ m.status = "pending" /\ m.seller = v
        /\ m.seq # 0 /\ m.order \in refunds
    BY <1>1
  <2>2. NextAt \in Nat
    BY Known, FS_CardinalityType DEF NextAt
  <2>3. /\ n \in Row /\ n.order = m.order /\ n.seller = v /\ n.seq = m.seq + 1 /\ n.amount = e
        /\ n.at = NextAt /\ n.status = "pending" /\ n.seq # 0 /\ n.status # "refunded"
    <3>1. m = [order |-> m.order, seller |-> m.seller, seq |-> m.seq, amount |-> m.amount,
               at |-> m.at, status |-> m.status]
          /\ m.order \in Orders /\ m.seq \in Nat
      BY <2>1 DEF Row
    <3>2. n = [order |-> m.order, seller |-> m.seller, seq |-> m.seq + 1, amount |-> e,
               at |-> NextAt, status |-> "pending"]
      BY <2>0, <3>1 DEF LeftOf
    <3> QED BY <2>1, <2>2, <3>1, <3>2 DEF Row
  <2>4. ASSUME NEW q \in rows, q.order = n.order
        PROVE  q.seq < n.seq /\ (q.status = "pending" => q \in C)
    <3>1. Apart(m, q) /\ Apart(q, m) /\ RowOK(q) /\ q \in Row /\ KeysApart
      BY <2>1, InvParts DEF Store, RowsOK
    <3>2. q.seq <= m.seq /\ (q.status = "pending" => m.seq <= q.seq)
      BY <2>1, <2>3, <2>4, <3>1 DEF Apart
    <3>3. q.seq \in Nat /\ m.seq \in Nat
      BY <2>1, <3>1 DEF Row
    <3>4. q.status = "pending" => q = m
      <4>1. SUFFICES ASSUME q.status = "pending" PROVE q = m
        OBVIOUS
      <4>2. q.seq = m.seq
        BY <3>2, <3>3, <4>1
      <4>3. q.seller = m.seller
        BY <2>1, <2>3, <2>4, <3>1 DEF RowOK
      <4> QED BY <2>1, <2>3, <2>4, <3>1, <4>2, <4>3 DEF KeysApart
    <3> QED BY <2>3, <3>2, <3>3, <3>4
  <2>5. R = {n}
    BY <1>6, <2>0
  <2>6. RowsMove(S \cup C, "drained", R)
    <3>1. Fresh(n)
      BY <2>3 DEF Fresh
    <3>2. \A k \in R : k = n
      BY <2>5
    <3>3. \A k \in R : Fresh(k)
      BY <3>1, <3>2
    <3>4. \A k, l \in R : k = l
      BY <3>2
    <3>5. \A k \in R : \A q \in rows : q.order = k.order => q.seq < k.seq /\ (q.status = "pending" => q \in S \cup C)
      BY <2>4, <3>2
    <3> QED BY <1>4, <3>3, <3>4, <3>5 DEF RowsMove
  <2>7. RowOK(n)'
    <3>1. n.seller = SellerOf[n.order] /\ sale'[n.order] # Unsold /\ n.order \in refunds'
      BY <2>1, <2>3 DEF RowOK
    <3>2. n.amount < 0
      BY <1>6, <2>3
    <3> QED BY <2>3, <3>1, <3>2 DEF RowOK
  <2>8. Shares({n}) = 0 /\ Debts({n}) = -e
    <3>1. n.amount \in Int /\ ~(n.amount > 0) /\ n.amount < 0
      BY <1>6, <2>3
    <3> QED BY <2>3, <3>1, OneRow
  <2>9. \A k \in R : RowOK(k)' /\ k.seq # 0 /\ k.seller = v
    <3>1. PICK z : z = R
      OBVIOUS
    <3>2. \A k \in z : k = n
      BY <2>5, <3>1
    <3>3. \A k \in z : RowOK(k)'
      BY <2>7, <3>2
    <3> QED BY <2>3, <3>1, <3>2, <3>3
  <2>10. Debts(S \cup C) = recovered + Debts(R)
    <3>1. Debts(R) = -e
      BY <2>5, <2>8
    <3>2. Debts(S \cup C) = -Sum(C) /\ Sum(C) \in Int /\ recovered = e - Sum(C)
      BY <1>1, <1>3, <1>6
    <3> QED BY <3>1, <3>2
  <2> QED BY <2>5, <2>6, <2>8, <2>9, <2>10
<1> QED BY <1>1, <1>3, <1>5, <1>6, NothingToSum

(* The posting of a drain. *)
LEMMA DrainLegsAre ==
  ASSUME NEW v \in Sellers, NEW parked \in Nat, NEW recovered \in Nat
  PROVE  /\ DrainLegs(v, parked, recovered) \in Legs /\ Balanced(DrainLegs(v, parked, recovered))
         /\ DrainLegs(v, parked, recovered)[House("accrual")] = -parked
         /\ DrainLegs(v, parked, recovered)[Earned(v)] = parked - recovered
         /\ DrainLegs(v, parked, recovered)[House("receivable")] = -recovered
         /\ \A a \in Accounts \ {House("accrual"), Earned(v), House("receivable")} :
              DrainLegs(v, parked, recovered)[a] = 0
<1> DEFINE legs == DrainLegs(v, parked, recovered)
           a == House("accrual")
           b == Earned(v)
           d == House("receivable")
<1>1. /\ a \in Accounts \ (Usd \cup DebitNormal) /\ b \in Accounts \ (Usd \cup DebitNormal)
      /\ d \in (Accounts \cap DebitNormal) \ Usd /\ a # b /\ a # d /\ b # d
  BY AccountsAre, AccountsApart DEF Platform
<1> HIDE DEF a, b, d
<1>2. legs = [NoLegs EXCEPT ![a] = -parked, ![b] = parked - recovered, ![d] = -recovered]
  BY DEF DrainLegs, a, b, d
<1> HIDE DEF legs
<1>3. /\ DOMAIN legs = Accounts /\ legs = [c \in Accounts |-> legs[c]]
      /\ legs[a] = -parked /\ legs[b] = parked - recovered /\ legs[d] = -recovered
      /\ \A c \in Accounts \ {a, b, d} : legs[c] = 0
  BY <1>1, <1>2 DEF NoLegs
<1>4. legs \in Legs
  <2>1. \A c \in Accounts : legs[c] \in Int
    BY <1>3
  <2> QED BY <1>3, <2>1 DEF Legs
<1>5. Balanced(legs)
  <2>1. \A c \in Accounts : legs[c] = At(a, -parked, c) + At(b, parked - recovered, c) + At(d, -recovered, c)
    BY <1>1, <1>3 DEF At
  <2>2. Sg(a, -parked) + Sg(b, parked - recovered) + Sg(d, -recovered) = 0
    BY <1>1 DEF Sg
  <2>3. a \in Accounts \ Usd /\ b \in Accounts \ Usd /\ d \in Accounts \ Usd
        /\ Accounts \ Usd \in {Usd, Accounts \ Usd}
        /\ -parked \in Int /\ parked - recovered \in Int /\ -recovered \in Int
    BY <1>1
  <2> QED BY <1>4, <2>1, <2>2, <2>3, ThreeLegs
<1> QED BY <1>3, <1>4, <1>5 DEF legs, a, b, d

(* A drain takes at least one share, so its rows were never drained before. *)
LEMMA DrainStep ==
  ASSUME IInv, NEW v \in Sellers, NEW k \in 1..Limit, DrainSeller(v, k)
  PROVE  \E claim, S, D, C, R, parked, recovered :
           /\ Drains(v, claim, S, D, C, R, parked, recovered)
           /\ Post(<<"drain", RowKeys(claim)>>, DrainLegs(v, parked, recovered))
           /\ rows' = (rows \ (S \cup C)) \cup Settle(S \cup C, "drained") \cup R
           /\ <<"drain", RowKeys(claim)>> \notin DOMAIN posted
           /\ UNCHANGED <<sale, keys, grants, sweep, owned, accrual, refunds, shortfall, corrected, count>>
<1>1. PICK claim : claim = Claim(v, k)
  OBVIOUS
<1>2. PICK S, D : S = {r \in claim : r.amount > 0} /\ D = claim \ S
  OBVIOUS
<1>3. PICK parked, recovered : parked = Sum(S) /\ recovered = Min({parked, -Sum(D)})
  OBVIOUS
<1>4. PICK C, R : C = Consumed(D, parked) /\ R = Residual(D, parked)
  OBVIOUS
<1>5. /\ S # {}
      /\ IF <<"drain", RowKeys(claim)>> \in DOMAIN posted
         THEN UNCHANGED <<bal, posted>>
         ELSE Post(<<"drain", RowKeys(claim)>>, DrainLegs(v, parked, recovered))
      /\ rows' = (rows \ (S \cup C)) \cup Settle(S \cup C, "drained") \cup R
      /\ UNCHANGED <<sale, keys, grants, sweep, owned, accrual, refunds, shortfall, corrected, count>>
  BY <1>1, <1>2, <1>3, <1>4 DEF DrainSeller
<1>6. claim \subseteq Pending(v)
  BY <1>1 DEF Claim, Pending
<1>7. Drains(v, claim, S, D, C, R, parked, recovered)
  BY <1>2, <1>3, <1>4, <1>5, <1>6 DEF Drains
<1>8. <<"drain", RowKeys(claim)>> \notin DOMAIN posted
  <2>1. SUFFICES ASSUME <<"drain", RowKeys(claim)>> \in DOMAIN posted PROVE FALSE
    OBVIOUS
  <2>2. DrainsOK /\ KeysApart
    BY InvParts DEF Store
  <2>3. PICK r \in rows : r.amount > 0 /\ r.status = "drained" /\ KeyOf(r) \in RowKeys(claim)
    BY <2>1, <2>2 DEF DrainsOK
  <2>4. PICK q \in claim : KeyOf(r) = <<q.order, q.seller, q.seq>>
    BY <2>3 DEF RowKeys
  <2>5. q \in rows /\ q.status = "pending"
    BY <1>6 DEF Pending
  <2>6. q.order = r.order /\ q.seller = r.seller /\ q.seq = r.seq
    BY <2>4 DEF KeyOf
  <2> QED BY <2>2, <2>3, <2>5, <2>6 DEF KeysApart
<1> QED BY <1>5, <1>7, <1>8

(* A drain keeps the invariant. *)
LEMMA DrainSellerKeeps ==
  ASSUME IInv, NEW v \in Sellers, NEW k \in 1..Limit, DrainSeller(v, k)
  PROVE  IInv'
<1>0. /\ rows \subseteq Row /\ SalesOK /\ RowsOK /\ DrainsOK /\ KeysApart /\ SaleTypes
  BY InvParts DEF Store
<1>1. PICK claim, S, D, C, R, parked, recovered :
        /\ Drains(v, claim, S, D, C, R, parked, recovered)
        /\ Post(<<"drain", RowKeys(claim)>>, DrainLegs(v, parked, recovered))
        /\ rows' = (rows \ (S \cup C)) \cup Settle(S \cup C, "drained") \cup R
        /\ <<"drain", RowKeys(claim)>> \notin DOMAIN posted
        /\ UNCHANGED <<sale, keys, grants, sweep, owned, accrual, refunds, shortfall, corrected, count>>
  BY DrainStep
<1>2. /\ parked \in Nat /\ parked > 0 /\ recovered \in Nat
      /\ S \subseteq claim /\ C \subseteq claim /\ \A r \in S : r.amount > 0
      /\ \A r \in claim : r \in rows /\ r \in Row /\ r.status = "pending" /\ r.seller = v
  BY <1>1, DrainClaims
<1>3. /\ RowsMove(S \cup C, "drained", R)
      /\ \A n \in R : RowOK(n)' /\ n.seq # 0 /\ n.seller = v
      /\ Shares(R) = 0 /\ Debts(R) \in Int
      /\ Shares(S \cup C) = parked /\ Debts(S \cup C) = recovered + Debts(R)
  <2>1. Drains(v, claim, S, D, C, R, parked, recovered) /\ Drained(S, C, R)
    BY <1>1 DEF Drained
  <2> QED BY <2>1, DrainRows
<1>4. PICK A, legs, txn : /\ A = S \cup C /\ legs = DrainLegs(v, parked, recovered)
                          /\ txn = <<"drain", RowKeys(claim)>>
  OBVIOUS
<1>5. /\ legs \in Legs /\ Balanced(legs)
      /\ legs[House("accrual")] = -parked /\ legs[Earned(v)] = parked - recovered
      /\ legs[House("receivable")] = -recovered
      /\ \A a \in Accounts \ {House("accrual"), Earned(v), House("receivable")} : legs[a] = 0
  BY <1>2, <1>4, DrainLegsAre
<1>6. Posted(txn, legs)
  BY <1>1, <1>4, <1>5, PostOne, InvParts
<1>7. txn \notin DOMAIN posted /\ txn[1] = "drain" /\ txn[2] = RowKeys(claim)
  BY <1>1, <1>4
<1>8. SalesStay
  <2>1. \A o \in Orders : sale[o] # Unsold => SaleId(o) \in DOMAIN posted
    BY SaleKnown
  <2> QED BY <1>1, <1>6, <1>7, <2>1 DEF SalesStay, Posted
<1>9. /\ RowsOK' /\ KeysApart' /\ rows' \subseteq Row
      /\ \A q \in Orders : sale[q] # Unsold => SaleOK(q)'
      /\ \A t \in DOMAIN posted : t[1] = "drain" => DrainKnown(t)'
  <2>1. \A n \in R : RowOK(n)' /\ (n.seq = 0 => sale[n.order] = Unsold)
    BY <1>3
  <2>2. RowsMove(S \cup C, "drained", R) /\ "drained" # "refunded"
    BY <1>3
  <2> QED BY <1>0, <1>8, <2>1, <2>2, MovedStore
<1>10. DrainKnown(txn)'
  <2>1. PICK s \in S : TRUE
    BY <1>1 DEF Drains
  <2>2. s \in Row /\ s \in claim /\ s.amount > 0
    BY <1>2, <2>1
  <2>3. PICK z : z = [s EXCEPT !.status = "drained"]
    OBVIOUS
  <2>4. z \in rows'
    BY <1>1, <2>1, <2>3 DEF Settle
  <2>5. z.amount = s.amount /\ z.status = "drained" /\ KeyOf(z) = <<s.order, s.seller, s.seq>>
    BY <2>2, <2>3 DEF Row, KeyOf
  <2>6. KeyOf(z) \in RowKeys(claim)
    BY <2>2, <2>5 DEF RowKeys
  <2>7. z.amount > 0 /\ z.status = "drained" /\ KeyOf(z) \in txn[2]
    BY <1>7, <2>2, <2>5, <2>6
  <2> QED BY <2>4, <2>7 DEF DrainKnown
<1>11. Store'
  <2>1. SalesOK'
    BY <1>0, <1>1, <1>9 DEF SalesOK
  <2>2. DrainsOK'
    <3>1. ASSUME NEW t \in DOMAIN posted', t[1] = "drain" PROVE DrainKnown(t)'
      BY <1>6, <1>9, <1>10, <3>1 DEF Posted
    <3> QED BY <3>1 DEF DrainsOK, DrainKnown
  <2> QED BY <1>9, <2>1, <2>2 DEF Store
<1>12. SaleTypes'
  BY <1>0, <1>1, <1>6 DEF SaleTypes, Posted
<1>13. OtherTypes'
  BY <1>1, InvParts DEF OtherTypes
<1>14. \A t \in DOMAIN posted' : Balanced(posted'[t])
  BY <1>5, <1>6, InvParts DEF Posted, Money
<1>15. /\ Shares(AllPending)' = Shares(AllPending) - Shares(A) + Shares(R)
       /\ Debts(AllPending)' = Debts(AllPending) - Debts(A) + Debts(R)
       /\ Shares(AllPending) \in Int /\ Debts(AllPending) \in Int
       /\ \A w : /\ Shares(Pending(w))' = Shares(Pending(w)) - Shares(Of(w, A)) + Shares(Of(w, R))
                 /\ Debts(Pending(w))' = Debts(Pending(w)) - Debts(Of(w, A)) + Debts(Of(w, R))
                 /\ Shares(Pending(w)) \in Int /\ Debts(Pending(w)) \in Int
  <2>1. RowsMove(A, "drained", R)
    BY <1>3, <1>4
  <2>2. /\ Shares(AllPending)' = Shares(AllPending) - Shares(A) + Shares(R)
        /\ Debts(AllPending)' = Debts(AllPending) - Debts(A) + Debts(R)
        /\ \A Q \in {AllPending, A, R} : Shares(Q) \in Int /\ Debts(Q) \in Int
        /\ \A w : /\ Shares(Pending(w))' = Shares(Pending(w)) - Shares(Of(w, A)) + Shares(Of(w, R))
                  /\ Debts(Pending(w))' = Debts(Pending(w)) - Debts(Of(w, A)) + Debts(Of(w, R))
                  /\ \A Q \in {Pending(w), Of(w, A), Of(w, R)} : Shares(Q) \in Int /\ Debts(Q) \in Int
    BY <2>1, MovedSums
  <2> QED BY <2>2
<1>16. \A a \in Accounts : /\ bal'[a] = bal[a] + legs[a] /\ bal[a] \in Int
                           /\ ByOperators(a) \in Int /\ ByOperators(a)' = ByOperators(a)
                           /\ shortfall'[a] = shortfall[a] /\ shortfall[a] \in Nat
  BY <1>1, <1>6, Known DEF Posted, ByOperators
<1>17. EscrowMatchesRows'
  <2>1. EscrowMatchesRows /\ House("accrual") \in Accounts
    BY InvParts, AccountsAre DEF Money
  <2> QED BY <1>2, <1>3, <1>4, <1>5, <1>15, <1>16, <2>1 DEF EscrowMatchesRows
<1>18. ReceivableIsOwed'
  <2>1. ReceivableIsOwed /\ House("receivable") \in Accounts
    BY InvParts, AccountsAre DEF Money
  <2>2. shortfall' = shortfall /\ Total(shortfall, Accounts) \in Int
    BY <1>1, Known, ShortfallInts
  <2>3. Debts(AllPending)' = Debts(AllPending) - recovered
    BY <1>2, <1>3, <1>4, <1>15
  <2>4. bal'[House("receivable")] = bal[House("receivable")] - recovered
    BY <1>2, <1>5, <1>16, <2>1
  <2> QED BY <1>2, <1>15, <1>16, <2>1, <2>2, <2>3, <2>4 DEF ReceivableIsOwed
<1>19. ASSUME NEW w \in Sellers PROVE SellerOK(w)'
  <2>1. SellerOK(w) /\ Earned(w) \in Accounts /\ Earned(w) # House("accrual") /\ Earned(w) # House("receivable")
    BY InvParts, AccountsAre, AccountsApart DEF Money, Platform
  <2>2. Total(ShareOf(w), Sold(w))' = Total(ShareOf(w), Sold(w))
    BY <1>1, <1>8, SalesSame
  <2>3. CASE w = v
    <3>1. Of(w, A) = A /\ Of(w, R) = R
      BY <1>2, <1>3, <1>4, <2>3 DEF Of
    <3>2. /\ Shares(Pending(w))' = Shares(Pending(w)) - parked
          /\ Debts(Pending(w))' = Debts(Pending(w)) - recovered
      <4>1. /\ Shares(Pending(w))' = Shares(Pending(w)) - Shares(A) + Shares(R)
            /\ Debts(Pending(w))' = Debts(Pending(w)) - Debts(A) + Debts(R)
            /\ Shares(Pending(w)) \in Int /\ Debts(Pending(w)) \in Int
        BY <1>15, <3>1
      <4>2. Shares(A) = parked /\ Debts(A) = recovered + Debts(R) /\ Shares(R) = 0 /\ Debts(R) \in Int
        BY <1>3, <1>4
      <4> QED BY <1>2, <4>1, <4>2
    <3>3. bal'[Earned(w)] = bal[Earned(w)] + (parked - recovered)
      BY <1>5, <1>16, <2>1, <2>3
    <3>4. Owing(w)' = Owing(w)
      BY <1>2, <1>15, <1>16, <2>1, <3>2, <3>3 DEF Owing
    <3> QED BY <2>1, <2>2, <3>4 DEF SellerOK
  <2>4. CASE w # v
    <3>1. Of(w, A) = {} /\ Of(w, R) = {}
      BY <1>2, <1>3, <1>4, <2>4 DEF Of
    <3>2. /\ Shares(Pending(w))' = Shares(Pending(w)) - Shares({}) + Shares({})
          /\ Debts(Pending(w))' = Debts(Pending(w)) - Debts({}) + Debts({})
          /\ Shares(Pending(w)) \in Int /\ Debts(Pending(w)) \in Int
      BY <1>15, <3>1
    <3>3. Shares(Pending(w))' = Shares(Pending(w)) /\ Debts(Pending(w))' = Debts(Pending(w))
      BY <3>2, NothingToSum
    <3>4. Earned(w) # Earned(v)
      BY <2>4, AccountsApart
    <3>5. bal'[Earned(w)] = bal[Earned(w)]
      BY <1>5, <1>16, <2>1, <3>4
    <3>6. Owing(w)' = Owing(w)
      BY <1>16, <2>1, <3>3, <3>5 DEF Owing
    <3> QED BY <2>1, <2>2, <3>6 DEF SellerOK
  <2> QED BY <2>3, <2>4
<1>20. ASSUME NEW u \in Buyers PROVE PromoOK(u)'
  <2>1. /\ bal[Promo(u)] \in Nat /\ Promo(u) \in Accounts
        /\ Promo(u) # House("accrual") /\ Promo(u) # House("receivable") /\ Promo(u) # Earned(v)
    BY PromoTerms, AccountsApart DEF Platform
  <2>2. bal'[Promo(u)] = bal[Promo(u)]
    BY <1>5, <1>16, <2>1
  <2>3. Refunded(Promo(u))' = Refunded(Promo(u))
    BY <1>1, <1>8, SalesSame
  <2>4. OpenOf(u)' = OpenOf(u) /\ corrected' = corrected /\ PromoOK(u)
    BY <1>1, InvParts DEF OpenOf, Money
  <2> QED BY <2>2, <2>3, <2>4 DEF PromoOK
<1>21. Money'
  BY <1>14, <1>17, <1>18, <1>19, <1>20 DEF Money
<1>22. LedgerOK'
  BY <1>6 DEF Posted
<1> QED BY <1>9, <1>11, <1>12, <1>13, <1>21, <1>22, InvNext

-----------------------------------------------------------------------------
(* Every reachable state satisfies the invariant. *)
THEOREM Invariance == Spec => []IInv
<1>1. Init => IInv
  BY InitInv
<1>2. IInv /\ [Next]_vars => IInv'
  <2> SUFFICES ASSUME IInv, [Next]_vars PROVE IInv' OBVIOUS
  <2>1. CASE \E u \in Buyers :
               \/ TopUp(u) \/ GrantEntitlement(u) \/ RevokeEntitlement(u)
               \/ \E named \in {{}} \cup {{OrderKey(o)} : o \in Orders} : Clawback(u, named)
    BY <2>1, TopUpKeeps, PlainSteps, ClawbackKeeps
  <2>2. CASE \E g \in Grants :
               \/ GrantPromo(g)
               \/ \E w \in Sweeps : ReversePromo(w, g) \/ ReversePromoFails(w, g)
    BY <2>2, GrantPromoKeeps, ReversePromoKeeps, PlainSteps
  <2>3. CASE \E o \in Orders : Spend(o) \/ Refund(o)
    BY <2>3, SpendKeeps, RefundKeeps
  <2>4. CASE \/ \E a \in Adjustable, delta \in {-1, 1} : Adjust(a, delta)
             \/ \E t \in DOMAIN posted : Reverse(t)
    BY <2>4, AdjustKeeps, ReverseKeeps
  <2>5. CASE SwitchAccrual \/ \E w \in Sweeps : ClaimExpired(w)
    BY <2>5, PlainSteps
  <2>6. CASE \E v \in Sellers, k \in 1..Limit : DrainSeller(v, k)
    BY <2>6, DrainSellerKeeps
  <2>7. CASE UNCHANGED vars
    <3>1. /\ UNCHANGED <<bal, posted, rows, sale, keys, grants, refunds, shortfall, corrected>>
          /\ UNCHANGED <<sweep, owned, accrual>>
      BY <2>7 DEF vars
    <3>2. sweep' \in [Sweeps -> SUBSET Grants] /\ owned' \subseteq Buyers /\ accrual' \in BOOLEAN
      BY <3>1, InvParts DEF OtherTypes
    <3> QED BY <3>1, <3>2, Unposted
  <2> QED BY <2>1, <2>2, <2>3, <2>4, <2>5, <2>6, <2>7 DEF Next
<1> QED BY <1>1, <1>2, PTL DEF Spec

(* Every variable has its type, and no wallet nor the escrow is ever overdrawn. *)
THEOREM TypeCorrect == Spec => []TypeOK
<1>1. IInv => TypeOK
  BY DEF IInv
<1> QED BY <1>1, Invariance, PTL

(* assertBalanced never refuses a posting a handler, a sweep or a drain builds: each *)
(* balances in credits and in dollars.                                               *)
THEOREM Balances == Spec => []PostingsBalance
<1>1. IInv => PostingsBalance
  BY DEF IInv
<1> QED BY <1>1, Invariance, PTL

(* SETTLEMENT_ACCRUAL holds the pending shares to the last credit, but for what *)
(* operators moved, through every change of the accrual setting.                *)
THEOREM EscrowExact == Spec => []EscrowMatchesRows
<1>1. IInv => EscrowMatchesRows
  BY DEF IInv
<1> QED BY <1>1, Invariance, PTL

(* Each seller has, or is owed, the share of every sale that is not refunded, and *)
(* owes no more than the refunded shares that were already paid.                  *)
THEOREM SellersPaid == Spec => []SellersGetTheirShares
<1>1. IInv => SellersGetTheirShares
  BY DEF IInv
<1> QED BY <1>1, Invariance, PTL

(* RECEIVABLE is the pending debts of sellers and what refunds and chargebacks could *)
(* not collect, however a drain splits a debt (consumeRecovery).                     *)
THEOREM RecoveryExact == Spec => []ReceivableIsOwed
<1>1. IInv => ReceivableIsOwed
  BY DEF IInv
<1> QED BY <1>1, Invariance, PTL

(* Promo credits are covered by grants the expiry sweep has not settled, but for what *)
(* refunds and operators put back, however sweeps overlap (sweepExpiredPromos).       *)
THEOREM PromoTracked == Spec => []PromoIsTracked
<1>1. IInv => PromoIsTracked
  BY DEF IInv
<1> QED BY <1>1, Invariance, PTL

=============================================================================
