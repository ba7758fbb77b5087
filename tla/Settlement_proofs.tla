--------------------------- MODULE Settlement_proofs ---------------------------
(***************************************************************************)
(* What Treasury and Netting promise, proved for every value of their      *)
(* constants.  The two components share no variable; they share this       *)
(* module, Treasury's theorems first.                                      *)
(*                                                                         *)
(* Treasury: a fee sweep posts from the surplus it counted, the walk that  *)
(* clears funds agrees with the full scan of the postings, and old funds   *)
(* clear in time.  Its invariant is IInv: the balances are the sums of     *)
(* their postings, and what a sweep has counted covers what it has done    *)
(* with, unless it is marked unseen.                                       *)
(*                                                                         *)
(* Netting: the shared reservation counter never over-grants.  Its         *)
(* invariant is SessionInv: what is left of a buyer's reservations is what *)
(* the one winner of the durable claim has given back so far.  And the     *)
(* net of a session is on the ledger or its movements are, never both:     *)
(* OnceInv adds what a settle under way and a recovery find there.         *)
(* A net_settled event is published for money that has moved: EventInv     *)
(* follows what the wallets and the escrows of the worlds hold from the    *)
(* purchases through the flushes to each chunk of the netted posting.      *)
(***************************************************************************)
EXTENDS Treasury, Netting, Sums_proofs, SequenceTheorems, TLAPS

Kinds == {"topUp", "spend", "refund", "adjust", "reserve", "settle", "sweep",
          "fund", "return", "net", "netUndo", "movement", "reverse"}
Posting == [at : 0..MaxTime, source : DOMAIN HorizonOf, kind : Kinds,
            delta : UNION {[A -> Int] : A \in SUBSET Accounts}]

(* What may be undone later: a sale touches no trust row and no reserve, and no more *)
(* does a net posting, which only takes from users.                                  *)
Lawful(kind, delta) ==
  /\ kind \in {"spend", "net"} => DOMAIN delta \subseteq Custodial \cup {Earned} \cup RevenueRows
  /\ kind = "net" => \A a \in DOMAIN delta \cap Custodial : delta[a] <= 0

(* A balance is the sum of what its postings moved it by. *)
Ledger ==
  /\ postings \in Seq(Posting) /\ balance \in [Accounts -> Int]
  /\ \A i \in DOMAIN postings :
       /\ postings[i].at <= now
       /\ Lawful(postings[i].kind, postings[i].delta)
  /\ \A a \in Accounts : balance[a] = Moved(a, Of(DOMAIN postings, a))

(* User accounts are not overdrawn, and the reserve holds the payout under way. *)
Guarded ==
  /\ \A a \in Custodial \cup {Earned} : balance[a] >= 0
  /\ balance[Reserve] = (IF payout = {} THEN 0 ELSE PayoutAmount)

(* A fee sweep holds its locks. *)
Holds(w) == job[w].pc \in {"check", "post"}

Job == [pc : {"idle", "lock", "check", "post"}, todo : SUBSET Accounts, trust : Int, owed : Int, amount : Nat,
        key : Nat, locks : SUBSET Accounts, unseen : BOOLEAN]

(* A sweep that holds its locks has rows left to read; one that is about to post has *)
(* none, and may draw no more than the surplus it counted.                           *)
JobOK(j) ==
  /\ j.locks = (IF j.pc \in {"check", "post"} THEN LockSet ELSE {})
  /\ j.key <= now
  /\ j.pc # "idle" => j.amount > 0
  /\ j.pc = "lock" => j.trust = 0 /\ j.owed = 0
  /\ j.pc \in {"check", "post"} => j.todo \subseteq Custodial \cup TrustRows
  /\ j.pc = "post" => j.todo = {} /\ j.amount <= UsdToCredit(j.trust) - j.owed

(* No two sweeps hold the locks. *)
JobsOK ==
  /\ job \in [Sweeps -> Job]
  /\ \A w \in Sweeps : JobOK(job[w])
  /\ \A v, w \in Sweeps : Holds(v) /\ Holds(w) => v = w

Todo(w) == job[w].todo

(* The cash in the rows a sweep is done with, beyond what it counted there, covers   *)
(* the credits in the wallets and escrows it is done with, beyond those it counted.  *)
RestCovered(w) ==
  (Total(balance, TrustRows \ Todo(w)) - job[w].trust) * ParDen
    >= (Total(balance, Custodial \ Todo(w)) - job[w].owed) * ParNum

Counted == \A w \in Sweeps : Holds(w) /\ ~job[w].unseen => RestCovered(w)

RestOK ==
  /\ pruned \in 0..Len(postings)
  /\ undone \subseteq DOMAIN postings /\ \A i \in undone : postings[i].kind # "reverse"
  /\ payout \in SUBSET Nat
  /\ keys \subseteq 0..now /\ sweeps \in 0..MaxSweeps /\ now \in 0..MaxTime

(* A session has net postings that stand; no escrow is asked for nothing. *)
Epoch == [pc : {"open", "net", "replay"}, bought : [Users -> Nat], chunks : SUBSET Nat]
Moves == [kind : {"fund", "return"}, user : Users, session : EscrowSessions, amount : Nat \ {0}]

SessionsOK ==
  /\ epoch \in [Sessions -> Epoch] /\ asks \subseteq Moves
  /\ \A n \in Sessions : \A i \in epoch[n].chunks : i \in DOMAIN postings /\ postings[i].kind = "net"

IInv == Ledger /\ Guarded /\ JobsOK /\ Counted /\ RestOK /\ SessionsOK

-----------------------------------------------------------------------------
(* Numbers. *)

(* A number kept within 0..n. *)
LEMMA WithinIs ==
  ASSUME NEW x \in Int, NEW n \in Int
  PROVE  Within(x, n) = IF x <= n THEN IF x > 0 THEN x ELSE 0
                                  ELSE IF n > 0 THEN n ELSE 0
<1>1. Min({n, x}) = (IF n <= x THEN n ELSE x)
  BY LesserIs
<1>2. Min({n, x}) \in Int
  BY <1>1
<1>3. Within(x, n) = IF Min({n, x}) > 0 THEN Min({n, x}) ELSE 0
  BY <1>2, AtLeastZero DEF Within
<1> QED BY <1>1, <1>3

-----------------------------------------------------------------------------
(* Rates. *)

LEMMA Constants ==
  /\ ParNum \in Nat \ {0} /\ ParDen \in Nat \ {0} /\ PayNum \in Nat \ {0} /\ PayDen \in Nat \ {0}
  /\ TopUpAmount \in Nat \ {0} /\ Price \in Nat \ {0} /\ PayoutAmount \in Nat \ {0}
  /\ Correction \in Nat \ {0} /\ EscrowAmount \in Nat \ {0} /\ Fee \in 0..Price /\ Price - Fee \in Nat /\ Fee \in Nat
BY TreasuryAssumption

(* A top-up brings the cash its credits cost at par. *)
LEMMA TopUpBacked ==
  ASSUME NEW n \in Int
  PROVE  ParCeil(n) \in Int /\ ParCeil(n) * ParDen >= n * ParNum
<1> DEFINE a == n * ParNum + ParDen - 1
<1>1. ParNum \in Int /\ ParDen \in Nat \ {0} /\ a \in Int
  BY Constants
<1>2. ParCeil(n) = a \div ParDen
  BY DEF ParCeil
<1>3. ParCeil(n) \in Int /\ a < ParCeil(n) * ParDen + ParDen
  BY <1>1, <1>2, DivIs
<1>4. n * ParNum \in Int /\ ParCeil(n) * ParDen \in Int
  BY <1>1, <1>3
<1> QED BY <1>1, <1>3, <1>4

LEMMA RatesWhole ==
  ASSUME NEW n \in Int
  PROVE  ParFloor(n) \in Int /\ UsdToCredit(n) \in Int /\ Quote(n) \in Int
BY Constants, DivIs DEF ParFloor, UsdToCredit, Quote

(* Of cash in trust that covers what is owed and a draw of surplus, the draw's cash *)
(* may leave: what is left covers what is owed.                                     *)
LEMMA SurplusTaken ==
  ASSUME NEW cash \in Int, NEW all \in Int, NEW owed \in Int, NEW due \in Int, NEW amount \in Int,
         amount <= UsdToCredit(cash) - owed,
         (all - cash) * ParDen >= (due - owed) * ParNum
  PROVE  all - ParFloor(amount) >= ParFloor(due)
<1> DEFINE credits == UsdToCredit(cash)
           x == ParFloor(amount) + ParFloor(due)
<1>0. ParNum \in Nat \ {0} /\ ParDen \in Nat \ {0} /\ credits \in Int
      /\ ParFloor(amount) \in Int /\ ParFloor(due) \in Int /\ x \in Int
  BY Constants, RatesWhole
<1>1. credits * ParNum <= cash * ParDen
  BY <1>0, DivIs DEF UsdToCredit
<1>2. ParFloor(amount) * ParDen <= amount * ParNum /\ ParFloor(due) * ParDen <= due * ParNum
  BY <1>0, DivIs DEF ParFloor
<1>3. (credits - owed - amount) * ParNum >= 0
  <2>1. credits - owed - amount \in Nat
    BY <1>0
  <2> HIDE DEF credits
  <2> QED BY <1>0, <2>1
<1> HIDE DEF credits
<1>4. (credits - owed - amount) * ParNum = credits * ParNum - owed * ParNum - amount * ParNum
  BY <1>0
<1>5. (all - cash) * ParDen = all * ParDen - cash * ParDen
  BY <1>0
<1>6. (due - owed) * ParNum = due * ParNum - owed * ParNum
  BY <1>0
<1>7. x * ParDen = ParFloor(amount) * ParDen + ParFloor(due) * ParDen
  BY <1>0
<1>8. /\ credits * ParNum \in Int /\ owed * ParNum \in Int /\ amount * ParNum \in Int
      /\ due * ParNum \in Int /\ all * ParDen \in Int /\ cash * ParDen \in Int
      /\ ParFloor(amount) * ParDen \in Int /\ ParFloor(due) * ParDen \in Int /\ x * ParDen \in Int
  BY <1>0
<1>9. x * ParDen <= all * ParDen
  BY <1>1, <1>2, <1>3, <1>4, <1>5, <1>6, <1>7, <1>8
<1>10. x <= all
  <2> HIDE DEF x
  <2> QED BY <1>0, <1>8, <1>9, FewerTimes
<1> QED BY <1>0, <1>10

-----------------------------------------------------------------------------
(* The accounts. *)

LEMMA AccountsFinite ==
  /\ IsFiniteSet(Users) /\ IsFiniteSet(Shards) /\ IsFiniteSet(Accounts)
  /\ IsFiniteSet(Custodial) /\ IsFiniteSet(TrustRows) /\ IsFiniteSet(RevenueRows)
<1>1. IsFiniteSet(Users) /\ IsFiniteSet(Shards) /\ IsFiniteSet(EscrowSessions)
  BY TreasuryAssumption, FS_Subset
<1>2. \A kind : IsFiniteSet({kind} \X Users) /\ IsFiniteSet({kind} \X Shards)
  BY <1>1, FS_Singleton, FS_Product
<1>3. /\ Wallets \subseteq {"spendable"} \X Users
      /\ TrustRows \subseteq {"trust_cash"} \X Shards
      /\ RevenueRows \subseteq {"revenue"} \X Shards
  BY DEF Wallets, Wallet, TrustRows, Trust, RevenueRows, Revenue
<1>4. IsFiniteSet(Wallets) /\ IsFiniteSet(TrustRows) /\ IsFiniteSet(RevenueRows)
  BY <1>2, <1>3, FS_Subset
<1>5. IsFiniteSet(Escrows)
  <2> DEFINE P == Users \X EscrowSessions
             f == [p \in P |-> Escrow(p[1], p[2])]
  <2>1. IsFiniteSet(P)
    BY <1>1, FS_Product
  <2>2. Escrows \subseteq {f[p] : p \in P}
    <3> SUFFICES ASSUME NEW u \in Users, NEW n \in EscrowSessions
                 PROVE  \E p \in P : Escrow(u, n) = f[p]
      BY DEF Escrows
    <3>1. <<u, n>> \in P /\ f[<<u, n>>] = Escrow(u, n)
      OBVIOUS
    <3> QED BY <3>1
  <2>3. IsFiniteSet({f[p] : p \in P})
    <3>1. f \in Surjection(P, {f[p] : p \in P})
      BY DEF Surjection
    <3> HIDE DEF f, P
    <3> QED BY <2>1, <3>1, FS_Surjection
  <2> QED BY <2>2, <2>3, FS_Subset
<1>6. IsFiniteSet(Custodial)
  BY <1>4, <1>5, FS_Union DEF Custodial
<1>7. IsFiniteSet({Earned} \cup {Reserve}) /\ {Earned, Reserve} = {Earned} \cup {Reserve}
  BY FS_Singleton, FS_Union
<1> QED BY <1>1, <1>4, <1>6, <1>7, FS_Union DEF Accounts

(* No two kinds of row meet. *)
LEMMA AccountsApart ==
  /\ \A u \in Users : Wallet(u) \in Custodial /\ Wallet(u) \in Accounts
  /\ \A s \in Shards : Trust(s) \in TrustRows /\ Revenue(s) \in RevenueRows
                       /\ Trust(s) \in Accounts /\ Revenue(s) \in Accounts
  /\ 0 \in Shards /\ Earned \in Accounts /\ Reserve \in Accounts /\ Earned # Reserve
  /\ Custodial \cap TrustRows = {} /\ Custodial \cap RevenueRows = {} /\ TrustRows \cap RevenueRows = {}
  /\ {Earned, Reserve} \cap (Custodial \cup TrustRows \cup RevenueRows) = {}
  /\ \A u, v : Wallet(u) = Wallet(v) => u = v
  /\ \A s, r : (Trust(s) = Trust(r) => s = r) /\ (Revenue(s) = Revenue(r) => s = r)
  /\ Custodial \subseteq Accounts /\ TrustRows \subseteq Accounts /\ RevenueRows \subseteq Accounts
  /\ Wallets \subseteq Custodial
BY TreasuryAssumption DEF Wallet, Wallets, Escrow, Escrows, Custodial, Trust, TrustRows, Revenue,
   RevenueRows, Earned, Reserve, Accounts

(* Users' rows are theirs. *)
LEMMA UserRows ==
  ASSUME NEW u \in Users
  PROVE  /\ \A n \in EscrowSessions : Escrow(u, n) \in Custodial /\ Escrow(u, n) # Wallet(u)
         /\ \A n : LaneRow(u, n) \in Custodial /\ LaneRow(u, n)[2] = u
BY DEF LaneRow, Escrow, Escrows, Wallet, Wallets, Custodial

-----------------------------------------------------------------------------
(* What the postings move. *)

Typed == postings \in Seq(Posting) /\ balance \in [Accounts -> Int]

LEMMA PostingsTyped ==
  ASSUME NEW ps \in Seq(Posting)
  PROVE  /\ DOMAIN ps = 1..Len(ps) /\ Len(ps) \in Nat /\ IsFiniteSet(DOMAIN ps)
         /\ \A i \in DOMAIN ps :
              /\ ps[i] \in Posting
              /\ DOMAIN ps[i].delta \subseteq Accounts
              /\ \A a \in DOMAIN ps[i].delta : ps[i].delta[a] \in Int
<1>1. DOMAIN ps = 1..Len(ps) /\ Len(ps) \in Nat
  OBVIOUS
<1>2. IsFiniteSet(1..Len(ps))
  BY <1>1, FS_Interval
<1>3. \A i \in DOMAIN ps : ps[i] \in Posting
  OBVIOUS
<1> QED BY <1>1, <1>2, <1>3 DEF Posting

LEMMA PostingsAre ==
  ASSUME Typed
  PROVE  /\ DOMAIN postings = 1..Len(postings) /\ Len(postings) \in Nat
         /\ IsFiniteSet(DOMAIN postings)
         /\ \A i \in DOMAIN postings :
              /\ postings[i] \in Posting
              /\ DOMAIN postings[i].delta \subseteq Accounts
              /\ \A a \in DOMAIN postings[i].delta : postings[i].delta[a] \in Int
BY PostingsTyped DEF Typed

Delta(a) == [i \in Of(DOMAIN postings, a) |-> postings[i].delta[a]]

LEMMA MovedIs ==
  ASSUME Typed, NEW a, NEW S \in SUBSET Of(DOMAIN postings, a)
  PROVE  /\ IsFiniteSet(S) /\ Ints(Delta(a), S) /\ Ints([i \in S |-> postings[i].delta[a]], S)
         /\ Moved(a, S) = Total(Delta(a), S) /\ Moved(a, S) \in Int
<1>1. IsFiniteSet(S)
  BY PostingsAre, FS_Subset DEF Of
<1>2. Ints(Delta(a), S) /\ Ints([i \in S |-> postings[i].delta[a]], S)
  BY PostingsAre DEF Ints, Delta, Of
<1>3. \A i \in S : [j \in S |-> postings[j].delta[a]][i] = Delta(a)[i]
  BY DEF Delta
<1>4. Moved(a, S) = Total(Delta(a), S)
  BY <1>1, <1>3, TotalSame DEF Moved
<1> QED BY <1>1, <1>2, <1>4, TotalType

(* Lots are numbered among the postings, and raise the account. *)
LEMMA LotsAre ==
  ASSUME Typed, NEW a
  PROVE  /\ Lots(a) \subseteq Of(DOMAIN postings, a) /\ Lots(a) \subseteq 1..Len(postings)
         /\ IsFiniteSet(Lots(a))
         /\ \A i \in Lots(a) : postings[i].delta[a] \in Nat \ {0} /\ Delta(a)[i] = postings[i].delta[a]
                               /\ i > pruned
<1>1. Lots(a) \subseteq Of(DOMAIN postings, a)
  BY DEF Lots, Of, Hot
<1>2. \A i \in Lots(a) : i > pruned
  BY DEF Lots, Of, Hot
<1>3. \A i \in Of(DOMAIN postings, a) : i \in DOMAIN postings /\ a \in DOMAIN postings[i].delta
  BY DEF Of
<1>4. \A i \in Lots(a) : postings[i].delta[a] > 0
  BY DEF Lots
<1>5. IsFiniteSet(Lots(a))
  BY <1>1, MovedIs
<1>6. Lots(a) \subseteq 1..Len(postings)
  BY <1>1, <1>3, PostingsAre
<1>7. \A i \in Lots(a) : postings[i].delta[a] \in Int
  BY <1>1, <1>3, PostingsAre
<1>8. \A i \in Lots(a) : Delta(a)[i] = postings[i].delta[a]
  BY <1>1 DEF Delta
<1> QED BY <1>1, <1>2, <1>4, <1>5, <1>6, <1>7, <1>8

LEMMA SliceType ==
  ASSUME Typed, NEW a \in Accounts
  PROVE  \A i \in Lots(a) : Slice(a, i) \in Nat
<1> SUFFICES ASSUME NEW i \in Lots(a) PROVE Slice(a, i) \in Nat
  OBVIOUS
<1> DEFINE newer == {j \in Lots(a) : j > i}
<1>1. Moved(a, newer) \in Int
  BY LotsAre, MovedIs
<1>2. balance[a] \in Int
  BY DEF Typed
<1>3. postings[i].delta[a] \in Int
  BY LotsAre
<1>4. balance[a] - Moved(a, newer) \in Int
  BY <1>1, <1>2
<1>5. Slice(a, i) = Within(balance[a] - Moved(a, newer), postings[i].delta[a])
  BY DEF Slice
<1> HIDE DEF newer
<1> QED BY <1>3, <1>4, <1>5, WithinIs

LEMMA MaturedType ==
  ASSUME Typed, NEW a \in Accounts
  PROVE  MaturedBalance(a) \in Nat
<1> DEFINE matured == {i \in Lots(a) : IsMatured(i)}
<1>1. IsFiniteSet(matured)
  BY LotsAre, FS_Subset
<1>2. \A i \in matured : [j \in matured |-> Slice(a, j)][i] \in Nat
  BY SliceType
<1>3. Total([i \in matured |-> Slice(a, i)], matured) \in Nat
  <2> HIDE DEF matured
  <2> QED BY <1>1, <1>2, TotalNat
<1> QED BY <1>3 DEF MaturedBalance

LEMMA SweepableIs ==
  ASSUME Typed, NEW trust \in Int, NEW owed \in Int
  PROVE  /\ Sweepable(trust, owed) \in Nat
         /\ \A n \in Nat \ {0} : n <= Sweepable(trust, owed) => n <= UsdToCredit(trust) - owed
<1> DEFINE surplus == UsdToCredit(trust) - owed
           f == [r \in RevenueRows |-> MaturedBalance(r)]
<1>1. surplus \in Int
  BY RatesWhole
<1>2. MaturedRevenue \in Nat
  <2>1. \A r \in RevenueRows : f[r] \in Nat
    BY MaturedType, AccountsApart
  <2>2. Total(f, RevenueRows) \in Nat
    <3> HIDE DEF f
    <3> QED BY <2>1, AccountsFinite, TotalNat
  <2> QED BY <2>2 DEF MaturedRevenue
<1> HIDE DEF f, surplus
<1>3. Sweepable(trust, owed) = Max({0, Min({surplus, MaturedRevenue})})
  BY DEF Sweepable, surplus
<1>4. Min({surplus, MaturedRevenue}) = (IF surplus <= MaturedRevenue THEN surplus ELSE MaturedRevenue)
  BY <1>1, <1>2, LesserIs
<1>5. Min({surplus, MaturedRevenue}) \in Int
  BY <1>1, <1>2, <1>4
<1>6. Sweepable(trust, owed) = IF Min({surplus, MaturedRevenue}) > 0
                               THEN Min({surplus, MaturedRevenue}) ELSE 0
  BY <1>3, <1>5, AtLeastZero
<1>7. Sweepable(trust, owed) \in Nat
  BY <1>5, <1>6
<1>8. \A n \in Nat \ {0} : n <= Sweepable(trust, owed) => n <= surplus
  BY <1>1, <1>2, <1>4, <1>6
<1> QED BY <1>7, <1>8 DEF surplus

LEMMA DrainedType ==
  ASSUME Typed, NEW s \in Shards, NEW amount \in Int
  PROVE  Drained(s, amount) \in Int
<1> DEFINE matured == [r \in Shards |-> MaturedBalance(Revenue(r))]
           before == {r \in Shards : r < s}
<1>1. \A r \in Shards : matured[r] \in Nat
  BY MaturedType, AccountsApart
<1>2. Drained(s, amount) = Within(amount - Total(matured, before), matured[s])
  BY DEF Drained
<1>3. IsFiniteSet(before) /\ before \subseteq Shards
  BY AccountsFinite, FS_Subset
<1> HIDE DEF matured, before
<1>4. Total(matured, before) \in Int
  BY <1>1, <1>3, TotalType DEF Ints
<1>5. amount - Total(matured, before) \in Int /\ matured[s] \in Int
  BY <1>1, <1>4
<1> QED BY <1>2, <1>5, WithinIs

-----------------------------------------------------------------------------
(* A posting. *)

Leg(delta, a) == IF a \in DOMAIN delta THEN delta[a] ELSE 0

(* It adds its legs to the balances, and itself to the postings. *)
Booked(source, kind, delta) ==
  /\ postings' = Append(postings, [at |-> now, source |-> source, kind |-> kind, delta |-> delta])
  /\ Ledger'
  /\ \A a \in Accounts : balance'[a] = balance[a] + Leg(delta, a)

LEMMA Booking ==
  ASSUME Ledger, now \in 0..MaxTime, now' = now,
         NEW kind \in Kinds, NEW source \in DOMAIN HorizonOf,
         NEW delta, delta \in [DOMAIN delta -> Int], DOMAIN delta \subseteq Accounts,
         Lawful(kind, delta),
         Post(kind, source, delta)
  PROVE  Booked(source, kind, delta)
<1> DEFINE p == [at |-> now, source |-> source, kind |-> kind, delta |-> delta]
           n == Len(postings) + 1
           D == DOMAIN delta
<1>0. Typed /\ Len(postings) \in Nat /\ DOMAIN postings = 1..Len(postings)
  BY PostingsAre DEF Ledger, Typed
<1>1. p \in Posting /\ DOMAIN delta = D /\ delta \in UNION {[A -> Int] : A \in SUBSET Accounts}
  BY DEF Posting
<1>2. postings' = Append(postings, p)
  BY DEF Post
<1>3. postings' \in Seq(Posting)
  BY <1>0, <1>1, <1>2, AppendProperties DEF Typed
<1>4. Len(postings') = n /\ DOMAIN postings' = 1..n /\ postings'[n] = p
      /\ \A i \in DOMAIN postings : postings'[i] = postings[i]
  <2> HIDE DEF p
  <2> QED BY <1>0, <1>1, <1>2, <1>3 DEF Typed
<1>5. balance' = [a \in Accounts |-> balance[a] + Leg(delta, a)]
  BY DEF Post, Leg
<1>6. \A a \in Accounts : Leg(delta, a) \in Int
  BY <1>1 DEF Leg
<1>7. balance' \in [Accounts -> Int]
  BY <1>0, <1>5, <1>6 DEF Typed
<1>8. Typed'
  BY <1>3, <1>7 DEF Typed
<1>9. \A i \in DOMAIN postings' : i \in DOMAIN postings \/ i = n
  BY <1>0, <1>4
<1>10. \A i \in DOMAIN postings' :
         /\ postings'[i].at <= now'
         /\ Lawful(postings'[i].kind, postings'[i].delta)
  BY <1>1, <1>4, <1>9 DEF Ledger
<1>11. ASSUME NEW a \in Accounts PROVE balance'[a] = Moved(a, Of(DOMAIN postings, a))'
  <2> DEFINE S == Of(DOMAIN postings, a)
  <2>1. n \notin S /\ S \subseteq DOMAIN postings
    BY <1>0 DEF Of
  <2>2. S' = IF a \in D THEN S \cup {n} ELSE S
    <3>1. S' = {i \in DOMAIN postings' : a \in DOMAIN postings'[i].delta}
      BY DEF Of
    <3>2. n \in DOMAIN postings' /\ DOMAIN postings \subseteq DOMAIN postings'
      BY <1>0, <1>4
    <3>3. postings'[n].delta = delta
      BY <1>4
    <3> QED BY <1>1, <1>4, <1>9, <3>1, <3>2, <3>3 DEF Of
  <2>3. \A i \in S : Delta(a)'[i] = Delta(a)[i]
    BY <1>4, <2>1, <2>2 DEF Delta
  <2>4. IsFiniteSet(S) /\ Ints(Delta(a), S) /\ Moved(a, S) = Total(Delta(a), S) /\ Moved(a, S) \in Int
    BY <1>0, MovedIs
  <2>5. Delta(a)' = [i \in S' |-> postings'[i].delta[a]]
    BY DEF Delta
  <2>6. Moved(a, S)' = Total(Delta(a)', S') /\ Ints(Delta(a)', S')
    <3>1. S' = {i \in DOMAIN postings' : a \in DOMAIN postings'[i].delta}
      BY DEF Of
    <3>2. Ints(Delta(a)', S')
      BY <1>3, <2>5, <3>1, PostingsTyped DEF Ints
    <3>3. Moved(a, S)' = Total(Delta(a)', S')
      BY <2>5 DEF Moved
    <3> QED BY <3>2, <3>3
  <2>7. Total(Delta(a)', S) = Moved(a, S)
    BY <2>3, <2>4, TotalSame
  <2>8. balance[a] = Moved(a, S)
    BY DEF Ledger
  <2>9. CASE a \in D
    <3>1. Delta(a)'[n] = delta[a] /\ delta[a] \in Int
      BY <1>1, <1>4, <2>2, <2>9 DEF Delta
    <3>2. Ints(Delta(a)', S)
      BY <2>2, <2>6, <2>9 DEF Ints
    <3>3. Total(Delta(a)', S \cup {n}) = Total(Delta(a)', S) + delta[a]
      <4> HIDE DEF S
      <4> QED BY <2>1, <2>4, <3>1, <3>2, TotalAdd
    <3> QED BY <1>1, <1>5, <2>2, <2>6, <2>7, <2>8, <2>9, <3>3 DEF Leg
  <2>10. CASE a \notin D
    BY <1>0, <1>1, <1>5, <2>2, <2>6, <2>7, <2>8, <2>10 DEF Leg, Typed
  <2> QED BY <2>9, <2>10
<1>12. Ledger'
  BY <1>3, <1>7, <1>10, <1>11 DEF Ledger
<1> QED BY <1>2, <1>5, <1>12 DEF Booked

-----------------------------------------------------------------------------
(* The sweeps under the steps of others. *)

LEMMA LocksHeld ==
  ASSUME JobsOK, NEW w \in Sweeps, Holds(w)
  PROVE  Trust(0) \in Locked /\ RevenueRows \subseteq Locked
<1>1. job[w].locks = LockSet
  BY DEF JobsOK, JobOK, Holds
<1>2. LockSet \subseteq Locked
  BY <1>1 DEF Locked
<1> QED BY <1>2 DEF LockSet

(* A job but for the mark. *)
Same(j, k) ==
  /\ k.pc = j.pc /\ k.todo = j.todo /\ k.trust = j.trust /\ k.owed = j.owed
  /\ k.amount = j.amount /\ k.key = j.key /\ k.locks = j.locks

LEMMA JobsKept ==
  ASSUME JobsOK, job' \in [Sweeps -> Job], \A w \in Sweeps : Same(job[w], job'[w]),
         now \in Nat, now' \in Nat, now <= now'
  PROVE  JobsOK' /\ \A w \in Sweeps : Holds(w)' = Holds(w) /\ Todo(w)' = Todo(w)
<1>1. \A w \in Sweeps : Holds(w)' = Holds(w) /\ Todo(w)' = Todo(w)
  BY DEF Same, Holds, Todo
<1>2. ASSUME NEW w \in Sweeps PROVE JobOK(job[w])'
  <2>1. JobOK(job[w]) /\ Same(job[w], job'[w]) /\ job[w] \in Job /\ job'[w] \in Job
    BY DEF JobsOK
  <2>2. job'[w].key <= now'
    BY <2>1 DEF JobOK, Same, Job
  <2> QED BY <2>1, <2>2 DEF JobOK, Same
<1> QED BY <1>1, <1>2 DEF JobsOK

LEMMA JobsSame ==
  ASSUME JobsOK, UNCHANGED job, now \in Nat, now' \in Nat, now <= now'
  PROVE  JobsOK' /\ \A w \in Sweeps : Holds(w)' = Holds(w) /\ Todo(w)' = Todo(w)
<1>1. job' \in [Sweeps -> Job] /\ \A w \in Sweeps : Same(job[w], job'[w])
  BY DEF JobsOK, Same
<1> QED BY <1>1, JobsKept

LEMMA Raising ==
  ASSUME JobsOK, NEW rows, NEW from, Mark(rows, from), now \in Nat, now' = now
  PROVE  /\ JobsOK'
         /\ \A w \in Sweeps :
              /\ Holds(w)' = Holds(w) /\ Todo(w)' = Todo(w) /\ Same(job[w], job'[w])
              /\ Holds(w) /\ ~job'[w].unseen =>
                   /\ ~job[w].unseen
                   /\ rows \subseteq Todo(w) \/ ~(from \subseteq Todo(w))
<1> DEFINE Misses(j) == \E a \in rows : Missed(j, a, from)
<1>1. \A w \in Sweeps : job'[w] = [job[w] EXCEPT !.unseen = @ \/ Misses(job[w])]
  BY DEF Mark
<1>2. \A w \in Sweeps : job[w] \in Job
  BY DEF JobsOK
<1>3. \A w \in Sweeps : /\ job'[w] \in Job /\ Same(job[w], job'[w])
                        /\ job'[w].unseen = (job[w].unseen \/ Misses(job[w]))
  <2> SUFFICES ASSUME NEW w \in Sweeps
               PROVE  /\ job'[w] \in Job /\ Same(job[w], job'[w])
                      /\ job'[w].unseen = (job[w].unseen \/ Misses(job[w]))
    OBVIOUS
  <2> DEFINE missed == Misses(job[w])
  <2>1. missed \in BOOLEAN /\ job[w] \in Job /\ job[w].unseen \in BOOLEAN
    BY <1>2 DEF Job
  <2>2. job'[w] = [job[w] EXCEPT !.unseen = @ \/ missed]
    BY <1>1
  <2> HIDE DEF missed
  <2>3. (job[w].unseen \/ missed) \in BOOLEAN
    BY <2>1
  <2>4. Same(job[w], job'[w]) /\ job'[w].unseen = (job[w].unseen \/ missed) /\ job'[w] \in Job
    BY <2>1, <2>2, <2>3 DEF Job, Same
  <2> QED BY <2>4 DEF missed
<1>4. job' \in [Sweeps -> Job]
  BY <1>3 DEF Mark
<1>5. JobsOK' /\ \A w \in Sweeps : Holds(w)' = Holds(w) /\ Todo(w)' = Todo(w)
  BY <1>3, <1>4, JobsKept
<1>6. ASSUME NEW w \in Sweeps, Holds(w), ~job'[w].unseen
      PROVE  ~job[w].unseen /\ (rows \subseteq Todo(w) \/ ~(from \subseteq Todo(w)))
  <2>1. job[w].locks # {}
    BY <1>6 DEF JobsOK, JobOK, LockSet, Holds
  <2> QED BY <1>3, <1>6, <2>1 DEF Missed, Todo
<1> QED BY <1>3, <1>5, <1>6

(* The credits and the cash a sweep is done with are sums. *)
LEMMA RestType ==
  ASSUME Typed, NEW A
  PROVE  /\ IsFiniteSet(TrustRows \ A) /\ Ints(balance, TrustRows \ A)
         /\ Total(balance, TrustRows \ A) \in Int
         /\ IsFiniteSet(Custodial \ A) /\ Ints(balance, Custodial \ A)
         /\ Total(balance, Custodial \ A) \in Int
<1>1. IsFiniteSet(TrustRows \ A) /\ IsFiniteSet(Custodial \ A)
  BY AccountsFinite, FS_Subset
<1>2. Ints(balance, TrustRows \ A) /\ Ints(balance, Custodial \ A)
  BY AccountsApart DEF Ints, Typed
<1> QED BY <1>1, <1>2, TotalType

(* Steps that leave what users hold and the trust rows alone leave what is counted. *)
LEMMA CountKept ==
  ASSUME Typed, JobsOK, Counted, UNCHANGED job,
         \A a \in Custodial \cup TrustRows : balance'[a] = balance[a]
  PROVE  Counted'
<1> SUFFICES ASSUME NEW w \in Sweeps, Holds(w), ~job[w].unseen PROVE RestCovered(w)'
  BY DEF Counted, Holds
<1>1. RestCovered(w)
  BY DEF Counted
<1> DEFINE cash == TrustRows \ Todo(w)
           credits == Custodial \ Todo(w)
<1>2. IsFiniteSet(cash) /\ IsFiniteSet(credits) /\ \A a \in cash \cup credits : balance'[a] = balance[a]
  BY RestType
<1>3. Total(balance', cash) = Total(balance, cash) /\ Total(balance', credits) = Total(balance, credits)
  <2> HIDE DEF cash, credits
  <2> QED BY <1>2, TotalSame
<1> QED BY <1>1, <1>3 DEF RestCovered, Todo

(* So do those that wait for the locks. *)
LEMMA NoneCounts ==
  ASSUME JobsOK, UNCHANGED job, Trust(0) \notin Locked \/ \E s \in Shards : Revenue(s) \notin Locked
  PROVE  Counted' /\ \A w \in Sweeps : ~Holds(w)
<1>1. \A w \in Sweeps : ~Holds(w)
  BY LocksHeld, AccountsApart
<1> QED BY <1>1 DEF Counted, Holds

-----------------------------------------------------------------------------
(* The operations. *)

LEMMA Known ==
  ASSUME IInv
  PROVE  /\ Typed /\ Ledger /\ Guarded /\ JobsOK /\ Counted /\ RestOK /\ SessionsOK
         /\ now \in Nat /\ now \in 0..MaxTime /\ now <= now
         /\ \A a \in Accounts : balance[a] \in Int
         /\ "unknown" \in DOMAIN HorizonOf /\ \A source \in Sources : source \in DOMAIN HorizonOf
<1>1. Typed /\ Ledger /\ Guarded /\ JobsOK /\ Counted /\ RestOK /\ SessionsOK
  BY DEF IInv, Typed, Ledger
<1>2. now \in 0..MaxTime /\ MaxTime \in Nat
  BY <1>1, TreasuryAssumption DEF RestOK
<1>3. now \in Nat /\ now <= now
  BY <1>2
<1>4. \A a \in Accounts : balance[a] \in Int
  BY <1>1 DEF Typed
<1>5. "unknown" \in DOMAIN HorizonOf /\ \A source \in Sources : source \in DOMAIN HorizonOf
  BY TreasuryAssumption
<1> QED BY <1>1, <1>2, <1>3, <1>4, <1>5

(* One more posting leaves the others where they were. *)
LEMMA OneMore ==
  ASSUME IInv, NEW source, NEW kind, NEW delta, Booked(source, kind, delta)
  PROVE  /\ Len(postings) \in Nat /\ Len(postings') = Len(postings) + 1
         /\ DOMAIN postings = 1..Len(postings) /\ DOMAIN postings' = 1..Len(postings')
         /\ \A i \in DOMAIN postings : postings'[i] = postings[i] /\ i \in DOMAIN postings'
         /\ Len(postings) + 1 \in DOMAIN postings' /\ postings'[Len(postings) + 1].kind = kind
<1> DEFINE p == [at |-> now, source |-> source, kind |-> kind, delta |-> delta]
<1>1. postings \in Seq(Posting) /\ postings' \in Seq(Posting) /\ postings' = Append(postings, p)
  BY DEF Booked, Ledger, IInv
<1>2. p.kind = kind
  OBVIOUS
<1> HIDE DEF p
<1> QED BY <1>1, <1>2

(* So the sessions' postings stand, the new one among them perhaps. *)
LEMMA SessionsKept ==
  ASSUME IInv, NEW source, NEW kind, NEW delta, Booked(source, kind, delta),
         epoch' \in [Sessions -> Epoch], asks' \subseteq Moves,
         \A n \in Sessions : \A i \in epoch'[n].chunks :
           i \in epoch[n].chunks \/ (kind = "net" /\ i = Len(postings) + 1)
  PROVE  SessionsOK'
BY OneMore, Known DEF SessionsOK

(* And the archive and the refunds stay in range. *)
LEMMA RangesKept ==
  ASSUME IInv, NEW source, NEW kind, NEW delta, Booked(source, kind, delta),
         UNCHANGED <<pruned, sweeps, now>>,
         undone' \subseteq DOMAIN postings, \A i \in undone' : postings[i].kind # "reverse",
         payout' \in SUBSET Nat, keys' \subseteq 0..now
  PROVE  RestOK' /\ (UNCHANGED <<epoch, asks>> => SessionsOK')
<1>1. pruned \in 0..Len(postings')
  BY OneMore, Known DEF RestOK
<1>2. ASSUME UNCHANGED <<epoch, asks>> PROVE SessionsOK'
  BY <1>2, SessionsKept, Known DEF SessionsOK
<1> QED BY <1>1, <1>2, OneMore, Known DEF RestOK

LEMMA CoverAdds ==
  ASSUME NEW x \in Int, NEW y \in Int, NEW c \in Int, NEW d \in Int,
         x * ParDen >= y * ParNum, c * ParDen >= d * ParNum
  PROVE  (x + c) * ParDen >= (y + d) * ParNum
<1>1. ParDen \in Int /\ ParNum \in Int
  BY Constants
<1>2. (x + c) * ParDen = x * ParDen + c * ParDen /\ (y + d) * ParNum = y * ParNum + d * ParNum
  BY <1>1
<1>3. x * ParDen \in Int /\ c * ParDen \in Int /\ y * ParNum \in Int /\ d * ParNum \in Int
  BY <1>1
<1> QED BY <1>2, <1>3

Backs(c, n) == c * ParDen >= n * ParNum
Raised(a, n, r, c) ==
  /\ \A b \in Custodial : balance'[b] = balance[b] + (IF b = a THEN n ELSE 0)
  /\ \A b \in TrustRows : balance'[b] = balance[b] + (IF b = r THEN c ELSE 0)

(* A wallet raised with cash, among what a sweep has not marked: the rest stays covered. *)
LEMMA RaiseCounted ==
  ASSUME IInv, NEW a \in Custodial, NEW r \in TrustRows, NEW n \in Nat, NEW c \in Int,
         Backs(c, n), Mark({a}, {r}), now' = now, Raised(a, n, r, c)
  PROVE  JobsOK' /\ Counted'
<1>1. JobsOK'
  BY Known, Raising
<1>2. ASSUME NEW w \in Sweeps, Holds(w), ~job'[w].unseen PROVE RestCovered(w)'
  <2> DEFINE T == TrustRows \ Todo(w)
             W == Custodial \ Todo(w)
             x == Total(balance, T) - job[w].trust
             y == Total(balance, W) - job[w].owed
  <2>1. /\ ~job[w].unseen /\ (a \in Todo(w) \/ r \notin Todo(w))
        /\ Todo(w)' = Todo(w) /\ Same(job[w], job'[w])
    BY <1>2, Known, Raising
  <2>2. x * ParDen >= y * ParNum
    BY <1>2, <2>1, Known DEF Counted, RestCovered
  <2>3. /\ IsFiniteSet(T) /\ Ints(balance, T) /\ Total(balance, T) \in Int
        /\ IsFiniteSet(W) /\ Ints(balance, W) /\ Total(balance, W) \in Int
    BY Known, RestType
  <2>4. /\ \A b \in T : balance'[b] = IF b = r THEN balance[b] + c ELSE balance[b]
        /\ \A b \in W : balance'[b] = IF b = a THEN balance[b] + n ELSE balance[b]
    BY Known, AccountsApart DEF Raised
  <2>5. job[w].trust \in Int /\ job[w].owed \in Int
    BY Known DEF JobsOK, Job
  <2>6. (IF r \in T THEN c ELSE 0) * ParDen >= (IF a \in W THEN n ELSE 0) * ParNum
    BY <2>1, Constants DEF Backs
  <2>7. RestCovered(w)' = ((Total(balance', T) - job[w].trust) * ParDen
                             >= (Total(balance', W) - job[w].owed) * ParNum)
    BY <2>1 DEF RestCovered, Same
  <2> DEFINE dc == IF r \in T THEN c ELSE 0
             dn == IF a \in W THEN n ELSE 0
  <2>8. dc \in Int /\ dn \in Int /\ dc * ParDen >= dn * ParNum
    BY <2>6
  <2>9. Total(balance', T) = Total(balance, T) + dc /\ Total(balance', W) = Total(balance, W) + dn
    <3>1. IsFiniteSet(T) /\ Ints(balance, T) /\ c \in Int
          /\ \A b \in T : balance'[b] = IF b = r THEN balance[b] + c ELSE balance[b]
      BY <2>3, <2>4
    <3>2. IsFiniteSet(W) /\ Ints(balance, W) /\ n \in Int
          /\ \A b \in W : balance'[b] = IF b = a THEN balance[b] + n ELSE balance[b]
      BY <2>3, <2>4
    <3> HIDE DEF T, W
    <3>3. Total(balance', T) = Total(balance, T) + (IF r \in T THEN c ELSE 0)
      BY <3>1, TotalShift
    <3>4. Total(balance', W) = Total(balance, W) + (IF a \in W THEN n ELSE 0)
      BY <3>2, TotalShift
    <3> QED BY <3>3, <3>4
  <2>10. /\ Total(balance', T) - job[w].trust = x + dc
         /\ Total(balance', W) - job[w].owed = y + dn /\ x \in Int /\ y \in Int
    <3> HIDE DEF T, W, dc, dn
    <3> QED BY <2>3, <2>5, <2>8, <2>9
  <2> HIDE DEF T, W, dc, dn, x, y
  <2> QED BY <2>2, <2>7, <2>8, <2>10, CoverAdds
<1>3. \A w \in Sweeps : Holds(w)' = Holds(w)
  BY Known, Raising
<1> QED BY <1>1, <1>2, <1>3 DEF Counted

(* No more is owed in the rows a sweep is done with, and no less cash is there. *)
LEMMA LessOwed ==
  ASSUME IInv, NEW w \in Sweeps, RestCovered(w), Same(job[w], job'[w]), balance' \in [Accounts -> Int],
         \A b \in TrustRows \ Todo(w) : balance'[b] >= balance[b],
         Total(balance', Custodial \ Todo(w)) \in Int,
         Total(balance', Custodial \ Todo(w)) <= Total(balance, Custodial \ Todo(w))
  PROVE  RestCovered(w)'
<1> DEFINE T == TrustRows \ Todo(w)
           W == Custodial \ Todo(w)
           x == Total(balance, T) - job[w].trust
           y == Total(balance, W) - job[w].owed
           c == Total(balance', T) - Total(balance, T)
           d == Total(balance', W) - Total(balance, W)
<1>1. /\ IsFiniteSet(T) /\ Ints(balance, T) /\ Total(balance, T) \in Int
      /\ Total(balance, W) \in Int
  BY Known, RestType
<1>2. Total(balance', T) \in Int /\ Total(balance', T) >= Total(balance, T)
  <2>1. Ints(balance', T) /\ \A b \in T : balance[b] <= balance'[b]
    BY Known, AccountsApart DEF Ints
  <2> HIDE DEF T
  <2> QED BY <1>1, <2>1, TotalLeq, TotalType
<1>3. job[w].trust \in Int /\ job[w].owed \in Int
  BY Known DEF JobsOK, Job
<1>4. Todo(w)' = Todo(w)
  BY DEF Same, Todo
<1>5. x * ParDen >= y * ParNum
  BY DEF RestCovered
<1>6. RestCovered(w)' = ((Total(balance', T) - job[w].trust) * ParDen
                           >= (Total(balance', W) - job[w].owed) * ParNum)
  BY <1>4 DEF RestCovered, Same
<1>7. Total(balance', T) - job[w].trust = x + c /\ Total(balance', W) - job[w].owed = y + d
      /\ x \in Int /\ y \in Int /\ d \in Int /\ -d \in Nat /\ c \in Nat
  <2>1. Total(balance', W) \in Int /\ Total(balance', W) <= Total(balance, W)
    OBVIOUS
  <2> HIDE DEF T, W
  <2> QED BY <1>1, <1>2, <1>3, <2>1
<1> HIDE DEF T, W, x, y, c, d
<1>8. c * ParDen >= d * ParNum
  <2>1. (-d) * ParNum \in Nat /\ d * ParNum = -((-d) * ParNum) /\ c * ParDen \in Nat
    BY <1>7, Constants
  <2> QED BY <2>1
<1>9. (x + c) * ParDen >= (y + d) * ParNum
  BY <1>5, <1>7, <1>8, CoverAdds
<1> QED BY <1>6, <1>7, <1>9

(* Of what a sweep that is not marked does not read any more, no credits were raised *)
(* and no cash was lowered.                                                          *)
LEMMA LoweredCounted ==
  ASSUME IInv, NEW rows, Mark(rows, {}), now' = now, balance' \in [Accounts -> Int],
         \A b \in TrustRows \ rows : balance'[b] >= balance[b],
         \A b \in Custodial \ rows : balance'[b] <= balance[b]
  PROVE  JobsOK' /\ Counted'
<1>1. JobsOK'
  BY Known, Raising
<1>2. ASSUME NEW w \in Sweeps, Holds(w), ~job'[w].unseen PROVE RestCovered(w)'
  <2> DEFINE W == Custodial \ Todo(w)
  <2>1. ~job[w].unseen /\ rows \subseteq Todo(w) /\ Same(job[w], job'[w])
    BY <1>2, Known, Raising
  <2>2. RestCovered(w)
    BY <1>2, <2>1, Known DEF Counted
  <2>3. IsFiniteSet(W) /\ Ints(balance, W) /\ Ints(balance', W)
    BY Known, RestType, AccountsApart DEF Ints
  <2>4. /\ \A b \in W : balance'[b] <= balance[b]
        /\ \A b \in TrustRows \ Todo(w) : balance'[b] >= balance[b]
    BY <2>1
  <2> HIDE DEF W
  <2>5. Total(balance', W) <= Total(balance, W) /\ Total(balance', W) \in Int
    BY <2>3, <2>4, TotalLeq, TotalType
  <2> QED BY <2>1, <2>2, <2>4, <2>5, LessOwed DEF W
<1>3. \A w \in Sweeps : Holds(w)' = Holds(w)
  BY Known, Raising
<1> QED BY <1>1, <1>2, <1>3 DEF Counted

(* No row was raised at all. *)
LEMMA NoneRaised ==
  ASSUME IInv, UNCHANGED job, now' = now, balance' \in [Accounts -> Int],
         \A b \in TrustRows : balance'[b] = balance[b],
         \A b \in Custodial : balance'[b] <= balance[b]
  PROVE  JobsOK' /\ Counted'
<1>1. JobsOK' /\ \A w \in Sweeps : Holds(w)' = Holds(w)
  BY Known, JobsSame
<1>2. ASSUME NEW w \in Sweeps, Holds(w), ~job[w].unseen PROVE RestCovered(w)'
  <2> DEFINE W == Custodial \ Todo(w)
  <2>1. RestCovered(w) /\ Same(job[w], job'[w])
    BY <1>2, Known DEF Counted, Same
  <2>2. IsFiniteSet(W) /\ Ints(balance, W) /\ Ints(balance', W)
    BY Known, RestType, AccountsApart DEF Ints
  <2>3. /\ \A b \in W : balance'[b] <= balance[b]
        /\ \A b \in TrustRows \ Todo(w) : balance'[b] >= balance[b]
    BY Known, AccountsApart
  <2> HIDE DEF W
  <2>4. Total(balance', W) <= Total(balance, W) /\ Total(balance', W) \in Int
    BY <2>2, <2>3, TotalLeq, TotalType
  <2> QED BY <2>1, <2>3, <2>4, LessOwed DEF W
<1> QED BY <1>1, <1>2 DEF Counted

(* Credits moved from one row to another, a sweep not marked reading the one raised *)
(* or done with the one they came from.                                             *)
LEMMA MoveCounted ==
  ASSUME IInv, NEW from \in Custodial, NEW to \in Custodial, from # to, NEW n \in Nat,
         Mark({to}, {from}), now' = now, balance' \in [Accounts -> Int],
         \A b \in TrustRows : balance'[b] = balance[b],
         \A b \in Custodial :
           balance'[b] = balance[b] + (IF b = to THEN n ELSE IF b = from THEN -n ELSE 0)
  PROVE  JobsOK' /\ Counted'
<1>1. JobsOK'
  BY Known, Raising
<1>2. ASSUME NEW w \in Sweeps, Holds(w), ~job'[w].unseen PROVE RestCovered(w)'
  <2> DEFINE W == Custodial \ Todo(w)
  <2>1. ~job[w].unseen /\ (to \in Todo(w) \/ from \notin Todo(w)) /\ Same(job[w], job'[w])
    BY <1>2, Known, Raising
  <2>2. RestCovered(w)
    BY <1>2, <2>1, Known DEF Counted
  <2>3. IsFiniteSet(W) /\ Ints(balance, W) /\ (to \in W => from \in W)
    BY <2>1, Known, RestType
  <2>4. Gave(balance, balance', W, from, to, n)
    <3>1. \A b \in Custodial : balance[b] \in Int
      BY Known, AccountsApart
    <3> QED BY <2>3, <3>1 DEF Gave
  <2>5. \A b \in TrustRows \ Todo(w) : balance'[b] >= balance[b]
    BY Known, AccountsApart
  <2> HIDE DEF W
  <2>6. Total(balance', W) <= Total(balance, W) /\ Total(balance', W) \in Int
    BY <2>3, <2>4, GaveWithin
  <2> QED BY <2>1, <2>2, <2>5, <2>6, LessOwed DEF W
<1>3. \A w \in Sweeps : Holds(w)' = Holds(w)
  BY Known, Raising
<1> QED BY <1>1, <1>2, <1>3 DEF Counted

LEMMA TopUpStep ==
  ASSUME IInv, NEW u \in Users, NEW s \in Shards, NEW source \in Sources, TopUp(u, s, source)
  PROVE  IInv'
<1> DEFINE D == {Wallet(u), Trust(s)}
           delta == [a \in D |-> IF a = Wallet(u) THEN TopUpAmount ELSE ParCeil(TopUpAmount)]
<1>1. /\ Post("topUp", source, delta) /\ Mark({Wallet(u)}, {Trust(s)})
      /\ UNCHANGED <<pruned, undone, payout, epoch, asks, keys, sweeps, now>>
  BY DEF TopUp, Commit
<1>2. delta \in [DOMAIN delta -> Int] /\ DOMAIN delta \subseteq Accounts
  BY AccountsApart, Constants, TopUpBacked
<1>3. Booked(source, "topUp", delta)
  <2>1. Ledger /\ now \in 0..MaxTime /\ now' = now /\ source \in DOMAIN HorizonOf
    BY <1>1, Known
  <2> HIDE DEF D, delta
  <2> QED BY <1>1, <1>2, <2>1, Booking DEF Kinds, Lawful
<1>4. Wallet(u) \in Custodial /\ Trust(s) \in TrustRows
  BY AccountsApart
<1>5. \A a \in Accounts : balance'[a] = balance[a] + 
         (IF a = Wallet(u) THEN TopUpAmount ELSE IF a = Trust(s) THEN ParCeil(TopUpAmount) ELSE 0)
  <2>1. \A a : Leg(delta, a) = IF a = Wallet(u) THEN TopUpAmount
                               ELSE IF a = Trust(s) THEN ParCeil(TopUpAmount) ELSE 0
    BY DEF Leg
  <2> HIDE DEF D, delta
  <2> QED BY <1>3, <2>1 DEF Booked
<1>6. Guarded'
  BY <1>1, <1>4, <1>5, Known, AccountsApart, Constants DEF Guarded
<1>7. JobsOK' /\ Counted'
  <2>1. \A b \in Custodial : balance'[b] = balance[b] + (IF b = Wallet(u) THEN TopUpAmount ELSE 0)
    BY <1>4, <1>5, AccountsApart
  <2>2. \A b \in TrustRows : balance'[b] = balance[b] + (IF b = Trust(s) THEN ParCeil(TopUpAmount) ELSE 0)
    BY <1>4, <1>5, AccountsApart
  <2>3. ParCeil(TopUpAmount) \in Int /\ ParCeil(TopUpAmount) * ParDen >= TopUpAmount * ParNum
        /\ TopUpAmount \in Nat
    BY Constants, TopUpBacked
  <2>4. Raised(Wallet(u), TopUpAmount, Trust(s), ParCeil(TopUpAmount))
    BY <2>1, <2>2 DEF Raised
  <2>5. Backs(ParCeil(TopUpAmount), TopUpAmount)
    BY <2>3 DEF Backs
  <2> QED BY <1>1, <1>4, <2>3, <2>4, <2>5, RaiseCounted
<1>8. RestOK' /\ SessionsOK'
  <2> HIDE DEF D, delta
  <2> QED BY <1>1, <1>3, Known, RangesKept DEF RestOK
<1> QED BY <1>3, <1>6, <1>7, <1>8 DEF IInv, Booked

LEMMA AdjustStep ==
  ASSUME IInv, NEW row \in Custodial, Adjust(row)
  PROVE  IInv'
<1> DEFINE D == {row}
           delta == [a \in D |-> Correction]
<1>1. /\ Post("adjust", "unknown", delta) /\ Mark({row}, {})
      /\ UNCHANGED <<pruned, undone, payout, epoch, asks, keys, sweeps, now>>
  BY DEF Adjust, Commit
<1>2. delta \in [DOMAIN delta -> Int] /\ DOMAIN delta \subseteq Accounts
  BY AccountsApart, Constants
<1>3. Booked("unknown", "adjust", delta)
  <2>1. Ledger /\ now \in 0..MaxTime /\ now' = now /\ "unknown" \in DOMAIN HorizonOf
    BY <1>1, Known
  <2> HIDE DEF D, delta
  <2> QED BY <1>1, <1>2, <2>1, Booking DEF Kinds, Lawful
<1>4. row \in Accounts /\ Trust(0) \in TrustRows
  BY AccountsApart
<1>5. \A a \in Accounts : balance'[a] = balance[a] + (IF a = row THEN Correction ELSE 0)
  BY <1>3, <1>4, AccountsApart DEF Booked, Leg
<1>6. Guarded'
  BY <1>1, <1>4, <1>5, Known, AccountsApart, Constants DEF Guarded
<1>7. JobsOK' /\ Counted'
  <2>1. \A b \in TrustRows : balance'[b] = balance[b]
    BY <1>4, <1>5, Known, AccountsApart
  <2>2. \A b \in Custodial \ {row} : balance'[b] <= balance[b]
    BY <1>5, Known, AccountsApart
  <2> DEFINE rows == {row}
  <2>3. Mark(rows, {}) /\ now' = now /\ balance' \in [Accounts -> Int]
    BY <1>1, <1>3 DEF Booked, Ledger
  <2>4. /\ \A b \in Custodial \ rows : balance'[b] <= balance[b]
        /\ \A b \in TrustRows \ rows : balance'[b] >= balance[b]
    BY <2>1, <2>2, Known, AccountsApart
  <2> HIDE DEF rows
  <2> QED BY <2>3, <2>4, LoweredCounted
<1>8. RestOK' /\ SessionsOK'
  <2> HIDE DEF D, delta
  <2> QED BY <1>1, <1>3, Known, RangesKept DEF RestOK
<1> QED BY <1>3, <1>6, <1>7, <1>8 DEF IInv, Booked

(* A posting again, every sign flipped: no user goes below zero, and no sweep that is *)
(* not marked is done with a row it raised for them, or one it took cash from.        *)
LEMMA FlipBooked ==
  ASSUME IInv, NEW i \in DOMAIN postings, Reserve \notin DOMAIN postings[i].delta,
         NEW kind \in {"netUndo", "reverse"}, Flip(kind, i), UNCHANGED <<payout, now>>
  PROVE  /\ Booked("unknown", kind, [a \in DOMAIN postings[i].delta |-> -postings[i].delta[a]])
         /\ Guarded' /\ JobsOK' /\ Counted'
<1> DEFINE was == postings[i].delta
           D == DOMAIN was
           delta == [a \in D |-> -was[a]]
           rows == {a \in D \cap Custodial : was[a] < 0} \cup {a \in D \cap TrustRows : was[a] > 0}
<1>1. /\ Post(kind, "unknown", delta) /\ Mark(rows, {})
      /\ \A a \in D \cap (Custodial \cup {Earned}) : balance[a] >= was[a]
  BY DEF Flip, Commit
<1>2. D \subseteq Accounts /\ Reserve \notin D /\ \A a \in D : was[a] \in Int
  BY PostingsAre, Known
<1>3. \A a \in D \ rows : /\ a \in Custodial => was[a] >= 0
                          /\ a \in TrustRows => was[a] <= 0
  BY <1>2
<1> HIDE DEF was, D
<1>4. delta \in [DOMAIN delta -> Int] /\ DOMAIN delta = D
  BY <1>2
<1>5. Booked("unknown", kind, delta)
  <2>1. Ledger /\ now \in 0..MaxTime /\ now' = now /\ "unknown" \in DOMAIN HorizonOf
    BY Known
  <2>2. kind \in Kinds /\ Lawful(kind, delta)
    BY DEF Kinds, Lawful
  <2> HIDE DEF delta, rows
  <2> QED BY <1>1, <1>2, <1>4, <2>1, <2>2, Booking
<1>6. \A a \in Accounts : balance'[a] = balance[a] + (IF a \in D THEN -was[a] ELSE 0)
  BY <1>5 DEF Booked, Leg
<1>7. Guarded'
  <2>1. ASSUME NEW a \in Custodial \cup {Earned} PROVE balance'[a] >= 0
    <3>1. a \in Accounts /\ balance[a] \in Int /\ balance[a] >= 0
      BY Known, AccountsApart DEF Guarded
    <3> QED BY <1>1, <1>2, <1>6, <3>1
  <2>2. balance'[Reserve] = balance[Reserve]
    BY <1>2, <1>6, Known, AccountsApart
  <2> QED BY <2>1, <2>2, Known DEF Guarded
<1>8. JobsOK' /\ Counted'
  <2> HIDE DEF rows, delta
  <2>1. \A b \in TrustRows \ rows : balance'[b] >= balance[b]
    BY <1>2, <1>3, <1>6, Known, AccountsApart
  <2>2. \A b \in Custodial \ rows : balance'[b] <= balance[b]
    BY <1>2, <1>3, <1>6, Known, AccountsApart
  <2>3. now' = now /\ balance' \in [Accounts -> Int]
    BY <1>5 DEF Booked, Ledger
  <2> QED BY <1>1, <2>1, <2>2, <2>3, LoweredCounted
<1> QED BY <1>5, <1>7, <1>8 DEF D, was

(* A sale out of a user's row that holds the price. *)
LEMMA SaleBooked ==
  ASSUME IInv, NEW row \in Custodial, NEW s \in Shards, NEW kind \in {"spend", "movement"},
         balance[row] >= Price, Commit(kind, "unknown", SaleDelta(row, s)),
         UNCHANGED <<payout, job, now>>
  PROVE  Booked("unknown", kind, SaleDelta(row, s)) /\ Guarded' /\ JobsOK' /\ Counted'
<1> DEFINE D == {row, Earned, Revenue(s)}
           delta == SaleDelta(row, s)
<1>1. Post(kind, "unknown", delta) /\ DOMAIN delta \cap Locked = {}
  BY DEF Commit
<1>2. delta \in [DOMAIN delta -> Int] /\ DOMAIN delta \subseteq Accounts /\ DOMAIN delta = D
      /\ D \subseteq Custodial \cup {Earned} \cup RevenueRows
  BY AccountsApart, Constants DEF SaleDelta
<1>3. Booked("unknown", kind, delta)
  <2>1. Ledger /\ now \in 0..MaxTime /\ now' = now /\ "unknown" \in DOMAIN HorizonOf
    BY Known
  <2>2. kind \in Kinds /\ Lawful(kind, delta)
    BY <1>2 DEF Kinds, Lawful
  <2> HIDE DEF D, delta
  <2> QED BY <1>1, <1>2, <2>1, <2>2, Booking
<1>4. /\ Revenue(s) \in RevenueRows /\ Revenue(s) \in D /\ row \in Accounts
      /\ row # Earned /\ Earned # Revenue(s) /\ row # Revenue(s) /\ row # Reserve
  BY AccountsApart
<1>5. \A a \in Custodial \cup {Earned, Reserve} :
         balance'[a] = balance[a] + (CASE a = row -> -Price
                                       [] a = Earned -> Price - Fee
                                       [] OTHER -> 0)
  <2>1. \A a \in Custodial \cup {Earned, Reserve} : a \in Accounts /\ a # Revenue(s)
    BY AccountsApart
  <2> QED BY <1>2, <1>3, <1>4, <2>1 DEF Booked, Leg, SaleDelta
<1>6. Guarded'
  BY <1>4, <1>5, Known, AccountsApart, Constants DEF Guarded
<1>7. JobsOK' /\ Counted'
  <2>1. Revenue(s) \notin Locked
    BY <1>1, <1>2, <1>4
  <2> QED BY <2>1, Known, NoneCounts, JobsSame
<1> QED BY <1>3, <1>6, <1>7

LEMMA SpendStep ==
  ASSUME IInv, NEW u \in Users, NEW s \in Shards, Spend(u, s)
  PROVE  IInv'
<1> DEFINE delta == SaleDelta(Wallet(u), s)
<1>1. /\ Commit("spend", "unknown", delta) /\ balance[Wallet(u)] >= Price
      /\ UNCHANGED <<pruned, undone, payout, epoch, asks, keys, job, sweeps, now>>
  BY DEF Spend
<1>2. Booked("unknown", "spend", delta) /\ Guarded' /\ JobsOK' /\ Counted'
  BY <1>1, AccountsApart, SaleBooked
<1>3. RestOK' /\ SessionsOK'
  <2> HIDE DEF delta
  <2> QED BY <1>1, <1>2, Known, RangesKept DEF RestOK
<1> QED BY <1>2, <1>3 DEF IInv, Booked

(* What is taken from an account is no more than it holds. *)
LEMMA TakenIs ==
  ASSUME NEW x \in Int, NEW y \in Int
  PROVE  /\ Max({0, Min({x, y})}) \in Nat
         /\ x >= 0 => Max({0, Min({x, y})}) <= x
<1>1. Min({x, y}) = (IF x <= y THEN x ELSE y)
  BY LesserIs
<1>2. Min({x, y}) \in Int
  BY <1>1
<1>3. Max({0, Min({x, y})}) = IF Min({x, y}) > 0 THEN Min({x, y}) ELSE 0
  BY <1>2, AtLeastZero
<1> QED BY <1>1, <1>3

LEMMA RefundStep ==
  ASSUME IInv, NEW i \in DOMAIN postings, Refund(i)
  PROVE  IInv'
<1> DEFINE D == DOMAIN postings[i].delta
           taken(a) == Max({0, Min({balance[a], postings[i].delta[a]})})
           delta == [a \in D |-> IF a \in Wallets THEN Price ELSE -taken(a)]
<1>1. /\ Post("refund", "unknown", delta) /\ Revenue(0) \notin Locked
      /\ undone' = undone \cup {i} /\ postings[i].kind = "spend"
      /\ UNCHANGED <<pruned, payout, epoch, asks, keys, job, sweeps, now>>
  BY DEF Refund, Commit
<1>2. D \subseteq Custodial \cup {Earned} \cup RevenueRows /\ D \subseteq Accounts
      /\ \A a \in D : postings[i].delta[a] \in Int
  BY <1>1, Known, PostingsAre DEF Ledger, Lawful
<1>3. \A a \in D : taken(a) \in Nat /\ (balance[a] >= 0 => taken(a) <= balance[a])
  BY <1>2, Known, TakenIs
<1>4. DOMAIN delta = D /\ delta \in [D -> Int]
  <2>1. \A a \in D : -taken(a) \in Int
    BY <1>3
  <2>2. Price \in Int
    BY Constants
  <2> HIDE DEF D, taken
  <2> QED BY <2>1, <2>2
<1>5. Booked("unknown", "refund", delta)
  <2>1. Ledger /\ now \in 0..MaxTime /\ now' = now /\ "unknown" \in DOMAIN HorizonOf
    BY <1>1, Known
  <2> HIDE DEF D, delta
  <2> QED BY <1>1, <1>2, <1>4, <2>1, Booking DEF Kinds, Lawful
<1>6. Guarded'
  <2>1. ASSUME NEW a \in Custodial PROVE balance'[a] >= 0
    <3>1. a \in Accounts /\ balance[a] \in Int /\ balance[a] >= 0
      BY Known, AccountsApart DEF Guarded
    <3>2. Leg(delta, a) \in {0, Price} \/ (a \in D /\ Leg(delta, a) = -taken(a))
      BY DEF Leg
    <3> HIDE DEF delta, taken
    <3> QED BY <1>3, <1>5, <3>1, <3>2, Constants DEF Booked
  <2>2. balance'[Earned] >= 0
    <3>1. balance[Earned] \in Int /\ balance[Earned] >= 0 /\ Earned \notin Wallets
      BY Known, AccountsApart DEF Guarded
    <3>2. Leg(delta, Earned) = 0 \/ (Earned \in D /\ Leg(delta, Earned) = -taken(Earned))
      BY <3>1 DEF Leg
    <3> HIDE DEF delta, taken
    <3> QED BY <1>3, <1>5, <3>1, <3>2, AccountsApart DEF Booked
  <2>3. balance'[Reserve] = balance[Reserve]
    <3>1. Reserve \notin D
      BY <1>2, AccountsApart
    <3>2. Leg(delta, Reserve) = 0 /\ balance[Reserve] \in Int
      BY <1>4, <3>1, Known, AccountsApart DEF Leg
    <3> HIDE DEF delta
    <3> QED BY <1>5, <3>2, AccountsApart DEF Booked
  <2> QED BY <1>1, <2>1, <2>2, <2>3, Known DEF Guarded
<1>7. JobsOK' /\ Counted'
  BY <1>1, Known, NoneCounts, JobsSame, AccountsApart
<1>8. RestOK' /\ SessionsOK'
  <2>1. /\ undone' \subseteq DOMAIN postings /\ (\A k \in undone' : postings[k].kind # "reverse")
        /\ payout' \in SUBSET Nat /\ keys' \subseteq 0..now
    BY <1>1, Known DEF RestOK
  <2> HIDE DEF D, delta
  <2> QED BY <1>1, <1>5, <2>1, RangesKept
<1> QED BY <1>5, <1>6, <1>7, <1>8 DEF IInv, Booked

LEMMA ReverseStep ==
  ASSUME IInv, NEW i \in DOMAIN postings, ReversePosting(i)
  PROVE  IInv'
<1>1. /\ Flip("reverse", i) /\ undone' = undone \cup {i} /\ postings[i].kind # "reverse"
      /\ Reserve \notin DOMAIN postings[i].delta
      /\ UNCHANGED <<pruned, payout, epoch, asks, keys, sweeps, now>>
  BY DEF ReversePosting
<1> DEFINE delta == [a \in DOMAIN postings[i].delta |-> -postings[i].delta[a]]
<1>2. Booked("unknown", "reverse", delta) /\ Guarded' /\ JobsOK' /\ Counted'
  BY <1>1, FlipBooked
<1> HIDE DEF delta
<1>3. RestOK' /\ SessionsOK'
  <2>1. /\ undone' \subseteq DOMAIN postings /\ (\A k \in undone' : postings[k].kind # "reverse")
        /\ payout' \in SUBSET Nat /\ keys' \subseteq 0..now
    BY <1>1, Known DEF RestOK
  <2> QED BY <1>1, <1>2, <2>1, RangesKept
<1> QED BY <1>2, <1>3 DEF IInv, Booked

LEMMA RequestPayoutStep ==
  ASSUME IInv, RequestPayout
  PROVE  IInv'
<1> DEFINE D == {Earned, Reserve}
           delta == [a \in D |-> IF a = Earned THEN -PayoutAmount ELSE PayoutAmount]
<1>1. /\ Post("reserve", "unknown", delta) /\ balance[Earned] >= PayoutAmount
      /\ payout = {} /\ payout' = {Quote(PayoutAmount)}
      /\ UNCHANGED <<pruned, undone, epoch, asks, keys, job, sweeps, now>>
  BY DEF RequestPayout, Commit
<1>2. delta \in [DOMAIN delta -> Int] /\ DOMAIN delta \subseteq Accounts
  BY AccountsApart, Constants
<1>3. Booked("unknown", "reserve", delta)
  <2>1. Ledger /\ now \in 0..MaxTime /\ now' = now /\ "unknown" \in DOMAIN HorizonOf
    BY <1>1, Known
  <2> HIDE DEF D, delta
  <2> QED BY <1>1, <1>2, <2>1, Booking DEF Kinds, Lawful
<1>4. \A a \in Accounts : balance'[a] = balance[a] +
         (IF a = Earned THEN -PayoutAmount ELSE IF a = Reserve THEN PayoutAmount ELSE 0)
  <2>1. \A a : Leg(delta, a) = IF a = Earned THEN -PayoutAmount
                               ELSE IF a = Reserve THEN PayoutAmount ELSE 0
    BY DEF Leg
  <2> HIDE DEF D, delta
  <2> QED BY <1>3, <2>1 DEF Booked
<1>5. Guarded'
  <2>1. \A a \in Custodial : balance'[a] = balance[a] /\ balance[a] >= 0
    BY <1>4, Known, AccountsApart DEF Guarded
  <2>2. balance'[Earned] >= 0
    BY <1>1, <1>4, Known, AccountsApart, Constants
  <2>3. balance'[Reserve] = PayoutAmount
    BY <1>1, <1>4, Known, AccountsApart, Constants DEF Guarded
  <2> QED BY <1>1, <2>1, <2>2, <2>3, Known DEF Guarded
<1>6. JobsOK' /\ Counted'
  <2>1. \A a \in Custodial \cup TrustRows : balance'[a] = balance[a]
    BY <1>4, Known, AccountsApart
  <2> QED BY <1>1, <2>1, Known, CountKept, JobsSame
<1>7. RestOK' /\ SessionsOK'
  <2>1. Quote(PayoutAmount) \in Nat
    <3>1. PayoutAmount * PayNum \in Nat
      BY Constants
    <3>2. (PayoutAmount * PayNum) \div PayDen \in Nat
      <4> DEFINE n == PayoutAmount * PayNum
      <4>1. n \in Nat
        BY <3>1
      <4> HIDE DEF n
      <4>2. n \div PayDen \in Nat
        BY <4>1, Constants
      <4> QED BY <4>2 DEF n
    <3> QED BY <3>2 DEF Quote
  <2>2. /\ undone' \subseteq DOMAIN postings /\ (\A k \in undone' : postings[k].kind # "reverse")
        /\ payout' \in SUBSET Nat /\ keys' \subseteq 0..now
    BY <1>1, <2>1, Known DEF RestOK
  <2> HIDE DEF D, delta
  <2> QED BY <1>1, <1>3, <2>2, RangesKept
<1> QED BY <1>3, <1>5, <1>6, <1>7 DEF IInv, Booked

LEMMA SettlePayoutStep ==
  ASSUME IInv, SettlePayout
  PROVE  IInv'
<1>1. PICK usd \in payout :
        Commit("settle", "unknown",
               [a \in {Reserve, Revenue(0), Trust(0)} |->
                 CASE a = Reserve    -> -PayoutAmount
                   [] a = Revenue(0) -> PayoutAmount
                   [] a = Trust(0)   -> -usd])
  BY DEF SettlePayout
<1> DEFINE D == {Reserve, Revenue(0), Trust(0)}
           delta == [a \in D |-> CASE a = Reserve    -> -PayoutAmount
                                   [] a = Revenue(0) -> PayoutAmount
                                   [] a = Trust(0)   -> -usd]
<1>2. /\ Post("settle", "unknown", delta) /\ D \cap Locked = {}
      /\ payout # {} /\ payout' = {}
      /\ UNCHANGED <<pruned, undone, epoch, asks, keys, job, sweeps, now>>
  BY <1>1 DEF SettlePayout, Commit
<1>3. usd \in Nat
  BY Known DEF RestOK
<1>4. delta \in [DOMAIN delta -> Int] /\ DOMAIN delta = D /\ D \subseteq Accounts
  BY <1>3, AccountsApart, Constants
<1>5. Booked("unknown", "settle", delta)
  <2>1. Ledger /\ now \in 0..MaxTime /\ now' = now /\ "unknown" \in DOMAIN HorizonOf
    BY <1>2, Known
  <2> HIDE DEF D, delta
  <2> QED BY <1>2, <1>4, <2>1, Booking DEF Kinds, Lawful
<1>6. Guarded'
  <2>1. \A a \in Custodial \cup {Earned} : a \notin D /\ a \in Accounts
    BY AccountsApart
  <2>2. \A a \in Custodial \cup {Earned} : Leg(delta, a) = 0
    BY <1>4, <2>1 DEF Leg
  <2>3. Leg(delta, Reserve) = -PayoutAmount
    <3>1. Reserve \in D /\ Reserve # Revenue(0) /\ Reserve # Trust(0)
      BY AccountsApart
    <3> QED BY <1>4, <3>1 DEF Leg
  <2> HIDE DEF D, delta
  <2>4. \A a \in Custodial \cup {Earned} : balance'[a] = balance[a]
    BY <1>5, <2>1, <2>2, Known DEF Booked
  <2>5. balance'[Reserve] = 0
    BY <1>2, <1>5, <2>3, Known, Constants, AccountsApart DEF Booked, Guarded
  <2> QED BY <1>2, <2>4, <2>5, Known DEF Guarded
<1>7. JobsOK' /\ Counted'
  <2>1. Trust(0) \notin Locked
    BY <1>2
  <2> QED BY <1>2, <2>1, Known, NoneCounts, JobsSame
<1>8. RestOK' /\ SessionsOK'
  <2>1. /\ undone' \subseteq DOMAIN postings /\ (\A k \in undone' : postings[k].kind # "reverse")
        /\ payout' \in SUBSET Nat /\ keys' \subseteq 0..now
    BY <1>2, Known DEF RestOK
  <2> HIDE DEF D, delta
  <2> QED BY <1>2, <1>5, <2>1, RangesKept
<1> QED BY <1>5, <1>6, <1>7, <1>8 DEF IInv, Booked

LEMMA QuietStep ==
  ASSUME IInv, Archive \/ Tick
  PROVE  IInv'
<1>1. /\ UNCHANGED <<postings, balance, undone, payout, epoch, asks, keys, job, sweeps>>
      /\ now' \in 0..MaxTime /\ now <= now' /\ pruned' \in 0..Len(postings)
  <2>1. now \in 0..MaxTime /\ pruned \in 0..Len(postings) /\ Len(postings) \in Nat /\ MaxTime \in Nat
    BY Known, PostingsAre, TreasuryAssumption DEF RestOK
  <2> QED BY <2>1 DEF Archive, Tick
<1>2. now \in Nat /\ now' \in Nat
  BY <1>1, Known
<1>3. Ledger'
  <2>1. \A i \in DOMAIN postings : postings[i].at \in Nat
    BY Known, PostingsAre DEF Posting
  <2>2. \A i \in DOMAIN postings : postings[i].at <= now'
    BY <1>1, <1>2, <2>1, Known DEF Ledger
  <2>3. \A a : Moved(a, Of(DOMAIN postings, a))' = Moved(a, Of(DOMAIN postings, a))
    BY <1>1 DEF Moved, Of
  <2> QED BY <1>1, <2>2, <2>3, Known DEF Ledger
<1>4. Guarded'
  BY <1>1, Known DEF Guarded
<1>5. JobsOK'
  BY <1>1, <1>2, Known, JobsSame
<1>6. Counted'
  BY <1>1, Known, CountKept
<1>7. RestOK' /\ SessionsOK'
  <2>1. keys \subseteq 0..now'
    BY <1>1, <1>2, Known DEF RestOK
  <2> QED BY <1>1, <2>1, Known DEF RestOK, SessionsOK
<1> QED BY <1>3, <1>4, <1>5, <1>6, <1>7 DEF IInv

-----------------------------------------------------------------------------
(* The sessions. *)

(* What posts nothing leaves the books alone. *)
LEMMA BooksSame ==
  ASSUME IInv, UNCHANGED <<postings, balance, payout, now>>
  PROVE  Ledger' /\ Guarded'
<1>1. \A a : Moved(a, Of(DOMAIN postings, a))' = Moved(a, Of(DOMAIN postings, a))
  BY DEF Moved, Of
<1> QED BY <1>1, Known DEF Ledger, Guarded

LEMMA SessionQuiet ==
  ASSUME IInv,
         UNCHANGED <<postings, balance, pruned, undone, payout, keys, job, sweeps, now>>,
         epoch' \in [Sessions -> Epoch], asks' \subseteq Moves,
         \A n \in Sessions : epoch'[n].chunks = epoch[n].chunks
  PROVE  IInv'
<1>1. JobsOK' /\ Counted'
  BY Known, JobsSame, CountKept
<1>2. RestOK' /\ SessionsOK'
  BY Known DEF RestOK, SessionsOK
<1> QED BY <1>1, <1>2, BooksSame DEF IInv

(* One session changes. *)
LEMMA EpochIs ==
  ASSUME IInv, NEW n \in Sessions
  PROVE  /\ epoch \in [Sessions -> Epoch] /\ epoch[n] \in Epoch
         /\ epoch[n].bought \in [Users -> Nat] /\ epoch[n].chunks \in SUBSET Nat
BY Known DEF SessionsOK, Epoch

LEMMA FundReadStep ==
  ASSUME IInv, NEW n \in Sessions, NEW u \in Users, FundRead(u, n)
  PROVE  IInv'
<1>1. Ask("fund", u, n, EscrowAmount) \in Moves
  BY Constants DEF FundRead, Ask, Moves
<1> QED BY <1>1, Known, SessionQuiet DEF FundRead, SessionsOK

LEMMA ReturnReadStep ==
  ASSUME IInv, NEW n \in Sessions, NEW u \in Users, ReturnRead(u, n)
  PROVE  IInv'
<1>1. n \in EscrowSessions /\ balance[Escrow(u, n)] > 0
  BY DEF ReturnRead
<1>2. balance[Escrow(u, n)] \in Nat \ {0}
  BY <1>1, UserRows, AccountsApart, Known
<1>3. Ask("return", u, n, balance[Escrow(u, n)]) \in Moves
  BY <1>1, <1>2 DEF Ask, Moves
<1> QED BY <1>3, Known, SessionQuiet DEF ReturnRead, SessionsOK

LEMMA SessionSteps ==
  ASSUME IInv, NEW n \in Sessions,
         \/ \E u \in Users, k \in 1..MaxBuys : SessionBuy(u, n, k)
         \/ SessionSettle(n) \/ NetFails(n)
  PROVE  IInv'
<1>1. ASSUME NEW u \in Users, NEW k \in 1..MaxBuys, SessionBuy(u, n, k) PROVE IInv'
  <2>1. [epoch[n].bought EXCEPT ![u] = k] \in [Users -> Nat]
    BY EpochIs
  <2>2. epoch' = [epoch EXCEPT ![n].bought[u] = k]
    BY <1>1 DEF SessionBuy
  <2>3. epoch' \in [Sessions -> Epoch] /\ \A m \in Sessions : epoch'[m].chunks = epoch[m].chunks
    BY <2>1, <2>2, EpochIs DEF Epoch
  <2> QED BY <1>1, <2>3, Known, SessionQuiet DEF SessionBuy, SessionsOK
<1>2. ASSUME NEW pc \in {"net", "replay"}, epoch' = [epoch EXCEPT ![n].pc = pc],
             UNCHANGED <<postings, balance, pruned, undone, payout, asks, keys, job, sweeps, now>>
      PROVE  IInv'
  <2>1. epoch' \in [Sessions -> Epoch] /\ \A m \in Sessions : epoch'[m].chunks = epoch[m].chunks
    BY <1>2, EpochIs DEF Epoch
  <2> QED BY <1>2, <2>1, Known, SessionQuiet DEF SessionsOK
<1> QED BY <1>1, <1>2 DEF SessionSettle, NetFails

(* An escrow is funded, or what is left of it returned. *)
LEMMA EscrowPostStep ==
  ASSUME IInv, NEW ask \in asks, EscrowPost(ask)
  PROVE  IInv'
<1>1. ask \in Moves /\ asks' \subseteq Moves /\ epoch \in [Sessions -> Epoch]
  BY Known DEF EscrowPost, SessionsOK
<1>2. CASE UNCHANGED <<postings, balance, job>>
  BY <1>1, <1>2, SessionQuiet DEF EscrowPost
<1>3. CASE ~UNCHANGED <<postings, balance, job>>
  <2> DEFINE from == Giver(ask)
             to == Taker(ask)
             n == ask.amount
             D == {from, to}
             delta == [a \in D |-> IF a = to THEN n ELSE -n]
  <2>1. /\ Post(ask.kind, "unknown", delta) /\ Mark({to}, {from}) /\ balance[from] >= n
        /\ UNCHANGED <<pruned, undone, payout, epoch, keys, sweeps, now>>
    <3>1. balance[from] < n \/ balance[from] >= n
      BY <1>1, UserRows, AccountsApart, Known DEF Moves, Giver
    <3> QED BY <1>3, <3>1 DEF EscrowPost, Commit
  <2>2. from \in Custodial /\ to \in Custodial /\ from # to /\ n \in Nat /\ ask.kind \in {"fund", "return"}
    BY <1>1, UserRows, AccountsApart DEF Moves, Giver, Taker
  <2>3. delta \in [DOMAIN delta -> Int] /\ DOMAIN delta = D /\ D \subseteq Accounts
    BY <2>2, AccountsApart
  <2> HIDE DEF from, to, n
  <2>4. Booked("unknown", ask.kind, delta)
    <3>1. Ledger /\ now \in 0..MaxTime /\ now' = now /\ "unknown" \in DOMAIN HorizonOf
      BY <2>1, Known
    <3>2. ask.kind \in Kinds /\ Lawful(ask.kind, delta)
      BY <2>2 DEF Kinds, Lawful
    <3> HIDE DEF D, delta
    <3> QED BY <2>1, <2>3, <3>1, <3>2, Booking
  <2>5. \A a \in Accounts :
          balance'[a] = balance[a] + (IF a = to THEN n ELSE IF a = from THEN -n ELSE 0)
    BY <2>2, <2>4 DEF Booked, Leg
  <2>6. Guarded'
    BY <2>1, <2>2, <2>5, Known, AccountsApart DEF Guarded
  <2>7. JobsOK' /\ Counted'
    <3>1. \A b \in TrustRows : balance'[b] = balance[b]
      BY <2>2, <2>5, Known, AccountsApart
    <3>2. \A b \in Custodial :
            balance'[b] = balance[b] + (IF b = to THEN n ELSE IF b = from THEN -n ELSE 0)
      BY <2>5, AccountsApart
    <3>3. now' = now /\ balance' \in [Accounts -> Int]
      BY <2>1, <2>4 DEF Booked, Ledger
    <3> QED BY <2>1, <2>2, <3>1, <3>2, <3>3, MoveCounted
  <2> HIDE DEF D, delta
  <2>8. RestOK'
    BY <2>1, <2>4, Known, RangesKept DEF RestOK
  <2>9. SessionsOK'
    BY <1>1, <2>1, <2>4, SessionsKept
  <2> QED BY <2>4, <2>6, <2>7, <2>8, <2>9 DEF IInv, Booked
<1> QED BY <1>2, <1>3

(* A net takes from users' rows only. *)
LEMMA NetIs ==
  ASSUME IInv, NEW n \in Sessions
  PROVE  /\ DOMAIN Net(n) \subseteq Custodial \cup {Earned} \cup RevenueRows
         /\ \A a \in DOMAIN Net(n) : Net(n)[a] \in Int
         /\ \A a \in DOMAIN Net(n) \cap Custodial : Net(n)[a] <= 0
         /\ Net(n)[Earned] >= 0
<1> DEFINE bought == epoch[n].bought
           all == Total(bought, Users)
           Rows == {LaneRow(u, n) : u \in Users}
           net == [a \in Rows \cup {Earned, Revenue(0)} |->
                     CASE a = Earned     -> all * (Price - Fee)
                       [] a = Revenue(0) -> all * Fee
                       [] OTHER          -> -(bought[a[2]] * Price)]
<1>1. Net(n) = net
  BY DEF Net
<1>2. \A u \in Users : bought[u] \in Nat
  BY EpochIs
<1>3. all \in Nat
  BY <1>2, AccountsFinite, TotalNat
<1>4. \A a \in Rows : a \in Custodial /\ a[2] \in Users /\ a # Earned /\ a # Revenue(0)
  BY UserRows, AccountsApart
<1>5. Earned \notin Custodial /\ Revenue(0) \notin Custodial /\ Revenue(0) \in RevenueRows
      /\ Earned # Revenue(0)
  BY AccountsApart
<1> HIDE DEF bought, all, Rows
<1>6. all * (Price - Fee) \in Nat /\ all * Fee \in Int
  <2>1. Price - Fee \in Nat /\ Fee \in Nat
    BY Constants
  <2> QED BY <1>3, <2>1
<1>7. \A u \in Users : bought[u] * Price \in Nat /\ -(bought[u] * Price) \in Int
                       /\ -(bought[u] * Price) <= 0
  BY <1>2, Constants
<1>8. \A a \in Rows : net[a] = -(bought[a[2]] * Price) /\ net[a] \in Int /\ net[a] <= 0
  BY <1>4, <1>7
<1>9. net[Earned] = all * (Price - Fee) /\ net[Revenue(0)] = all * Fee
  BY <1>5
<1>10. DOMAIN net = Rows \cup {Earned, Revenue(0)}
  OBVIOUS
<1> HIDE DEF net
<1> QED BY <1>1, <1>4, <1>5, <1>6, <1>8, <1>9, <1>10

LEMMA NetPostStep ==
  ASSUME IInv, NEW n \in Sessions, NetPost(n)
  PROVE  IInv'
<1>1. PICK C \in SUBSET Unposted(n) :
        /\ \A a \in C \cap Custodial : balance[a] + Net(n)[a] >= 0
        /\ Commit("net", "unknown", [a \in C |-> Net(n)[a]])
  BY DEF NetPost
<1> DEFINE net == Net(n)
           delta == [a \in C |-> net[a]]
<1>2. /\ Post("net", "unknown", delta)
      /\ epoch' = [epoch EXCEPT ![n].chunks = @ \cup {Len(postings) + 1}]
      /\ UNCHANGED <<pruned, undone, payout, asks, keys, job, sweeps, now>>
  BY <1>1 DEF NetPost, Commit
<1>3. C \subseteq DOMAIN net
  BY DEF Unposted
<1>4. /\ C \subseteq Custodial \cup {Earned} \cup RevenueRows /\ \A a \in C : net[a] \in Int
      /\ \A a \in C \cap Custodial : net[a] <= 0 /\ balance[a] + net[a] >= 0
      /\ net[Earned] >= 0
  BY <1>1, <1>3, NetIs
<1> HIDE DEF net
<1>5. delta \in [DOMAIN delta -> Int] /\ DOMAIN delta = C /\ C \subseteq Accounts
  BY <1>4, AccountsApart
<1>6. Lawful("net", delta)
  BY <1>4 DEF Lawful
<1>7. Booked("unknown", "net", delta)
  <2>1. Ledger /\ now \in 0..MaxTime /\ now' = now /\ "unknown" \in DOMAIN HorizonOf
    BY <1>2, Known
  <2> HIDE DEF delta
  <2> QED BY <1>2, <1>5, <1>6, <2>1, Booking DEF Kinds
<1>8. \A a \in Accounts : balance'[a] = balance[a] + (IF a \in C THEN net[a] ELSE 0)
  BY <1>7 DEF Booked, Leg
<1>9. Guarded'
  <2>1. ASSUME NEW a \in Custodial PROVE balance'[a] >= 0
    BY <1>4, <1>8, Known, AccountsApart DEF Guarded
  <2>2. balance'[Earned] >= 0
    BY <1>4, <1>8, Known, AccountsApart DEF Guarded
  <2>3. balance'[Reserve] = balance[Reserve]
    BY <1>4, <1>8, Known, AccountsApart
  <2> QED BY <1>2, <2>1, <2>2, <2>3, Known DEF Guarded
<1>10. JobsOK' /\ Counted'
  <2>1. \A b \in TrustRows : balance'[b] = balance[b]
    BY <1>4, <1>8, Known, AccountsApart
  <2>2. \A b \in Custodial : balance'[b] <= balance[b]
    BY <1>4, <1>8, Known, AccountsApart
  <2> QED BY <1>2, <1>7, <2>1, <2>2, NoneRaised DEF Booked, Ledger
<1> HIDE DEF delta
<1>11. RestOK'
  BY <1>2, <1>7, Known, RangesKept DEF RestOK
<1>12. SessionsOK'
  <2>1. Len(postings) + 1 \in Nat /\ epoch[n].chunks \cup {Len(postings) + 1} \in SUBSET Nat
    BY EpochIs, <1>7, OneMore
  <2>2. epoch' \in [Sessions -> Epoch]
        /\ \A m \in Sessions : \A i \in epoch'[m].chunks :
             i \in epoch[m].chunks \/ i = Len(postings) + 1
    BY <1>2, <2>1, EpochIs DEF Epoch
  <2>3. asks' \subseteq Moves
    BY <1>2, Known DEF SessionsOK
  <2> QED BY <1>7, <2>2, <2>3, SessionsKept
<1> QED BY <1>7, <1>9, <1>10, <1>11, <1>12 DEF IInv, Booked

(* A chunk undone gives users back what it took. *)
LEMMA NetUndoStep ==
  ASSUME IInv, NEW n \in Sessions, NetUndo(n)
  PROVE  IInv'
<1>1. PICK i \in epoch[n].chunks :
        Flip("netUndo", i) /\ epoch' = [epoch EXCEPT ![n].chunks = @ \ {i}]
  BY DEF NetUndo
<1>2. UNCHANGED <<pruned, undone, payout, asks, keys, sweeps, now>>
  BY DEF NetUndo
<1>3. i \in DOMAIN postings /\ postings[i].kind = "net"
  BY Known DEF SessionsOK
<1>4. Reserve \notin DOMAIN postings[i].delta
  BY <1>3, Known, AccountsApart DEF Ledger, Lawful
<1> DEFINE delta == [a \in DOMAIN postings[i].delta |-> -postings[i].delta[a]]
<1>5. Booked("unknown", "netUndo", delta) /\ Guarded' /\ JobsOK' /\ Counted'
  BY <1>1, <1>2, <1>3, <1>4, FlipBooked
<1> HIDE DEF delta
<1>6. RestOK'
  BY <1>2, <1>5, Known, RangesKept DEF RestOK
<1>7. SessionsOK'
  <2>1. epoch' \in [Sessions -> Epoch]
        /\ \A m \in Sessions : \A k \in epoch'[m].chunks : k \in epoch[m].chunks
    BY <1>1, EpochIs DEF Epoch
  <2>2. asks' \subseteq Moves
    BY <1>2, Known DEF SessionsOK
  <2> QED BY <1>5, <2>1, <2>2, SessionsKept
<1> QED BY <1>5, <1>6, <1>7 DEF IInv, Booked

LEMMA ReplayBuyStep ==
  ASSUME IInv, NEW n \in Sessions, NEW u \in Users, ReplayBuy(u, n)
  PROVE  IInv'
<1> DEFINE row == LaneRow(u, n)
           delta == SaleDelta(row, 0)
<1>1. epoch' \in [Sessions -> Epoch] /\ \A m \in Sessions : epoch'[m].chunks = epoch[m].chunks
  <2>1. epoch[n].bought[u] \in Nat /\ epoch[n].bought[u] > 0
    BY EpochIs DEF ReplayBuy
  <2>2. epoch[n].bought[u] - 1 \in Nat
    BY <2>1
  <2>3. [epoch[n].bought EXCEPT ![u] = @ - 1] \in [Users -> Nat]
    BY <2>2, EpochIs
  <2>4. epoch' = [epoch EXCEPT ![n].bought[u] = @ - 1]
    BY DEF ReplayBuy
  <2> QED BY <2>3, <2>4, EpochIs DEF Epoch
<1>2. asks' = asks /\ asks \subseteq Moves
      /\ UNCHANGED <<pruned, undone, payout, keys, job, sweeps, now>>
  BY Known DEF ReplayBuy, SessionsOK
<1>3. CASE UNCHANGED <<postings, balance>>
  BY <1>1, <1>2, <1>3, SessionQuiet
<1>4. CASE ~UNCHANGED <<postings, balance>>
  <2>1. row \in Custodial /\ balance[row] \in Int /\ 0 \in Shards /\ Price \in Int
    BY UserRows, AccountsApart, Known, Constants
  <2>2. Commit("movement", "unknown", delta) /\ balance[row] >= Price
    <3>1. balance[row] < Price \/ balance[row] >= Price
      BY <2>1
    <3> QED BY <1>4, <3>1 DEF ReplayBuy
  <2>3. Booked("unknown", "movement", delta) /\ Guarded' /\ JobsOK' /\ Counted'
    <3> HIDE DEF row
    <3> QED BY <1>2, <2>1, <2>2, SaleBooked
  <2> HIDE DEF delta
  <2>4. RestOK'
    BY <1>2, <2>3, Known, RangesKept DEF RestOK
  <2>5. SessionsOK'
    BY <1>1, <1>2, <2>3, SessionsKept
  <2> QED BY <2>3, <2>4, <2>5 DEF IInv, Booked
<1> QED BY <1>3, <1>4

LEMMA SessionStep ==
  ASSUME IInv, NEW n \in Sessions, Session(n)
  PROVE  IInv'
BY FundReadStep, ReplayBuyStep, ReturnReadStep, SessionSteps, NetPostStep, NetUndoStep DEF Session

-----------------------------------------------------------------------------
(* The fee sweep. *)

(* One job changes; if it takes the locks, no other had them. *)
LEMMA JobSet ==
  ASSUME IInv, NEW w \in Sweeps, NEW j \in Job, JobOK(j), job' = [job EXCEPT ![w] = j], now' = now,
         j.pc \in {"check", "post"} => \A v \in Sweeps \ {w} : ~Holds(v)
  PROVE  JobsOK' /\ job'[w] = j /\ \A v \in Sweeps \ {w} : job'[v] = job[v]
<1>1. job \in [Sweeps -> Job] /\ \A v \in Sweeps : JobOK(job[v])
  BY Known DEF JobsOK
<1>2. job' \in [Sweeps -> Job] /\ job'[w] = j /\ \A v \in Sweeps \ {w} : job'[v] = job[v]
  BY <1>1
<1>3. \A v \in Sweeps : JobOK(job[v])'
  BY <1>1, <1>2 DEF JobOK
<1>4. \A u, v \in Sweeps : (Holds(u) /\ Holds(v) => u = v)'
  BY <1>2, Known DEF JobsOK, Holds
<1> QED BY <1>2, <1>3, <1>4 DEF JobsOK

(* What a step of a sweep leaves to check: its own count. *)
LEMMA OneCounts ==
  ASSUME IInv, NEW w \in Sweeps, \A v \in Sweeps \ {w} : job'[v] = job[v], UNCHANGED balance,
         job'[w].pc \in {"check", "post"} /\ ~job'[w].unseen => RestCovered(w)'
  PROVE  Counted'
<1> SUFFICES ASSUME NEW v \in Sweeps \ {w}, Holds(v), ~job[v].unseen PROVE RestCovered(v)'
  BY DEF Counted, Holds
<1>1. RestCovered(v) /\ job'[v] = job[v]
  BY Known DEF Counted
<1> QED BY <1>1 DEF RestCovered, Todo

LEMMA RestSame ==
  ASSUME IInv, UNCHANGED <<postings, pruned, undone, payout, epoch, asks, keys, now>>,
         sweeps' \in 0..MaxSweeps
  PROVE  RestOK' /\ SessionsOK'
BY Known DEF RestOK, SessionsOK

LEMMA RestingIs == Resting \in Job /\ Resting.pc = "idle" /\ (IInv => JobOK(Resting))
BY Known DEF Resting, Job, JobOK

(* A sweep that ends without posting. *)
LEMMA EndsStep ==
  ASSUME IInv, NEW w \in Sweeps, Ends(w),
         UNCHANGED <<postings, balance, pruned, undone, payout, epoch, asks, keys, sweeps, now>>
  PROVE  IInv'
<1>1. JobsOK' /\ job'[w] = Resting /\ \A v \in Sweeps \ {w} : job'[v] = job[v]
  BY RestingIs, JobSet DEF Ends
<1>2. Counted'
  BY <1>1, RestingIs, OneCounts
<1> QED BY <1>1, <1>2, BooksSame, RestSame, Known DEF IInv, RestOK

LEMMA SweepStartStep ==
  ASSUME IInv, NEW w \in Sweeps, SweepStart(w)
  PROVE  IInv'
<1> DEFINE j == [Resting EXCEPT !.pc = "lock", !.amount = Estimate, !.key = now]
<1>1. /\ job' = [job EXCEPT ![w] = j] /\ Estimate > 0 /\ sweeps < MaxSweeps /\ sweeps' = sweeps + 1
      /\ UNCHANGED <<postings, balance, pruned, undone, payout, epoch, asks, keys, now>>
  BY DEF SweepStart
<1>2. Estimate \in Nat
  <2> DEFINE T == TrustRows \cap Heads
             W == Custodial \cap Heads
  <2>1. IsFiniteSet(T) /\ IsFiniteSet(W)
    BY AccountsFinite, FS_Subset
  <2>2. Ints(balance, T) /\ Ints(balance, W)
    BY Known, AccountsApart DEF Ints
  <2>3. Total(balance, T) \in Int /\ Total(balance, W) \in Int
    <3> HIDE DEF T, W
    <3> QED BY <2>1, <2>2, TotalType
  <2> QED BY <2>3, Known, SweepableIs DEF Estimate
<1>3. j \in Job /\ JobOK(j) /\ j.pc = "lock"
  <2> HIDE DEF Estimate
  <2>1. Resting \in Job /\ Resting.trust = 0 /\ Resting.owed = 0 /\ Resting.locks = {} /\ Resting.todo = {}
    BY RestingIs DEF Resting
  <2>2. /\ j \in Job /\ j.pc = "lock" /\ j.key = now /\ j.amount = Estimate
        /\ j.trust = 0 /\ j.owed = 0 /\ j.locks = {}
    BY <1>2, <2>1, Known DEF Job
  <2> QED BY <1>1, <2>2, Known DEF JobOK
<1> HIDE DEF j
<1>4. JobsOK' /\ job'[w] = j /\ \A v \in Sweeps \ {w} : job'[v] = job[v]
  BY <1>1, <1>3, JobSet
<1>5. Counted'
  BY <1>1, <1>3, <1>4, OneCounts
<1>6. RestOK' /\ SessionsOK'
  <2>1. sweeps \in 0..MaxSweeps /\ MaxSweeps \in Nat
    BY Known, TreasuryAssumption DEF RestOK
  <2>2. sweeps' \in 0..MaxSweeps
    BY <1>1, <2>1
  <2> QED BY <1>1, <2>2, RestSame
<1> QED BY <1>1, <1>4, <1>5, <1>6, BooksSame DEF IInv

(* At its start a walk leaves out the rows that are not heads: unless one of those is *)
(* a user's in funds or a trust row overdrawn, the cash left out covers the credits.  *)
LEMMA StartCovered ==
  ASSUME IInv, ~Unlisted
  PROVE  /\ Total(balance, TrustRows \ Heads) >= 0 /\ Total(balance, TrustRows \ Heads) \in Int
         /\ Total(balance, Custodial \ Heads) <= 0 /\ Total(balance, Custodial \ Heads) \in Int
<1> DEFINE T == TrustRows \ Heads
           W == Custodial \ Heads
<1>1. IsFiniteSet(T) /\ IsFiniteSet(W)
  BY AccountsFinite, FS_Subset
<1>2. \A a \in T : balance[a] \in Nat
  BY Known, AccountsApart DEF Unlisted
<1>3. \A a \in W : balance[a] = 0
  <2>1. \A a \in Custodial : balance[a] \in Int /\ balance[a] >= 0
    BY Known, AccountsApart DEF Guarded
  <2> QED BY <2>1 DEF Unlisted
<1>4. Total(balance, T) \in Nat /\ Total(balance, W) = 0
  <2> HIDE DEF T, W
  <2> QED BY <1>1, <1>2, <1>3, TotalNat, TotalZero
<1> QED BY <1>4

LEMMA SweepLockStep ==
  ASSUME IInv, NEW w \in Sweeps, SweepLock(w)
  PROVE  IInv'
<1>0. UNCHANGED <<postings, balance, pruned, undone, payout, epoch, asks, keys, sweeps, now>>
      /\ job[w].pc = "lock" /\ Locked = {}
  BY DEF SweepLock
<1>1. CASE job[w].key \in keys
  BY <1>0, <1>1, EndsStep DEF SweepLock
<1>2. CASE job[w].key \notin keys
  <2> DEFINE j == [job[w] EXCEPT !.pc = "check", !.todo = Walk, !.locks = LockSet, !.unseen = Unlisted]
  <2>1. job' = [job EXCEPT ![w] = j]
    BY <1>2 DEF SweepLock
  <2>2. \A v \in Sweeps : ~Holds(v)
    BY <1>0, Known, LocksHeld, AccountsApart
  <2>3. job[w] \in Job /\ JobOK(job[w])
    BY Known DEF JobsOK
  <2>4. /\ LockSet \subseteq Accounts
        /\ Walk = (Custodial \cup TrustRows) \cap Heads /\ Walk \subseteq Accounts
    BY AccountsApart DEF LockSet, Walk
  <2>5. Unlisted \in BOOLEAN
    BY DEF Unlisted
  <2>6. /\ j \in Job /\ j.pc = "check" /\ j.todo = Walk /\ j.unseen = Unlisted /\ j.trust = 0 /\ j.owed = 0
        /\ j.locks = LockSet /\ j.key = job[w].key /\ j.amount = job[w].amount
    <3> HIDE DEF Walk, LockSet, Unlisted
    <3> QED BY <1>0, <2>3, <2>4, <2>5 DEF Job, JobOK
  <2>7. JobOK(j)
    <3> HIDE DEF j
    <3> QED BY <1>0, <2>3, <2>4, <2>6 DEF JobOK
  <2> HIDE DEF j
  <2>8. JobsOK' /\ job'[w] = j /\ \A v \in Sweeps \ {w} : job'[v] = job[v]
    BY <1>0, <2>1, <2>2, <2>6, <2>7, JobSet
  <2>9. ASSUME ~Unlisted PROVE RestCovered(w)'
    <3> DEFINE A == (Custodial \cup TrustRows) \cap Heads
               x == Total(balance, TrustRows \ Heads)
               y == Total(balance, Custodial \ Heads)
    <3>1. Todo(w)' = A
      BY <1>0, <2>4, <2>6, <2>8 DEF Todo, Heads, Of, Hot
    <3>2. TrustRows \ A = TrustRows \ Heads /\ Custodial \ A = Custodial \ Heads
      OBVIOUS
    <3>3. x >= 0 /\ x \in Int /\ y <= 0 /\ y \in Int
      BY <2>9, StartCovered
    <3> HIDE DEF x, y, A
    <3>4. (x - 0) * ParDen >= (y - 0) * ParNum
      <4>1. x * ParDen >= 0 /\ y * ParNum <= 0
        BY <3>3, Constants
      <4>2. x - 0 = x /\ y - 0 = y
        BY <3>3
      <4>3. x * ParDen \in Int /\ y * ParNum \in Int
        BY <3>3, Constants
      <4> QED BY <4>1, <4>2, <4>3
    <3>5. RestCovered(w)' = ((Total(balance, TrustRows \ A) - 0) * ParDen
                               >= (Total(balance, Custodial \ A) - 0) * ParNum)
      BY <1>0, <2>6, <2>8, <3>1 DEF RestCovered
    <3> QED BY <3>2, <3>4, <3>5 DEF x, y
  <2>10. Counted'
    BY <1>0, <2>6, <2>8, <2>9, OneCounts
  <2> QED BY <1>0, <2>8, <2>10, BooksSame, RestSame, Known DEF IInv, RestOK
<1> QED BY <1>1, <1>2

(* Reading a row moves what it holds from what is left to what is counted. *)
LEMMA SweepReadStep ==
  ASSUME IInv, NEW w \in Sweeps, SweepRead(w)
  PROVE  IInv'
<1>0. PICK a \in job[w].todo :
        job' = [job EXCEPT ![w].todo = @ \ {a},
                           ![w].trust = @ + (IF a \in TrustRows THEN balance[a] ELSE 0),
                           ![w].owed = @ + (IF a \in Custodial THEN balance[a] ELSE 0)]
  BY DEF SweepRead
<1> DEFINE cash == IF a \in TrustRows THEN balance[a] ELSE 0
           owed == IF a \in Custodial THEN balance[a] ELSE 0
           j == [job[w] EXCEPT !.todo = @ \ {a}, !.trust = @ + cash, !.owed = @ + owed]
<1>1. /\ UNCHANGED <<postings, balance, pruned, undone, payout, epoch, asks, keys, sweeps, now>>
      /\ job[w].pc = "check" /\ job' = [job EXCEPT ![w] = j]
  <2>1. job' = [job EXCEPT ![w].todo = @ \ {a}, ![w].trust = @ + cash, ![w].owed = @ + owed]
    BY <1>0
  <2>2. job' = [job EXCEPT ![w] = j]
    <3> HIDE DEF cash, owed
    <3>1. job \in [Sweeps -> Job]
      BY Known DEF JobsOK
    <3> QED BY <2>1, <3>1
  <2> QED BY <2>2 DEF SweepRead
<1>2. job[w] \in Job /\ JobOK(job[w])
  BY Known DEF JobsOK
<1>3. a \in Todo(w) /\ Todo(w) \subseteq Custodial \cup TrustRows
  BY <1>1, <1>2 DEF JobOK, Todo
<1>4. a \in Accounts /\ balance[a] \in Int
  BY <1>3, Known, AccountsApart
<1>5. cash \in Int /\ owed \in Int
  BY <1>4
<1> HIDE DEF cash, owed
<1>6. /\ j \in Job /\ j.pc = "check" /\ j.todo = Todo(w) \ {a} /\ j.unseen = job[w].unseen
      /\ j.trust = job[w].trust + cash /\ j.owed = job[w].owed + owed
      /\ j.locks = job[w].locks /\ j.key = job[w].key /\ j.amount = job[w].amount
  <2> DEFINE k == job[w]
  <2>1. /\ k \in Job /\ k.pc = "check" /\ k.todo \ {a} \subseteq Accounts
        /\ k.trust + cash \in Int /\ k.owed + owed \in Int
    BY <1>1, <1>2, <1>5 DEF Job
  <2>2. j = [k EXCEPT !.todo = @ \ {a}, !.trust = @ + cash, !.owed = @ + owed]
    OBVIOUS
  <2> HIDE DEF k, j
  <2>3. /\ j \in Job /\ j.pc = "check" /\ j.todo = k.todo \ {a} /\ j.unseen = k.unseen
        /\ j.trust = k.trust + cash /\ j.owed = k.owed + owed
        /\ j.locks = k.locks /\ j.key = k.key /\ j.amount = k.amount
    BY <2>1, <2>2 DEF Job
  <2> QED BY <2>3 DEF k, Todo
<1> HIDE DEF j
<1>7. JobOK(j)
  BY <1>1, <1>2, <1>3, <1>6 DEF JobOK
<1>8. JobsOK' /\ job'[w] = j /\ \A v \in Sweeps \ {w} : job'[v] = job[v]
  <2>1. \A v \in Sweeps \ {w} : ~Holds(v)
    BY <1>1, Known DEF JobsOK, Holds
  <2> QED BY <1>1, <1>6, <1>7, <2>1, JobSet
<1>9. ASSUME ~job[w].unseen PROVE RestCovered(w)'
  <2> DEFINE A == Todo(w)
             T == TrustRows \ A
             W == Custodial \ A
             T2 == TrustRows \ (A \ {a})
             W2 == Custodial \ (A \ {a})
  <2>1. RestCovered(w)
    BY <1>1, <1>9, Known DEF Counted, Holds
  <2>2. Todo(w)' = A \ {a}
    BY <1>3, <1>6, <1>8 DEF Todo
  <2>3. /\ IsFiniteSet(T) /\ Ints(balance, T) /\ Total(balance, T) \in Int
        /\ IsFiniteSet(W) /\ Ints(balance, W) /\ Total(balance, W) \in Int
    BY Known, RestType
  <2>4. /\ T2 = (IF a \in TrustRows THEN T \cup {a} ELSE T) /\ a \notin T
        /\ W2 = (IF a \in Custodial THEN W \cup {a} ELSE W) /\ a \notin W
    BY <1>3
  <2> HIDE DEF T, W, T2, W2
  <2>5. Total(balance, T \cup {a}) = Total(balance, T) + balance[a]
    BY <1>4, <2>3, <2>4, TotalAdd
  <2>6. Total(balance, W \cup {a}) = Total(balance, W) + balance[a]
    BY <1>4, <2>3, <2>4, TotalAdd
  <2>7. Total(balance, T2) = Total(balance, T) + cash /\ Total(balance, W2) = Total(balance, W) + owed
    BY <2>3, <2>4, <2>5, <2>6 DEF cash, owed
  <2>8. job[w].trust \in Int /\ job[w].owed \in Int
    BY <1>2 DEF Job
  <2>9. /\ Total(balance, T2) - (job[w].trust + cash) = Total(balance, T) - job[w].trust
        /\ Total(balance, W2) - (job[w].owed + owed) = Total(balance, W) - job[w].owed
    BY <1>5, <2>3, <2>7, <2>8
  <2>10. RestCovered(w)' = ((Total(balance, T2) - (job[w].trust + cash)) * ParDen
                              >= (Total(balance, W2) - (job[w].owed + owed)) * ParNum)
    BY <1>1, <1>6, <1>8, <2>2 DEF RestCovered, T2, W2
  <2>11. (Total(balance, T) - job[w].trust) * ParDen >= (Total(balance, W) - job[w].owed) * ParNum
    BY <2>1 DEF RestCovered, T, W
  <2> QED BY <2>9, <2>10, <2>11
<1>10. Counted'
  BY <1>1, <1>6, <1>8, <1>9, OneCounts
<1> QED BY <1>1, <1>8, <1>10, BooksSame, RestSame, Known DEF IInv, RestOK

LEMMA SweepCheckedStep ==
  ASSUME IInv, NEW w \in Sweeps, SweepChecked(w)
  PROVE  IInv'
<1>0. /\ UNCHANGED <<postings, balance, pruned, undone, payout, epoch, asks, keys, sweeps, now>>
      /\ job[w].pc = "check" /\ job[w].todo = {}
  BY DEF SweepChecked
<1> DEFINE allowed == Sweepable(job[w].trust, job[w].owed)
<1>1. CASE job[w].amount > allowed
  BY <1>0, <1>1, EndsStep DEF SweepChecked
<1>2. CASE ~(job[w].amount > allowed)
  <2> DEFINE j == [job[w] EXCEPT !.pc = "post"]
  <2>1. job' = [job EXCEPT ![w] = j]
    BY <1>2 DEF SweepChecked
  <2>2. job[w] \in Job /\ JobOK(job[w])
    BY Known DEF JobsOK
  <2>3. /\ j \in Job /\ j.pc = "post" /\ j.todo = job[w].todo /\ j.unseen = job[w].unseen
        /\ j.trust = job[w].trust /\ j.owed = job[w].owed
        /\ j.locks = job[w].locks /\ j.key = job[w].key /\ j.amount = job[w].amount
    BY <2>2 DEF Job
  <2>4. job[w].amount \in Nat \ {0} /\ job[w].trust \in Int /\ job[w].owed \in Int
    BY <1>0, <2>2 DEF Job, JobOK
  <2>5. job[w].amount <= UsdToCredit(job[w].trust) - job[w].owed
    <3>1. allowed \in Nat
      BY <2>4, Known, SweepableIs
    <3>2. job[w].amount <= allowed
      BY <1>2, <2>4, <3>1
    <3> QED BY <2>4, <3>2, Known, SweepableIs
  <2> HIDE DEF j
  <2>6. JobOK(j)
    BY <1>0, <2>2, <2>3, <2>5 DEF JobOK
  <2>7. JobsOK' /\ job'[w] = j /\ \A v \in Sweeps \ {w} : job'[v] = job[v]
    <3>1. \A v \in Sweeps \ {w} : ~Holds(v)
      BY <1>0, Known DEF JobsOK, Holds
    <3> QED BY <1>0, <2>1, <2>3, <2>6, <3>1, JobSet
  <2>8. ASSUME ~job[w].unseen PROVE RestCovered(w)'
    <3>1. RestCovered(w)
      BY <1>0, <2>8, Known DEF Counted, Holds
    <3> QED BY <1>0, <2>3, <2>7, <3>1 DEF RestCovered, Todo
  <2>9. Counted'
    BY <1>0, <2>3, <2>7, <2>8, OneCounts
  <2> QED BY <1>0, <2>7, <2>9, BooksSame, RestSame, Known DEF IInv, RestOK
<1> QED BY <1>1, <1>2

Drawn(w) == [r \in RevenueRows |-> -Drained(r[2], job[w].amount)]
SweepLegs(w) ==
  [a \in {r \in RevenueRows : Drawn(w)[r] # 0} \cup {Trust(0)} |->
     IF a = Trust(0) THEN -ParFloor(job[w].amount) ELSE Drawn(w)[a]]

(* A draw moves revenue, and the bare row of the trust cash by what the draw is worth. *)
LEMMA DrawPosted ==
  ASSUME IInv, NEW w \in Sweeps, SweepPost(w), postings' # postings
  PROVE  /\ Ledger' /\ JobsOK' /\ RestOK' /\ SessionsOK' /\ Guarded'
         /\ \A a \in Custodial : balance'[a] = balance[a]
         /\ \A a \in TrustRows :
              balance'[a] = IF a = Trust(0) THEN balance[a] + (-ParFloor(job[w].amount)) ELSE balance[a]
         /\ job'[w] = Resting /\ \A v \in Sweeps \ {w} : job'[v] = job[v]
<1> DEFINE delta == SweepLegs(w)
           D == DOMAIN delta
<1>0. /\ job[w].pc = "post" /\ Ends(w)
      /\ UNCHANGED <<pruned, undone, payout, epoch, asks, sweeps, now>>
  BY DEF SweepPost
<1>1. Post("sweep", "unknown", delta) /\ keys' = keys \cup {job[w].key}
  BY DEF SweepPost, SweepLegs, Drawn
<1>2. job[w] \in Job /\ JobOK(job[w]) /\ job[w].amount \in Nat /\ job[w].key \in 0..now
  BY Known DEF JobsOK, Job, JobOK
<1>3. \A r \in RevenueRows : Drawn(w)[r] \in Int
  <2> SUFFICES ASSUME NEW s \in Shards PROVE Drawn(w)[Revenue(s)] \in Int
    BY DEF RevenueRows
  <2>1. Revenue(s)[2] = s /\ Revenue(s) \in RevenueRows
    BY AccountsApart DEF Revenue
  <2>2. Drained(s, job[w].amount) \in Int
    BY <1>2, Known, DrainedType
  <2> QED BY <2>1, <2>2 DEF Drawn
<1>4. ParFloor(job[w].amount) \in Int
  BY <1>2, RatesWhole
<1>5. D = {r \in RevenueRows : Drawn(w)[r] # 0} \cup {Trust(0)} /\ D \subseteq Accounts
  BY AccountsApart DEF SweepLegs
<1>6. delta \in [D -> Int]
  <2> DEFINE drawn == Drawn(w)
             usd == ParFloor(job[w].amount)
  <2>1. delta = [a \in {r \in RevenueRows : drawn[r] # 0} \cup {Trust(0)} |->
                   IF a = Trust(0) THEN -usd ELSE drawn[a]]
    BY DEF SweepLegs
  <2>2. (\A r \in RevenueRows : drawn[r] \in Int) /\ -usd \in Int
    BY <1>3, <1>4
  <2> HIDE DEF drawn, usd
  <2>3. \A a \in D : delta[a] \in Int
    BY <2>1, <2>2
  <2> QED BY <2>1, <2>3
<1>7. /\ Leg(delta, Trust(0)) = -ParFloor(job[w].amount)
      /\ \A a \in Accounts : a # Trust(0) /\ a \notin RevenueRows => Leg(delta, a) = 0
  BY <1>5 DEF Leg, SweepLegs
<1> HIDE DEF delta
<1>8. Booked("unknown", "sweep", delta)
  <2>1. Ledger /\ now \in 0..MaxTime /\ now' = now /\ "unknown" \in DOMAIN HorizonOf
    BY <1>0, Known
  <2> QED BY <1>1, <1>5, <1>6, <2>1, Booking DEF Kinds, Lawful
<1>9. \A a \in Accounts : a # Trust(0) /\ a \notin RevenueRows => balance'[a] = balance[a]
  BY <1>7, <1>8, Known DEF Booked
<1>10. balance'[Trust(0)] = balance[Trust(0)] + (-ParFloor(job[w].amount))
  BY <1>7, <1>8, AccountsApart DEF Booked
<1>11. Guarded'
  <2>1. \A a \in Custodial \cup {Earned, Reserve} : a \in Accounts /\ a # Trust(0) /\ a \notin RevenueRows
    BY AccountsApart
  <2> QED BY <1>0, <1>9, <2>1, Known DEF Guarded
<1>12. RestOK' /\ SessionsOK'
  <2>1. /\ undone' \subseteq DOMAIN postings /\ (\A k \in undone' : postings[k].kind # "reverse")
        /\ payout' \in SUBSET Nat /\ keys' \subseteq 0..now
    BY <1>0, <1>1, <1>2, Known DEF RestOK
  <2> QED BY <1>0, <1>8, <2>1, RangesKept
<1>13. JobsOK' /\ job'[w] = Resting /\ \A v \in Sweeps \ {w} : job'[v] = job[v]
  BY <1>0, RestingIs, JobSet DEF Ends
<1>14. /\ \A a \in Custodial : balance'[a] = balance[a]
       /\ \A a \in TrustRows :
            balance'[a] = IF a = Trust(0) THEN balance[a] + (-ParFloor(job[w].amount)) ELSE balance[a]
  BY <1>9, <1>10, AccountsApart
<1> QED BY <1>8, <1>11, <1>12, <1>13, <1>14 DEF Booked

LEMMA SweepPostStep ==
  ASSUME IInv, NEW w \in Sweeps, SweepPost(w)
  PROVE  IInv'
<1>1. CASE postings' = postings
  <2>1. DrainedAll(job[w].amount) # job[w].amount
    <3> SUFFICES ASSUME DrainedAll(job[w].amount) = job[w].amount PROVE FALSE
      OBVIOUS
    <3>1. PICK p : postings' = Append(postings, p)
      BY DEF SweepPost, Post
    <3>2. Len(Append(postings, p)) = Len(postings) + 1 /\ Len(postings) \in Nat
      BY Known DEF Typed
    <3> QED BY <1>1, <3>1, <3>2
  <2>2. /\ Ends(w)
        /\ UNCHANGED <<postings, balance, pruned, undone, payout, epoch, asks, keys, sweeps, now>>
    BY <2>1 DEF SweepPost
  <2> QED BY <2>2, EndsStep
<1>2. CASE postings' # postings
  <2>1. \A v \in Sweeps : ~Holds(v)'
    <3>1. job[w].pc = "post"
      BY DEF SweepPost
    <3>2. \A v \in Sweeps \ {w} : ~Holds(v)
      BY <3>1, Known DEF JobsOK, Holds
    <3> QED BY <1>2, <3>2, DrawPosted, RestingIs DEF Holds
  <2>2. Counted'
    BY <2>1 DEF Counted
  <2> QED BY <1>2, <2>2, DrawPosted DEF IInv
<1> QED BY <1>1, <1>2

LEMMA InitInv == Init => IInv
<1> SUFFICES ASSUME Init PROVE IInv OBVIOUS
<1>1. postings = <<>> /\ postings \in Seq(Posting) /\ DOMAIN postings = {} /\ Len(postings) = 0
  BY DEF Init
<1>2. balance \in [Accounts -> Int] /\ \A a \in Accounts : balance[a] = 0
  BY DEF Init
<1>3. \A a : Moved(a, Of(DOMAIN postings, a)) = 0
  <2> SUFFICES ASSUME NEW a PROVE Moved(a, Of(DOMAIN postings, a)) = 0
    OBVIOUS
  <2>1. Of(DOMAIN postings, a) = {}
    BY <1>1 DEF Of
  <2> QED BY <2>1, TotalEmpty DEF Moved
<1>4. Ledger
  BY <1>1, <1>2, <1>3 DEF Ledger
<1>5. Guarded
  BY <1>2, AccountsApart DEF Guarded, Init
<1>6. JobsOK /\ Counted
  <2>1. Resting \in Job /\ Resting.pc = "idle" /\ Resting.locks = {} /\ Resting.key = 0
    BY RestingIs DEF Resting
  <2>2. job = [w \in Sweeps |-> Resting] /\ now = 0
    BY DEF Init
  <2>3. JobOK(Resting)
    BY <2>1, <2>2 DEF JobOK
  <2> HIDE DEF Resting
  <2>4. job \in [Sweeps -> Job] /\ \A w \in Sweeps : job[w] = Resting
    BY <2>1, <2>2
  <2> QED BY <2>1, <2>3, <2>4 DEF JobsOK, Counted, Holds
<1>7. RestOK /\ SessionsOK
  <2>1. [u \in Users |-> 0] \in [Users -> Nat] /\ {} \in SUBSET Nat
    OBVIOUS
  <2> QED BY <1>1, <2>1, TreasuryAssumption DEF RestOK, SessionsOK, Epoch, Init
<1> QED BY <1>4, <1>5, <1>6, <1>7 DEF IInv

LEMMA StutterStep ==
  ASSUME IInv, UNCHANGED vars
  PROVE  IInv'
<1>1. UNCHANGED <<postings, balance, pruned, undone, payout, epoch, asks, keys, job, sweeps, now>>
  BY DEF vars
<1>2. JobsOK'
  BY <1>1, Known, JobsSame
<1>3. Counted'
  BY <1>1, Known, CountKept
<1> QED BY <1>1, <1>2, <1>3, BooksSame, RestSame, Known DEF IInv, RestOK

(* Every reachable state satisfies the invariant. *)
LEMMA InvariantHolds == Spec => []IInv
<1>1. IInv /\ [Next]_vars => IInv'
  <2> SUFFICES ASSUME IInv, [Next]_vars PROVE IInv' OBVIOUS
  <2>1. CASE Operation
    BY <2>1, TopUpStep, AdjustStep, SpendStep, RefundStep, ReverseStep, RequestPayoutStep, SettlePayoutStep
       DEF Operation
  <2>2. CASE Archive \/ Tick
    BY <2>2, QuietStep
  <2>3. CASE \E w \in Sweeps : FeeSweep(w)
    <3> SUFFICES ASSUME NEW w \in Sweeps, FeeSweep(w) PROVE IInv'
      BY <2>3
    <3>1. CASE SweepDies(w)
      BY <3>1, EndsStep DEF SweepDies
    <3> QED BY <3>1, SweepStartStep, SweepLockStep, SweepReadStep, SweepCheckedStep, SweepPostStep
        DEF FeeSweep
  <2>4. CASE UNCHANGED vars
    BY <2>4, StutterStep
  <2>5. CASE \E n \in Sessions : Session(n)
    BY <2>5, SessionStep
  <2>6. CASE \E ask \in asks : EscrowPost(ask)
    BY <2>6, EscrowPostStep
  <2> QED BY <2>1, <2>2, <2>3, <2>4, <2>5, <2>6 DEF Next
<1> QED BY <1>1, InitInv, PTL DEF Spec

-----------------------------------------------------------------------------
(* The theorems. *)

(* A fee sweep that saw what it had to see leaves the cash covering what users hold. *)
LEMMA DrawCovered ==
  ASSUME IInv, NEW w \in Sweeps, SweepPost(w), postings' # postings, ~job[w].unseen
  PROVE  Backed'
<1> DEFINE amount == job[w].amount
           usd == ParFloor(amount)
<1>1. job[w].pc = "post"
  BY DEF SweepPost
<1>2. job[w] \in Job /\ JobOK(job[w])
  BY Known DEF JobsOK
<1>3. amount \in Int /\ job[w].trust \in Int /\ job[w].owed \in Int /\ usd \in Int
  <2>1. amount \in Int /\ job[w].trust \in Int /\ job[w].owed \in Int
    BY <1>2 DEF Job
  <2> HIDE DEF amount
  <2> QED BY <2>1, RatesWhole
<1>4. amount <= UsdToCredit(job[w].trust) - job[w].owed /\ job[w].todo = {}
  BY <1>1, <1>2 DEF JobOK
<1>5. /\ IsFiniteSet(TrustRows) /\ Ints(balance, TrustRows) /\ TrustCash \in Int
      /\ IsFiniteSet(Custodial) /\ Ints(balance, Custodial) /\ Owed \in Int
  <2>1. TrustRows \ {} = TrustRows /\ Custodial \ {} = Custodial
    OBVIOUS
  <2> QED BY <2>1, Known, RestType DEF TrustCash, Owed
<1>6. (TrustCash - job[w].trust) * ParDen >= (Owed - job[w].owed) * ParNum
  <2>1. RestCovered(w)
    BY <1>1, Known DEF Counted, Holds
  <2>2. Todo(w) = {}
    BY <1>4 DEF Todo
  <2>3. TrustRows \ {} = TrustRows /\ Custodial \ {} = Custodial
    OBVIOUS
  <2> QED BY <2>1, <2>2, <2>3 DEF RestCovered, TrustCash, Owed
<1>7. TrustCash - usd >= ParFloor(Owed)
  <2> HIDE DEF amount
  <2> QED BY <1>3, <1>4, <1>5, <1>6, SurplusTaken DEF amount
<1>8. Owed' = Owed
  <2>1. \A a \in Custodial : balance'[a] = balance[a]
    BY DrawPosted
  <2> QED BY <1>5, <2>1, TotalSame DEF Owed
<1>9. TrustCash' = TrustCash - usd
  <2>1. \A a \in TrustRows : balance'[a] = IF a = Trust(0) THEN balance[a] + (-usd) ELSE balance[a]
    BY DrawPosted
  <2>2. Trust(0) \in TrustRows /\ -usd \in Int
    BY <1>3, AccountsApart
  <2> HIDE DEF usd
  <2>3. Total(balance', TrustRows) = Total(balance, TrustRows) + (IF Trust(0) \in TrustRows THEN -usd ELSE 0)
    BY <1>5, <2>1, <2>2, TotalShift
  <2> QED BY <1>3, <1>5, <2>2, <2>3 DEF TrustCash
<1> QED BY <1>7, <1>8, <1>9 DEF Backed

(* No one else moves a sweep on. *)
LEMMA RaisesKeep ==
  ASSUME IInv, (\E rows, from : Mark(rows, from)) \/ UNCHANGED job
  PROVE  \A v \in Sweeps : job'[v].pc = job[v].pc
<1>1. ASSUME NEW rows, NEW from, Mark(rows, from) PROVE \A v \in Sweeps : job'[v].pc = job[v].pc
  BY <1>1, Known DEF Mark, JobsOK, Job
<1> QED BY <1>1

(* Whatever commits while a fee sweep reads row after row under the locks of          *)
(* sweepFees, its draw leaves the trust cash covering every wallet and every session  *)
(* escrow at par, unless its walk could not see a change.  It could not if a user's   *)
(* row in funds or an overdrawn trust row had no hot chain link when the locks were   *)
(* taken.  Nor could it if a user's row it was done with, or never listed, was raised *)
(* by an adjustment, by a posting reversed or a net chunk undone, by a top-up whose   *)
(* trust row was still to be read, or by a prefund or an escrow's return out of a row *)
(* still to be read; nor if reversing a top-up took cash from a trust row it was done *)
(* with.  A refund raises a wallet too: it waits for the bare revenue row, which the  *)
(* sweep holds.                                                                       *)
THEOREM SweepTakesSurplusOnly == Spec => SweepKeepsBackingUnlessUnseen
<1>1. IInv /\ [Next]_vars => (Swept /\ (\A w \in Sweeps : ~job[w].unseen) => Backed')
  <2> SUFFICES ASSUME IInv, [Next]_vars, Swept, \A w \in Sweeps : ~job[w].unseen PROVE Backed'
    OBVIOUS
  <2>1. PICK w \in Sweeps : job[w].pc = "post" /\ job'[w].pc = "idle" /\ postings' # postings
    BY DEF Swept
  <2>2. Next
    BY <2>1 DEF vars
  <2>3. CASE Operation
    <3>1. \A v \in Sweeps : job'[v].pc = job[v].pc
      <4> QED BY <2>3, RaisesKeep DEF Operation, TopUp, Adjust, Spend, Refund, ReversePosting, Flip,
             RequestPayout, SettlePayout
    <3> QED BY <2>1, <3>1
  <2>4. CASE \E v \in Sweeps : FeeSweep(v)
    <3>1. PICK v \in Sweeps : FeeSweep(v)
      BY <2>4
    <3>2. SweepPost(v)
      BY <2>1, <3>1 DEF FeeSweep, SweepStart, SweepLock, SweepRead, SweepChecked, SweepDies
    <3> QED BY <2>1, <3>2, DrawCovered
  <2>5. CASE Archive \/ Tick
    BY <2>1, <2>5 DEF Archive, Tick
  <2>6. CASE (\E n \in Sessions : Session(n)) \/ \E ask \in asks : EscrowPost(ask)
    <3>1. \A v \in Sweeps : job'[v].pc = job[v].pc
      <4>1. CASE \E n \in Sessions : Session(n)
        BY <4>1, RaisesKeep DEF Session, FundRead, ReplayBuy, ReturnRead, SessionBuy, SessionSettle,
           NetPost, NetFails, NetUndo, Flip
      <4>2. CASE \E ask \in asks : EscrowPost(ask)
        BY <4>2, RaisesKeep DEF EscrowPost
      <4> QED BY <2>6, <4>1, <4>2
    <3> QED BY <2>1, <3>1
  <2> QED BY <2>2, <2>3, <2>4, <2>5, <2>6 DEF Next
<1> QED BY <1>1, InvariantHolds, PTL DEF Spec, SweepKeepsBackingUnlessUnseen

(* No wallet, escrow, earned row or reserve goes negative, and every posting, key,   *)
(* amount and lock of the ledger, the sessions and the sweeps is of the kind the code *)
(* writes.                                                                            *)
THEOREM TypeCorrect == Spec => []TypeOK
<1>1. IInv => TypeOK
  <2> SUFFICES ASSUME IInv PROVE TypeOK OBVIOUS
  <2>1. \A i \in DOMAIN postings : postings[i].at \in 0..now
                                   /\ postings[i].source \in DOMAIN HorizonOf
                                   /\ DOMAIN postings[i].delta \subseteq Accounts
    <3>1. \A i \in DOMAIN postings : postings[i] \in Posting /\ postings[i].at \in Nat
      BY Known, PostingsAre DEF Posting
    <3> QED BY <3>1, Known, PostingsAre DEF Posting, Ledger
  <2>2. \A a \in Custodial \cup {Earned, Reserve} : balance[a] >= 0
    BY Known, Constants DEF Guarded
  <2>3. \A w \in Sweeps : job[w].locks \subseteq LockSet /\ job[w].key \in 0..now /\ job[w].amount \in Nat
    <3>1. \A w \in Sweeps : job[w] \in Job /\ JobOK(job[w])
      BY Known DEF JobsOK
    <3> QED BY <3>1, Known DEF Job, JobOK
  <2>4. /\ \A n \in Sessions : \A i \in epoch[n].chunks : postings[i].kind = "net"
        /\ \A ask \in asks : ask.amount \in Nat \ {0}
    BY Known DEF SessionsOK, Moves
  <2> QED BY <2>1, <2>2, <2>3, <2>4, Known DEF TypeOK, RestOK
<1> QED BY <1>1, InvariantHolds, PTL

-----------------------------------------------------------------------------
(* Maturity. *)

(* A property of numbers that fails somewhere fails somewhere first. *)
LEMMA FirstOf ==
  ASSUME NEW C, C \subseteq Nat, C # {}
  PROVE  \E n \in C : n # 0 => n - 1 \in Nat \ C
<1>1. PICK m \in C : TRUE OBVIOUS
<1>2. IsFiniteSet(0..m) /\ C \cap (0..m) \in SUBSET (0..m) /\ C \cap (0..m) # {}
  <2>1. m \in Nat /\ m \in 0..m /\ 0 \in Int /\ m \in Int
    BY <1>1
  <2>2. IsFiniteSet(0..m)
    BY <2>1, FS_Interval
  <2>3. m \in C \cap (0..m)
    BY <1>1, <2>1
  <2> QED BY <2>2, <2>3
<1>3. PICK n \in C \cap (0..m) : \A k \in C \cap (0..m) : n <= k
  BY <1>2, FiniteMin
<1>4. n # 0 => n - 1 \in 0..m /\ ~(n <= n - 1)
  BY <1>1, <1>3
<1>5. n # 0 => n - 1 \in Nat \ C
  BY <1>3, <1>4
<1> QED BY <1>3, <1>5

(* What of a lot's amount is not drained, lot by lot from the oldest. *)
Lot(a, i) == postings[i].delta[a]
Drains(a, n, d) ==
  d = [i \in 0..n |->
         IF i = 0 THEN Moved(a, Lots(a)) - balance[a]
         ELSE LET before == d[i - 1] IN
              IF i \in Lots(a) /\ before > 0 THEN Max({0, before - Lot(a, i)}) ELSE before]
ToDrain(a) == CHOOSE d : Drains(a, Len(postings), d)

(* The walk that drains from the oldest lot is defined by its recursion. *)
LEMMA DrainExists ==
  ASSUME NEW a, NEW n \in Nat
  PROVE  \E d : Drains(a, n, d)
<1> DEFINE C == {k \in Nat : ~\E d : Drains(a, k, d)}
<1> SUFFICES ASSUME C # {} PROVE FALSE OBVIOUS
<1>1. PICK k \in C : k # 0 => k - 1 \in Nat \ C
  <2>1. C \subseteq Nat OBVIOUS
  <2> HIDE DEF C
  <2> QED BY <2>1, FirstOf
<1>2. k \in Nat /\ ~\E d : Drains(a, k, d)
  OBVIOUS
<1>3. CASE k = 0
  <2> DEFINE d == [i \in 0..0 |-> Moved(a, Lots(a)) - balance[a]]
  <2>1. Drains(a, 0, d)
    BY DEF Drains
  <2> HIDE DEF d
  <2> QED BY <1>2, <1>3, <2>1
<1>4. CASE k # 0
  <2>1. PICK d : Drains(a, k - 1, d)
    BY <1>1, <1>4
  <2> DEFINE before(i) == d[i - 1]
             e == [i \in 0..k |->
                     IF i = 0 THEN Moved(a, Lots(a)) - balance[a]
                     ELSE IF i \in Lots(a) /\ before(i) > 0 THEN Max({0, before(i) - Lot(a, i)})
                          ELSE before(i)]
  <2>2. \A i \in 0..(k - 1) : e[i] = d[i]
    <3>1. \A i \in 0..(k - 1) : i \in 0..k
      BY <1>2
    <3> QED BY <2>1, <3>1 DEF Drains
  <2>3. \A i \in 0..k : i # 0 => i - 1 \in 0..(k - 1)
    BY <1>2
  <2>4. Drains(a, k, e)
    BY <2>2, <2>3 DEF Drains
  <2> HIDE DEF e
  <2> QED BY <1>2, <2>4
<1> QED BY <1>3, <1>4

LEMMA FullScanIs ==
  ASSUME NEW a
  PROVE  LET matured == {i \in Lots(a) : IsMatured(i)}
             tail == [i \in matured |-> Max({0, Lot(a, i) - Max({0, ToDrain(a)[i - 1]})})]
         IN  FullScan(a) = IF balance[a] <= 0 THEN 0 ELSE Total(tail, matured)
BY DEF FullScan, ToDrain, Drains, Lot

Positive(n) == IF n > 0 THEN n ELSE 0

(* The lots up to i drain what they hold of what was spent. *)
Older(a, i) == {j \in Lots(a) : j <= i}
Newer(a, i) == {j \in Lots(a) : j > i}

LEMMA LotsSplit ==
  ASSUME Typed, NEW a \in Accounts
  PROVE  /\ \A i : Moved(a, Older(a, i)) \in Int /\ Moved(a, Newer(a, i)) \in Int
         /\ Moved(a, Lots(a)) \in Int /\ balance[a] \in Int
         /\ Moved(a, Older(a, 0)) = 0
         /\ \A i \in Nat \ {0} :
              Moved(a, Older(a, i)) = Moved(a, Older(a, i - 1)) + (IF i \in Lots(a) THEN Lot(a, i) ELSE 0)
         /\ \A i \in Lots(a) :
              Moved(a, Lots(a)) = Moved(a, Older(a, i - 1)) + Lot(a, i) + Moved(a, Newer(a, i))
<1> DEFINE L == Lots(a)
           f == Delta(a)
           old(i) == Older(a, i)
           new(i) == Newer(a, i)
<1>1. /\ L \subseteq 1..Len(postings) /\ Len(postings) \in Nat
      /\ \A i \in L : f[i] = Lot(a, i) /\ Lot(a, i) \in Nat \ {0}
  BY LotsAre, PostingsAre DEF Lot
<1>2. \A S \in SUBSET L : IsFiniteSet(S) /\ Ints(f, S) /\ Moved(a, S) = Total(f, S) /\ Total(f, S) \in Int
  <2> SUFFICES ASSUME NEW S \in SUBSET L
               PROVE  IsFiniteSet(S) /\ Ints(f, S) /\ Moved(a, S) = Total(f, S) /\ Total(f, S) \in Int
    OBVIOUS
  <2>1. S \in SUBSET Of(DOMAIN postings, a)
    BY LotsAre
  <2> QED BY <2>1, MovedIs
<1>3. \A i : old(i) \in SUBSET L /\ new(i) \in SUBSET L
  BY DEF Older, Newer
<1>4. Moved(a, old(0)) = 0
  <2>1. old(0) = {}
    BY <1>1 DEF Older
  <2> QED BY <1>2, <1>3, <2>1, TotalEmpty
<1>5. ASSUME NEW i \in Nat \ {0}
      PROVE  Moved(a, old(i)) = Moved(a, old(i - 1)) + (IF i \in L THEN Lot(a, i) ELSE 0)
  <2>1. \A j \in L : j \in Nat
    BY <1>1
  <2>2. old(i) = IF i \in L THEN old(i - 1) \cup {i} ELSE old(i - 1)
    <3>1. \A j \in L : j <= i <=> (j <= i - 1 \/ j = i)
      BY <2>1
    <3> QED BY <3>1 DEF Older
  <2>3. i \notin old(i - 1)
    BY DEF Older
  <2> DEFINE S == old(i - 1)
  <2>4. IsFiniteSet(S) /\ Ints(f, S) /\ Moved(a, S) = Total(f, S) /\ Total(f, S) \in Int
    BY <1>2, <1>3
  <2>5. CASE i \in L
    <3>1. Total(f, S \cup {i}) = Total(f, S) + f[i]
      <4>1. f[i] \in Int /\ i \notin S
        BY <1>1, <2>3, <2>5
      <4> HIDE DEF f, S
      <4> QED BY <2>4, <4>1, TotalAdd
    <3>2. Moved(a, S \cup {i}) = Total(f, S \cup {i})
      BY <1>2, <1>3, <2>2, <2>5
    <3> QED BY <1>1, <2>2, <2>4, <2>5, <3>1, <3>2
  <2>6. CASE i \notin L
    BY <2>2, <2>4, <2>6
  <2> QED BY <2>5, <2>6
<1>6. ASSUME NEW i \in L
      PROVE  Moved(a, L) = Moved(a, old(i - 1)) + Lot(a, i) + Moved(a, new(i))
  <2> DEFINE S == old(i - 1)
             T == new(i)
  <2>1. \A j \in L : j \in Nat
    BY <1>1
  <2>2. L = (S \cup {i}) \cup T /\ i \notin S /\ (S \cup {i}) \cap T = {} /\ S \cup {i} \in SUBSET L
    <3>1. \A j \in L : (j <= i - 1 \/ j = i \/ j > i) /\ ~(j > i /\ j <= i - 1)
      BY <2>1
    <3>2. ~(i <= i - 1) /\ ~(i > i)
      BY <2>1
    <3> QED BY <3>1, <3>2 DEF Older, Newer
  <2>3. /\ IsFiniteSet(S) /\ Ints(f, S) /\ Moved(a, S) = Total(f, S) /\ Total(f, S) \in Int
        /\ IsFiniteSet(T) /\ Ints(f, T) /\ Moved(a, T) = Total(f, T) /\ Total(f, T) \in Int
        /\ Moved(a, L) = Total(f, L) /\ IsFiniteSet(S \cup {i}) /\ Ints(f, S \cup {i})
    BY <1>2, <1>3, <2>2
  <2>4. f[i] = Lot(a, i) /\ f[i] \in Int
    BY <1>1
  <2> HIDE DEF f, S, T, L
  <2>5. Total(f, S \cup {i}) = Total(f, S) + f[i]
    BY <2>2, <2>3, <2>4, TotalAdd
  <2>6. Total(f, (S \cup {i}) \cup T) = Total(f, S \cup {i}) + Total(f, T)
    BY <2>2, <2>3, TotalUnion
  <2>7. Moved(a, L) = Moved(a, S) + Lot(a, i) + Moved(a, T)
    BY <2>2, <2>3, <2>4, <2>5, <2>6
  <2> QED BY <2>7 DEF S, T
<1>7. (\A i : Moved(a, old(i)) \in Int /\ Moved(a, new(i)) \in Int) /\ Moved(a, L) \in Int
  BY <1>2, <1>3
<1> QED BY <1>4, <1>5, <1>6, <1>7 DEF Typed

LEMMA DrainIs ==
  ASSUME Typed, NEW a \in Accounts
  PROVE  \A i \in 0..Len(postings) :
           /\ ToDrain(a)[i] \in Int
           /\ Positive(ToDrain(a)[i]) = Positive(Moved(a, Lots(a)) - balance[a] - Moved(a, Older(a, i)))
<1> DEFINE n == Len(postings)
           d == ToDrain(a)
           spent == Moved(a, Lots(a)) - balance[a]
           older(i) == Moved(a, Older(a, i))
           Right(i) == d[i] \in Int /\ Positive(d[i]) = Positive(spent - older(i))
           C == {i \in 0..n : ~Right(i)}
<1> SUFFICES ASSUME C # {} PROVE FALSE
  OBVIOUS
<1>1. n \in Nat /\ Drains(a, n, d)
  BY PostingsAre, DrainExists DEF ToDrain
<1>2. PICK i \in C : i # 0 => i - 1 \in Nat \ C
  <2>1. C \subseteq Nat
    BY <1>1
  <2> HIDE DEF C
  <2> QED BY <2>1, FirstOf
<1>3. /\ spent \in Int /\ older(0) = 0 /\ (\A k : older(k) \in Int)
      /\ \A k \in Nat \ {0} : older(k) = older(k - 1) + (IF k \in Lots(a) THEN Lot(a, k) ELSE 0)
  BY LotsSplit
<1>4. i \in 0..n /\ ~Right(i) /\ (i # 0 => i - 1 \in 0..n /\ Right(i - 1))
  BY <1>1, <1>2
<1>5. d[i] = IF i = 0 THEN spent
             ELSE IF i \in Lots(a) /\ d[i - 1] > 0 THEN Max({0, d[i - 1] - Lot(a, i)}) ELSE d[i - 1]
  BY <1>1, <1>4 DEF Drains
<1>6. \A k \in Lots(a) : Lot(a, k) \in Nat \ {0}
  BY LotsAre DEF Lot
<1> HIDE DEF d, spent, older, C
<1>7. CASE i = 0
  BY <1>3, <1>4, <1>5, <1>7 DEF Positive
<1>8. CASE i # 0
  <2>1. d[i - 1] \in Int /\ Positive(d[i - 1]) = Positive(spent - older(i - 1))
    BY <1>4, <1>8
  <2>2. older(i) = older(i - 1) + (IF i \in Lots(a) THEN Lot(a, i) ELSE 0)
    BY <1>1, <1>3, <1>4, <1>8
  <2>3. CASE i \in Lots(a) /\ d[i - 1] > 0
    <3>1. Lot(a, i) \in Nat \ {0} /\ d[i - 1] - Lot(a, i) \in Int
      BY <1>6, <2>1, <2>3
    <3>2. d[i] = IF d[i - 1] - Lot(a, i) > 0 THEN d[i - 1] - Lot(a, i) ELSE 0
      BY <1>5, <1>8, <2>3, <3>1, AtLeastZero
    <3>3. d[i - 1] = spent - older(i - 1)
      BY <1>3, <2>1, <2>3 DEF Positive
    <3> QED BY <1>3, <1>4, <2>2, <2>3, <3>1, <3>2, <3>3 DEF Positive
  <2>4. CASE i \in Lots(a) /\ ~(d[i - 1] > 0)
    <3>1. Lot(a, i) \in Nat \ {0} /\ d[i] = d[i - 1]
      BY <1>5, <1>6, <1>8, <2>4
    <3> QED BY <1>3, <1>4, <2>1, <2>2, <2>4, <3>1 DEF Positive
  <2>5. CASE i \notin Lots(a)
    BY <1>3, <1>4, <1>5, <1>8, <2>1, <2>2, <2>5
  <2> QED BY <2>3, <2>4, <2>5
<1> QED BY <1>7, <1>8

(* From the oldest lot or from the newest: the same of each lot is left. *)
LEMMA SameTail ==
  ASSUME Typed, NEW a \in Accounts, NEW i \in Lots(a)
  PROVE  Max({0, Lot(a, i) - Max({0, ToDrain(a)[i - 1]})}) = Slice(a, i)
<1> DEFINE live == balance[a]
           lot == Lot(a, i)
           older == Moved(a, Older(a, i - 1))
           newer == Moved(a, Newer(a, i))
           drain == ToDrain(a)[i - 1]
           all == Moved(a, Lots(a))
<1>1. i - 1 \in 0..Len(postings)
  BY LotsAre, PostingsAre
<1>2. drain \in Int /\ Positive(drain) = Positive(all - live - older)
  BY <1>1, DrainIs
<1>3. /\ live \in Int /\ lot \in Nat \ {0} /\ older \in Int /\ newer \in Int /\ all \in Int
      /\ all = older + lot + newer
  BY LotsSplit, LotsAre DEF Lot
<1>4. Slice(a, i) = Within(live - newer, lot)
  BY DEF Slice, Newer, Lot
<1> HIDE DEF live, lot, older, newer, drain, all
<1>5. Max({0, drain}) = Positive(drain)
  BY <1>2, AtLeastZero DEF Positive
<1>6. all - live - older = lot - (live - newer)
  BY <1>3
<1> DEFINE left == lot - Positive(drain)
<1>7. left = IF live - newer >= lot THEN lot ELSE live - newer
  BY <1>2, <1>3, <1>6 DEF Positive
<1>8. left \in Int /\ live - newer \in Int /\ lot \in Int
  BY <1>3, <1>7
<1>9. Max({0, left}) = IF left > 0 THEN left ELSE 0
  BY <1>8, AtLeastZero
<1>10. Within(live - newer, lot) = IF live - newer <= lot THEN IF live - newer > 0 THEN live - newer ELSE 0
                                   ELSE IF lot > 0 THEN lot ELSE 0
  BY <1>8, WithinIs
<1> HIDE DEF left
<1>11. Max({0, left}) = Within(live - newer, lot)
  BY <1>3, <1>7, <1>9, <1>10
<1> QED BY <1>4, <1>5, <1>11 DEF left, lot, drain

(* The bounded walk computes what the full scan does, from any books. *)
THEOREM WalksAgree ==
  ASSUME Typed, NEW a \in Accounts
  PROVE  MaturedBalance(a) = FullScan(a)
<1> DEFINE matured == {i \in Lots(a) : IsMatured(i)}
           slices == [i \in matured |-> Slice(a, i)]
           tail == [i \in matured |-> Max({0, Lot(a, i) - Max({0, ToDrain(a)[i - 1]})})]
<1>1. IsFiniteSet(matured)
  BY LotsAre, FS_Subset
<1>2. \A i \in matured : slices[i] = tail[i]
  BY SameTail
<1>3. Total(slices, matured) = Total(tail, matured)
  <2> HIDE DEF slices, tail, matured
  <2> QED BY <1>1, <1>2, TotalSame
<1>4. FullScan(a) = IF balance[a] <= 0 THEN 0 ELSE Total(tail, matured)
  BY FullScanIs
<1>5. MaturedBalance(a) = IF balance[a] <= 0 THEN 0 ELSE Total(slices, matured)
  BY DEF MaturedBalance
<1> HIDE DEF slices, tail, matured
<1> QED BY <1>3, <1>4, <1>5


(* MaturityAgrees: maturity.ts's bounded walk and its full scan agree on   *)
(* every account, with lots drained, undone or archived.                 *)
THEOREM MaturitiesAgree == Spec => []MaturityAgrees
<1>1. IInv => MaturityAgrees
  BY Known, WalksAgree DEF MaturityAgrees
<1> QED BY <1>1, InvariantHolds, PTL

-----------------------------------------------------------------------------
(* Waits end. *)

Lesser(x, y) == IF x <= y THEN x ELSE y
Slices(a) == [i \in Lots(a) |-> Slice(a, i)]

(* The lots newer than the oldest n share out what the balance covers of them. *)
LEMMA SlicesAddUp ==
  ASSUME Typed, NEW a \in Accounts, balance[a] \in Nat
  PROVE  \A n \in 0..Len(postings) :
           Total(Slices(a), Newer(a, Len(postings) - n))
             = Lesser(balance[a], Moved(a, Newer(a, Len(postings) - n)))
<1> DEFINE N == Len(postings)
           live == balance[a]
           U(n) == Newer(a, N - n)
           f == Slices(a)
           Right(n) == Total(f, U(n)) = Lesser(live, Moved(a, U(n)))
           C == {n \in 0..N : ~Right(n)}
<1> SUFFICES ASSUME C # {} PROVE FALSE
  OBVIOUS
<1>1. N \in Nat /\ live \in Nat
  BY PostingsAre
<1>2. PICK n \in C : n # 0 => n - 1 \in Nat \ C
  <2>1. C \subseteq Nat
    BY <1>1
  <2> HIDE DEF C
  <2> QED BY <2>1, FirstOf
<1>3. n \in 0..N /\ ~Right(n) /\ (n # 0 => n - 1 \in 0..N /\ Right(n - 1))
  BY <1>1, <1>2
<1>4. /\ \A i \in Lots(a) : i \in 1..N /\ Lot(a, i) \in Nat \ {0} /\ Slice(a, i) \in Nat
      /\ IsFiniteSet(Lots(a))
  BY LotsAre, SliceType DEF Lot
<1>5. \A S \in SUBSET Lots(a) :
        /\ IsFiniteSet(S) /\ Ints(f, S) /\ Ints(Delta(a), S)
        /\ Moved(a, S) = Total(Delta(a), S) /\ Moved(a, S) \in Int /\ Total(f, S) \in Int
  <2> SUFFICES ASSUME NEW S \in SUBSET Lots(a)
               PROVE  /\ IsFiniteSet(S) /\ Ints(f, S) /\ Ints(Delta(a), S)
                      /\ Moved(a, S) = Total(Delta(a), S) /\ Moved(a, S) \in Int /\ Total(f, S) \in Int
    OBVIOUS
  <2>1. S \in SUBSET Of(DOMAIN postings, a)
    BY LotsAre
  <2>2. Ints(f, S)
    BY <1>4 DEF Ints, Slices
  <2> HIDE DEF f
  <2> QED BY <2>1, <2>2, MovedIs, TotalType
<1>6. \A k : U(k) \in SUBSET Lots(a)
  BY DEF Newer
<1>7. CASE n = 0
  <2>1. U(0) = {}
    BY <1>1, <1>4 DEF Newer
  <2>2. Total(f, {}) = 0 /\ Moved(a, {}) = 0
    BY <1>5, TotalEmpty
  <2>3. Total(f, U(n)) = 0 /\ Moved(a, U(n)) = 0
    BY <1>7, <2>1, <2>2
  <2>4. Lesser(live, 0) = 0
    BY <1>1 DEF Lesser
  <2>5. Right(n)
    <3> HIDE DEF f, U, live
    <3> QED BY <2>3, <2>4
  <2> QED BY <1>3, <2>5
<1>8. CASE n # 0
  <2> DEFINE i == N - n + 1
             T == U(n - 1)
  <2>1. i \in 1..N /\ N - (n - 1) = i
    BY <1>1, <1>3, <1>8
  <2>2. T = Newer(a, i) /\ i \notin T
    BY <2>1 DEF Newer
  <2>3. U(n) = IF i \in Lots(a) THEN T \cup {i} ELSE T
    <3>1. \A j \in Lots(a) : j > N - n <=> (j > i \/ j = i)
      BY <1>1, <1>3, <1>4
    <3> QED BY <2>2, <3>1 DEF Newer
  <2>4. Total(f, T) = Lesser(live, Moved(a, T))
    BY <1>3, <1>8
  <2>5. CASE i \in Lots(a)
    <3> DEFINE lot == Lot(a, i)
               moved == Moved(a, T)
    <3>1. /\ IsFiniteSet(T) /\ Ints(f, T) /\ Ints(Delta(a), T)
          /\ moved = Total(Delta(a), T) /\ moved \in Int /\ Total(f, T) \in Int
      BY <1>5, <1>6
    <3>2. f[i] = Slice(a, i) /\ f[i] \in Int /\ Delta(a)[i] = lot /\ lot \in Nat \ {0}
      BY <1>4, <2>5, LotsAre DEF Slices, Lot
    <3>3. Slice(a, i) = Within(live - moved, lot)
      BY <2>2 DEF Slice, Newer, Lot
    <3>4. Moved(a, T \cup {i}) = Total(Delta(a), T \cup {i})
      BY <1>5, <1>6, <2>3, <2>5
    <3> HIDE DEF f, T, lot, i, live
    <3>5. Total(f, T \cup {i}) = Total(f, T) + f[i]
      BY <2>2, <3>1, <3>2, TotalAdd
    <3>6. Total(Delta(a), T \cup {i}) = Total(Delta(a), T) + lot
      BY <2>2, <3>1, <3>2, TotalAdd
    <3> HIDE DEF moved
    <3>7. Within(live - moved, lot) = IF live - moved <= lot THEN IF live - moved > 0 THEN live - moved ELSE 0
                                      ELSE lot
      BY <1>1, <3>1, <3>2, WithinIs
    <3>8. Total(f, T) = Lesser(live, moved)
      BY <2>4 DEF moved
    <3>9. Total(f, T \cup {i}) = Lesser(live, moved + lot)
      BY <1>1, <3>1, <3>2, <3>3, <3>5, <3>7, <3>8 DEF Lesser
    <3>10. Moved(a, T \cup {i}) = moved + lot
      BY <3>1, <3>4, <3>6 DEF moved
    <3>11. Total(f, U(n)) = Lesser(live, Moved(a, U(n)))
      BY <2>3, <2>5, <3>9, <3>10
    <3> QED BY <1>3, <3>11
  <2>6. CASE i \notin Lots(a)
    BY <1>3, <2>3, <2>4, <2>6
  <2> QED BY <2>5, <2>6
<1> QED BY <1>7, <1>8

(* What is stored of an account whose every posting is stored covers its balance. *)
LEMMA LotsCover ==
  ASSUME Typed, NEW a \in Accounts, balance[a] = Moved(a, Of(DOMAIN postings, a)),
         \A i \in Of(DOMAIN postings, a) : i > pruned
  PROVE  balance[a] <= Moved(a, Lots(a)) /\ Moved(a, Lots(a)) \in Int
<1> DEFINE all == Of(DOMAIN postings, a)
           rest == all \ Lots(a)
           zero == [i \in rest |-> 0]
<1>1. Lots(a) \subseteq all /\ all = Lots(a) \cup rest /\ Lots(a) \cap rest = {}
  BY LotsAre
<1>2. /\ Moved(a, all) = Total(Delta(a), all)
      /\ IsFiniteSet(Lots(a)) /\ Ints(Delta(a), Lots(a))
      /\ Moved(a, Lots(a)) = Total(Delta(a), Lots(a)) /\ Moved(a, Lots(a)) \in Int
      /\ IsFiniteSet(rest) /\ Ints(Delta(a), rest)
  BY <1>1, MovedIs
<1>3. \A i \in rest : Delta(a)[i] \in Int /\ Delta(a)[i] <= 0
  <2>1. \A i \in rest : i \in Of(Hot, a) /\ postings[i].delta[a] \in Int /\ Delta(a)[i] = postings[i].delta[a]
    BY PostingsAre DEF Of, Hot, Delta
  <2>2. \A i \in rest : ~(postings[i].delta[a] > 0)
    BY <2>1 DEF Lots
  <2> QED BY <2>1, <2>2
<1>4. Total(Delta(a), rest) \in Int /\ Total(Delta(a), rest) <= 0
  <2>1. \A i \in rest : zero[i] = 0
    OBVIOUS
  <2>2. Ints(zero, rest)
    BY <2>1 DEF Ints
  <2> HIDE DEF zero, rest
  <2>3. \A i \in rest : Delta(a)[i] <= zero[i]
    BY <1>3, <2>1
  <2> QED BY <1>2, <2>1, <2>2, <2>3, TotalZero, TotalLeq, TotalType
<1>5. Total(Delta(a), all) = Total(Delta(a), Lots(a)) + Total(Delta(a), rest)
  <2> HIDE DEF all, rest
  <2> QED BY <1>1, <1>2, TotalUnion
<1> HIDE DEF rest
<1> QED BY <1>2, <1>4, <1>5

(* OldFundsClearUnlessArchived: once the last lot of an account is as old as *)
(* its horizon, maturity.ts lets all of the balance go, if no posting of the *)
(* account has been archived.                                                *)
THEOREM WaitsEnd == Spec => []OldFundsClearUnlessArchived
<1>1. IInv => OldFundsClearUnlessArchived
  <2> SUFFICES ASSUME IInv, NEW a \in Wallets \cup {Earned},
                      \A i \in Of(DOMAIN postings, a) : i > pruned,
                      \A i \in Lots(a) : now - postings[i].at >= HorizonOf[postings[i].source]
               PROVE  MaturedBalance(a) = balance[a]
    BY DEF OldFundsClearUnlessArchived
  <2>1. Typed /\ a \in Accounts /\ now \in Nat /\ balance[a] \in Nat
        /\ balance[a] = Moved(a, Of(DOMAIN postings, a))
    <3>1. a \in Accounts /\ a \in Custodial \cup {Earned}
      BY AccountsApart
    <3>2. balance[a] \in Int /\ balance[a] >= 0
      BY <3>1, Known DEF Guarded
    <3> QED BY <3>1, <3>2, Known DEF Ledger
  <2>2. {i \in Lots(a) : IsMatured(i)} = Lots(a)
    <3>1. ASSUME NEW i \in Lots(a) PROVE IsMatured(i)
      <4>1. i \in DOMAIN postings /\ postings[i] \in Posting
        BY <2>1, LotsAre, PostingsAre
      <4>2. postings[i].at \in Int /\ HorizonOf[postings[i].source] \in Int
        BY <4>1, TreasuryAssumption DEF Posting
      <4> QED BY <2>1, <4>2 DEF IsMatured, MaturesAt
    <3> QED BY <3>1
  <2>3. MaturedBalance(a) = IF balance[a] <= 0 THEN 0 ELSE Total(Slices(a), Lots(a))
    BY <2>2 DEF MaturedBalance, Slices
  <2>4. Lots(a) = Newer(a, Len(postings) - Len(postings)) /\ Len(postings) \in 0..Len(postings)
    BY <2>1, LotsAre, PostingsAre DEF Newer
  <2>5. Total(Slices(a), Lots(a)) = Lesser(balance[a], Moved(a, Lots(a)))
    BY <2>1, <2>4, SlicesAddUp
  <2>6. balance[a] <= Moved(a, Lots(a)) /\ Moved(a, Lots(a)) \in Int
    BY <2>1, LotsCover
  <2> QED BY <2>1, <2>3, <2>5, <2>6 DEF Lesser
<1> QED BY <1>1, InvariantHolds, PTL

(***************************************************************************)
(* Netting.                                                                *)
(***************************************************************************)

Row == [order : Orders, seq : Nat]

Lane == [up : BOOLEAN, closed : BOOLEAN,
         pc : {"open", "grant", "record", "undo", "flush", "answer"},
         order : Orders \cup {None}, accepted : Seq(Row), pending : Nat,
         opening : [Buyers -> Int], funded : SUBSET Buyers, held : [Buyers -> Int],
         granted : SUBSET Orders, outcome : [Orders -> Outcomes], reported : BOOLEAN,
         queued : Orders \cup {None}, late : SUBSET Orders]

RunSteps == {"idle", "chunk", "comp", "mv", "claim", "give", "done",
             "revoke", "holds", "refund", "post", "emit"}
Run == [pc : RunSteps,
        i : Int, forced : BOOLEAN, settled : BOOLEAN, rejected : SUBSET Orders,
        released : BOOLEAN, owes : SUBSET (Orders \cup Buyers), amount : Nat,
        kind : {"owner", "sweep", "failover", "retention"}, buyer : Buyers \cup {None}]

Steps == {"flush", "chunk", "again", "comp", "mv", "claim", "give", "revoke", "refund", "emit"}
Used == [faults : Nat, crashes : Nat, spends : Nat, topUps : Nat,
         failed : SUBSET Steps]

(* The memory of the owner and of a settle under way, and the books they work on. *)
Memory ==
  /\ lane \in Lane /\ (lane.pc # "open" => lane.order \in Orders)
  /\ run \in [Procs -> Run]
  /\ \A p \in Procs :
       /\ run[p].pc \in {"refund", "post"} => run[p].owes \subseteq Buyers
       /\ run[p].pc = "post" => run[p].buyer \in Buyers
       /\ run[p].pc = "mv" => run[p].i >= 1
  /\ used \in Used
Books ==
  /\ wallet \in [Buyers -> Nat] /\ escrow \in [Buyers -> Nat] /\ shop \in Nat
  /\ clearing \in Int /\ registry \in [Buyers -> Int] /\ owned \subseteq Orders
  /\ claimed \in BOOLEAN /\ refused \subseteq Orders /\ prefund \in Prefunds
  /\ journal \in Seq(Row)
NettingTyped == Memory /\ Books

LEMMA FaultTyped ==
  ASSUME used \in Used, NEW step \in Steps, Fault(step)
  PROVE  used' \in Used
<1>1. used.faults + 1 \in Nat /\ used.failed \cup {step} \in SUBSET Steps
  BY DEF Used
<1>2. used' = [used EXCEPT !.faults = used.faults + 1, !.failed = used.failed \cup {step}]
  BY DEF Fault, Used
<1> QED BY <1>1, <1>2 DEF Used

LEMMA AnswerIs ==
  ASSUME lane \in Lane, NEW o \in Orders, NEW x \in Outcomes
  PROVE  /\ Answer(o, x) \in Lane
         /\ Answer(o, x).pc = "open" /\ Answer(o, x).queued = None
         /\ Answer(o, x).outcome = [lane.outcome EXCEPT ![o] = x]
         /\ \A f \in {"up", "closed", "accepted", "pending", "opening", "funded", "held",
                      "granted", "reported", "late"} : Answer(o, x)[f] = lane[f]
<1>1. [lane.outcome EXCEPT ![o] = x] \in [Orders -> Outcomes]
  BY DEF Lane
<1>2. Answer(o, x) = [lane EXCEPT !.outcome = [lane.outcome EXCEPT ![o] = x], !.pc = "open",
                                  !.order = None, !.queued = None]
  BY DEF Answer, Lane
<1> QED BY <1>1, <1>2 DEF Lane

LEMMA LaneTyped ==
  ASSUME NettingTyped
  PROVE  \A o \in Orders : Enqueue(o) \/ PurchaseRefused(o) => NettingTyped'
<1> SUFFICES ASSUME NEW o \in Orders, Enqueue(o) \/ PurchaseRefused(o) PROVE NettingTyped'
  OBVIOUS
<1>1. Books'
  BY DEF NettingTyped, Books, Enqueue, PurchaseRefused, ledger
<1>2. Memory'
  <2>1. CASE Enqueue(o)
    BY <2>1 DEF NettingTyped, Memory, Enqueue, Lane
  <2>2. CASE PurchaseRefused(o)
    <3>1. lane' \in Lane /\ lane'.pc = "open"
      BY <2>2, AnswerIs DEF NettingTyped, Memory, PurchaseRefused, Outcomes
    <3> QED BY <2>2, <3>1 DEF NettingTyped, Memory, PurchaseRefused
  <2> QED BY <2>1, <2>2
<1> QED BY <1>1, <1>2 DEF NettingTyped

LEMMA PurchaseTyped ==
  ASSUME NettingTyped, NEW o \in Orders, Purchase(o)
  PROVE  NettingTyped'
<1> DEFINE b == BuyerOf[o]
           slice == ImmaturePart(b)
<1>1. b \in Buyers /\ slice \in Nat /\ slice <= wallet[b] /\ prefund \in Nat
  <2>1. wallet[b] \in Nat /\ Unmatured[b] \in Nat /\ b \in Buyers
    BY NettingAssumption DEF NettingTyped, Books
  <2> QED BY <2>1, NettingAssumption DEF NettingTyped, Books, ImmaturePart, Smaller
<1>2. lane' \in Lane /\ lane'.pc # "open" /\ lane'.order \in Orders
  <2>1. lane.held \in [Buyers -> Int] /\ lane.funded \subseteq Buyers /\ lane.late \subseteq Orders
    BY DEF NettingTyped, Memory, Lane
  <2> DEFINE funded == IF prefund > 0 /\ b \notin lane.funded THEN lane.funded \cup {b} ELSE lane.funded
             held == [lane.held EXCEPT ![b] = IF prefund = 0 /\ lane.held[b] = -1 THEN slice ELSE lane.held[b]]
             late == IF lane.reported THEN lane.late \cup {o} ELSE lane.late
  <2>2. funded \subseteq Buyers /\ held \in [Buyers -> Int] /\ late \subseteq Orders
    BY <1>1, <2>1
  <2>3. lane' = [lane EXCEPT !.pc = "grant", !.order = o, !.funded = funded, !.held = held, !.late = late]
    BY DEF NettingTyped, Memory, Lane, Purchase
  <2> HIDE DEF funded, held, late
  <2> QED BY <2>2, <2>3 DEF NettingTyped, Memory, Lane
<1>3. Memory'
  BY <1>2 DEF NettingTyped, Memory, Purchase
<1>4. wallet' \in [Buyers -> Nat] /\ escrow' \in [Buyers -> Nat] /\ registry' \in [Buyers -> Int]
  BY <1>1 DEF NettingTyped, Books, Purchase, CannotFund
<1>5. Books'
  BY <1>4 DEF NettingTyped, Books, Purchase
<1> QED BY <1>3, <1>5 DEF NettingTyped

LEMMA RowsTyped ==
  ASSUME NettingTyped, lane.pending <= Len(lane.accepted)
  PROVE  Batch \in Seq(Row)
BY DEF NettingTyped, Memory, Lane, Batch

LEMMA GrantTyped ==
  ASSUME NettingTyped, GrantItem \/ RecordThrows \/ UndoGrant \/ Accept
  PROVE  NettingTyped'
<1>1. lane.order \in Orders
  BY DEF NettingTyped, Memory, Lane, GrantItem, RecordThrows, UndoGrant, Accept
<1>2. Books'
  BY <1>1 DEF NettingTyped, Books, GrantItem, RecordThrows, UndoGrant, Accept, ledger
<1>3. lane' \in Lane /\ (lane'.pc # "open" => lane'.order \in Orders)
  <2>1. lane \in Lane /\ lane.granted \cup {lane.order} \subseteq Orders
    BY <1>1 DEF NettingTyped, Memory, Lane
  <2>2. CASE GrantItem
    BY <1>1, <2>1, <2>2 DEF GrantItem, Lane
  <2>3. CASE RecordThrows \/ UndoGrant
    <3>1. lane' = Answer(lane.order, "threw") \/ lane' = Answer(lane.order, "rejected")
      BY <2>3 DEF RecordThrows, UndoGrant
    <3>2. "threw" \in Outcomes /\ "rejected" \in Outcomes
      BY DEF Outcomes
    <3>3. \A x \in Outcomes : Answer(lane.order, x) \in Lane /\ Answer(lane.order, x).pc = "open"
      BY <1>1, <2>1, AnswerIs
    <3> QED BY <3>1, <3>2, <3>3
  <2>4. CASE Accept
    <3>1. Answer(lane.order, "accepted") \in Lane /\ Answer(lane.order, "accepted").pc = "open"
          /\ Answer(lane.order, "accepted").granted = lane.granted
      BY <1>1, <2>1, AnswerIs DEF Outcomes
    <3>2. lane' = [Answer(lane.order, "accepted") EXCEPT !.granted = lane.granted \cup {lane.order}]
      BY <2>4, <3>1 DEF Accept
    <3> QED BY <2>1, <3>1, <3>2 DEF Lane
  <2> QED BY <2>2, <2>3, <2>4
<1>4. Memory'
  BY <1>3 DEF NettingTyped, Memory, GrantItem, RecordThrows, UndoGrant, Accept
<1> QED BY <1>2, <1>4 DEF NettingTyped

LEMMA RecordTyped ==
  ASSUME NettingTyped, Record
  PROVE  NettingTyped'
<1> DEFINE b == BuyerOf[lane.order]
           row == [order |-> lane.order, seq |-> Len(lane.accepted)]
<1>1. lane.order \in Orders /\ b \in Buyers /\ Source[b] \in Nat /\ lane.opening \in [Buyers -> Int]
      /\ lane.accepted \in Seq(Row) /\ lane.pending \in Nat
  <2>1. lane.order \in Orders
    BY DEF NettingTyped, Memory, Lane, Record
  <2> QED BY <2>1, NettingAssumption DEF NettingTyped, Memory, Lane, Books, Source
<1>2. row \in Row
  <2>1. Len(lane.accepted) \in Nat
    BY <1>1
  <2> QED BY <1>1, <2>1 DEF Row
<1>3. Append(lane.accepted, row) \in Seq(Row)
  BY <1>1, <1>2
<1>4. lane' \in Lane /\ (lane'.pc # "open" => lane'.order \in Orders)
  <2> DEFINE opening == [lane.opening EXCEPT ![b] = IF lane.opening[b] = -1 THEN Source[b] ELSE lane.opening[b]]
             accepted == Append(lane.accepted, row)
             seen == [lane EXCEPT !.opening = opening]
             pc == IF lane.pending + 1 >= MaxBatch THEN "flush" ELSE "answer"
  <2>1. opening \in [Buyers -> Int]
    BY <1>1
  <2>2. seen \in Lane /\ seen.order = lane.order
    <3> HIDE DEF opening
    <3> QED BY <2>1 DEF NettingTyped, Memory, Lane
  <2>3. \/ lane' = [seen EXCEPT !.pc = "undo"]
        \/ lane' = [seen EXCEPT !.accepted = accepted, !.pending = lane.pending + 1, !.pc = pc]
    BY DEF NettingTyped, Memory, Lane, Record
  <2>4. accepted \in Seq(Row) /\ lane.pending + 1 \in Nat /\ pc \in {"flush", "answer"}
    BY <1>1, <1>3
  <2> HIDE DEF seen, accepted, pc
  <2> QED BY <1>1, <2>2, <2>3, <2>4 DEF Lane
<1>5. registry' \in [Buyers -> Int]
  BY <1>1 DEF NettingTyped, Books, Record
<1>6. Memory' /\ Books'
  BY <1>4, <1>5 DEF NettingTyped, Memory, Books, Record, ledger
<1> QED BY <1>6 DEF NettingTyped

LEMMA FlushTyped ==
  ASSUME NettingTyped, lane.pending <= Len(lane.accepted),
         RecordFlush \/ RecordFlushFails \/ LaneSettleFails
  PROVE  NettingTyped'
<1>1. journal' \in Seq(Row)
  <2>1. journal \in Seq(Row) /\ Batch \in Seq(Row)
    BY RowsTyped DEF NettingTyped, Books
  <2>2. journal' = journal \o Batch \/ journal' = journal
    BY DEF RecordFlush, RecordFlushFails, LaneSettleFails
  <2> QED BY <2>1, <2>2, ConcatProperties
<1>2. Books'
  BY <1>1 DEF NettingTyped, Books, RecordFlush, RecordFlushFails, LaneSettleFails, ledger
<1>3. lane' \in Lane /\ (lane'.pc # "open" => lane'.order \in Orders)
  <2>1. lane \in Lane
    BY DEF NettingTyped, Memory
  <2>2. CASE RecordFlush
    BY <2>1, <2>2 DEF NettingTyped, Memory, Lane, RecordFlush
  <2>3. CASE RecordFlushFails
    <3>1. lane.order \in Orders
      BY <2>3 DEF NettingTyped, Memory, RecordFlushFails
    <3>2. Answer(lane.order, "threw") \in Lane /\ Answer(lane.order, "threw").pc = "open"
      BY <2>1, <3>1, AnswerIs DEF Outcomes
    <3> QED BY <2>3, <3>2 DEF Lane, RecordFlushFails
  <2>4. CASE LaneSettleFails
    BY <2>1, <2>4 DEF Lane, LaneSettleFails, LaneFree
  <2> QED BY <2>2, <2>3, <2>4
<1>4. used' \in Used
  <2>1. Fault("flush") \/ used' = used
    BY DEF RecordFlush, RecordFlushFails, LaneSettleFails
  <2> QED BY <2>1, FaultTyped DEF NettingTyped, Memory, Steps
<1>5. Memory'
  BY <1>3, <1>4 DEF NettingTyped, Memory, RecordFlush, RecordFlushFails, LaneSettleFails
<1> QED BY <1>2, <1>5 DEF NettingTyped

(* What a step leaves of its own run is a run again. *)
RunOK(r) ==
  /\ r \in Run
  /\ r.pc \in {"refund", "post"} => r.owes \subseteq Buyers
  /\ r.pc = "post" => r.buyer \in Buyers
  /\ r.pc = "mv" => r.i >= 1

LEMMA RunIs ==
  ASSUME NettingTyped, NEW p \in Procs
  PROVE  RunOK(run[p]) /\ run[p] \in Run
BY DEF NettingTyped, Memory, RunOK

LEMMA MovedTyped ==
  ASSUME NEW r \in Run, NEW pc \in RunSteps, NEW i \in Int
  PROVE  /\ [r EXCEPT !.pc = pc, !.i = i] \in Run
         /\ [r EXCEPT !.i = i, !.pc = pc] = [r EXCEPT !.pc = pc, !.i = i]
         /\ [r EXCEPT !.pc = pc, !.i = i].pc = pc /\ [r EXCEPT !.pc = pc, !.i = i].i = i
BY DEF Run

LEMMA MovedOn ==
  ASSUME NEW r \in Run, NEW pc \in {"chunk", "comp", "claim", "give", "done"}, NEW i \in Int
  PROVE  RunOK([r EXCEPT !.pc = pc, !.i = i])
<1>1. pc \in RunSteps
  BY DEF RunSteps
<1> DEFINE s == [r EXCEPT !.pc = pc, !.i = i]
<1>2. s \in Run /\ s.pc = pc
  BY <1>1 DEF Run
<1> HIDE DEF s
<1>3. RunOK(s)
  BY <1>2 DEF RunOK
<1> QED BY <1>3 DEF s

LEMMA SetOK ==
  ASSUME NEW r \in Run, NEW x \in BOOLEAN, NEW c \in RunSteps, NEW n \in Int,
         c \notin {"refund", "post"}, c = "mv" => n >= 1
  PROVE  RunOK([r EXCEPT !.settled = x, !.pc = c, !.i = n])
<1> DEFINE s == [r EXCEPT !.settled = x, !.pc = c, !.i = n]
<1>1. s \in Run
  BY DEF Run
<1>2. s.pc = c /\ s.i = n
  BY DEF Run
<1> HIDE DEF s
<1>3. RunOK(s)
  BY <1>1, <1>2 DEF RunOK
<1> QED BY <1>3 DEF s

LEMMA Replaying ==
  ASSUME NEW r \in Run
  PROVE  RunOK([r EXCEPT !.settled = TRUE, !.pc = "mv", !.i = 1])
<1>1. TRUE \in BOOLEAN /\ "mv" \in RunSteps /\ 1 \in Int /\ "mv" \notin {"refund", "post"} /\ 1 >= 1
  BY DEF RunSteps
<1> QED BY <1>1, SetOK

LEMMA ReleasingOK ==
  ASSUME NEW r \in Run, NEW x \in BOOLEAN, NEW c \in {"give", "done"}, NEW n \in Int
  PROVE  RunOK([r EXCEPT !.pc = c, !.i = n, !.released = x])
<1> DEFINE s == [r EXCEPT !.pc = c, !.i = n, !.released = x]
<1>0. c \in RunSteps
  BY DEF RunSteps
<1>1. s \in Run
  BY <1>0 DEF Run
<1>2. s.pc = c
  BY DEF Run
<1> HIDE DEF s
<1>3. RunOK(s)
  BY <1>1, <1>2 DEF RunOK
<1> QED BY <1>3 DEF s

LEMMA OwingOK ==
  ASSUME NEW r \in Run, NEW c \in RunSteps, NEW owes \in SUBSET (Orders \cup Buyers), NEW x \in BOOLEAN,
         c \in {"refund", "post"} => owes \subseteq Buyers,
         c = "post" => r.buyer \in Buyers,
         c = "mv" => r.i >= 1
  PROVE  /\ RunOK([r EXCEPT !.pc = c, !.owes = owes])
         /\ RunOK([r EXCEPT !.settled = x, !.pc = c, !.owes = owes])
<1> DEFINE s == [r EXCEPT !.pc = c, !.owes = owes]
           t == [r EXCEPT !.settled = x, !.pc = c, !.owes = owes]
<1>1. s \in Run
  BY DEF Run
<1>2. t \in Run
  BY DEF Run
<1>3. s.pc = c /\ s.owes = owes /\ s.buyer = r.buyer /\ s.i = r.i
  BY DEF Run
<1>4. t.pc = c /\ t.owes = owes /\ t.buyer = r.buyer /\ t.i = r.i
  BY DEF Run
<1> HIDE DEF s, t
<1>5. RunOK(s) /\ RunOK(t)
  BY <1>1, <1>2, <1>3, <1>4 DEF RunOK
<1> QED BY <1>5 DEF s, t

LEMMA PostingOK ==
  ASSUME NEW r \in Run, r.owes \subseteq Buyers, NEW b \in Buyers, NEW n \in Nat
  PROVE  RunOK([r EXCEPT !.pc = "post", !.buyer = b, !.amount = n])
<1> DEFINE s(c) == [r EXCEPT !.pc = c, !.buyer = b, !.amount = n]
<1>1. ASSUME NEW c \in RunSteps PROVE s(c) \in Run /\ s(c).pc = c /\ s(c).owes = r.owes /\ s(c).buyer = b
  <2>1. s(c) \in Run
    BY DEF Run
  <2>2. s(c).pc = c /\ s(c).owes = r.owes /\ s(c).buyer = b
    BY DEF Run
  <2> QED BY <2>1, <2>2
<1>2. "post" \in RunSteps
  BY DEF RunSteps
<1> HIDE DEF s
<1>3. RunOK(s("post"))
  BY <1>1, <1>2 DEF RunOK
<1> QED BY <1>3 DEF s

LEMMA PostedOK ==
  ASSUME NEW r \in Run, NEW owes \in SUBSET Buyers, NEW n \in Nat, NEW x \in {None}
  PROVE  RunOK([r EXCEPT !.pc = "refund", !.owes = owes, !.buyer = x, !.amount = n])
<1> DEFINE t(c) == [r EXCEPT !.pc = c, !.owes = owes, !.buyer = x, !.amount = n]
<1>1. ASSUME NEW c \in RunSteps PROVE t(c) \in Run /\ t(c).pc = c /\ t(c).owes = owes
  <2>1. t(c) \in Run
    BY DEF Run
  <2>2. t(c).pc = c /\ t(c).owes = owes
    BY DEF Run
  <2> QED BY <2>1, <2>2
<1>2. "refund" \in RunSteps
  BY DEF RunSteps
<1> HIDE DEF t
<1>3. RunOK(t("refund"))
  BY <1>1, <1>2 DEF RunOK
<1> QED BY <1>3 DEF t

LEMMA Rejecting ==
  ASSUME NEW r \in Run, RunOK(r), r.pc = "mv", NEW o \in Orders
  PROVE  /\ RunOK([r EXCEPT !.i = r.i + 1, !.rejected = r.rejected \cup {o}])
         /\ RunOK([r EXCEPT !.i = r.i + 1])
<1>1. r.i + 1 \in Int /\ r.i + 1 >= 1 /\ r.rejected \cup {o} \in SUBSET Orders
  BY DEF Run, RunOK
<1> DEFINE s == [r EXCEPT !.i = r.i + 1, !.rejected = r.rejected \cup {o}]
           t == [r EXCEPT !.i = r.i + 1]
<1>2. s \in Run /\ s.pc = "mv" /\ s.i >= 1 /\ t \in Run /\ t.pc = "mv" /\ t.i >= 1
  BY <1>1 DEF Run
<1> QED BY <1>2 DEF RunOK

LEMMA RunTyped ==
  ASSUME NettingTyped, NEW p \in Procs, NEW r, RunOK(r), run' = [run EXCEPT ![p] = r],
         lane' \in Lane /\ (lane'.pc # "open" => lane'.order \in Orders), used' \in Used
  PROVE  Memory'
BY DEF NettingTyped, Memory, RunOK

LEMMA FreshTyped == RunOK(FreshRun)
BY DEF FreshRun, RunOK, Run, RunSteps

LEMMA ThrownTyped ==
  ASSUME NettingTyped, NEW p \in Procs
  PROVE  RunOK(Thrown(p))
<1>1. \A r \in Run : RunOK([r EXCEPT !.pc = "idle", !.owes = {}, !.rejected = {}])
  BY DEF RunOK, Run, RunSteps
<1> QED BY <1>1, RunIs, FreshTyped DEF Thrown

LEMMA TakeTyped ==
  ASSUME NettingTyped, NEW d \in [Buyers -> Int], \A b \in Buyers : d[b] <= Source[b], Take(d)
  PROVE  wallet' \in [Buyers -> Nat] /\ escrow' \in [Buyers -> Nat]
<1>1. wallet \in [Buyers -> Nat] /\ escrow \in [Buyers -> Nat]
  BY DEF NettingTyped, Books
<1>2. CASE prefund = 0
  BY <1>1, <1>2 DEF Take, Source
<1>3. CASE prefund # 0
  BY <1>1, <1>3 DEF Take, Source
<1> QED BY <1>2, <1>3

LEMMA BuysAre ==
  ASSUME NEW j \in Seq(Row), NEW b
  PROVE  /\ Buys(j, b) \subseteq 1..Len(j) /\ IsFiniteSet(Buys(j, b)) /\ Spent(j, b) \in Nat
         /\ Buys(j, b) = {k \in 1..Len(j) : BuyerOf[j[k].order] = b}
<1>0. DOMAIN j = 1..Len(j) /\ Len(j) \in Nat
  BY LenProperties
<1>1. Buys(j, b) \subseteq 1..Len(j)
  BY <1>0 DEF Buys
<1>2. IsFiniteSet(Buys(j, b))
  <2>1. IsFiniteSet(1..Len(j))
    BY <1>0, FS_Interval
  <2> QED BY <1>1, <2>1, FS_Subset
<1> QED BY <1>0, <1>1, <1>2, FS_CardinalityType DEF Buys, Spent

LEMMA ChunkTyped ==
  ASSUME NettingTyped, NEW i
  PROVE  /\ Debits(journal, i) \in [Buyers -> Nat] /\ Credits(journal, i) \in Nat
         /\ Total(Debits(journal, i), Buyers) \in Int
<1>1. Debits(journal, i) \in [Buyers -> Nat] /\ Credits(journal, i) \in Nat
  BY BuysAre DEF NettingTyped, Books, Debits, Credits
<1> QED BY <1>1, NettingAssumption, TotalType DEF Ints

LEMMA PostChunkTyped ==
  ASSUME NettingTyped, NEW p \in Procs, PostChunk(p)
  PROVE  NettingTyped'
<1> DEFINE i == run[p].i
           d == Debits(journal, i)
           c == Credits(journal, i)
<1>1. d \in [Buyers -> Nat] /\ c \in Nat /\ Total(d, Buyers) \in Int /\ run[p] \in Run
  BY ChunkTyped, RunIs
<1>2. Books'
  <2>1. UNCHANGED ledger \/ /\ \A b \in Buyers : d[b] <= Source[b]
                            /\ Take(d)
                            /\ shop' = shop + c
                            /\ clearing' = clearing + Total(d, Buyers) - c
    BY DEF PostChunk
  <2> HIDE DEF d, c
  <2>2. wallet' \in [Buyers -> Nat] /\ escrow' \in [Buyers -> Nat] /\ shop' \in Nat /\ clearing' \in Int
    <3>1. d \in [Buyers -> Int]
      BY <1>1
    <3>2. CASE UNCHANGED ledger
      BY <3>2 DEF ledger, NettingTyped, Books
    <3>3. CASE ~UNCHANGED ledger
      <4>1. wallet' \in [Buyers -> Nat] /\ escrow' \in [Buyers -> Nat]
        BY <2>1, <3>1, <3>3, TakeTyped
      <4>2. shop \in Nat /\ clearing \in Int
        BY DEF NettingTyped, Books
      <4> QED BY <1>1, <2>1, <3>3, <4>1, <4>2
    <3> QED BY <3>2, <3>3
  <2> QED BY <2>2 DEF NettingTyped, Books, PostChunk
<1>3. Memory'
  <2> DEFINE on == [run[p] EXCEPT !.i = i + 1, !.pc = IF i + 1 < ChunkCount(journal) THEN "chunk" ELSE "claim"]
             off == [run[p] EXCEPT !.i = i - 1, !.pc = "comp"]
  <2>1. run' = [run EXCEPT ![p] = on] \/ run' = [run EXCEPT ![p] = off]
    <3>1. \A r : run' = [run EXCEPT ![p].i = i + 1, ![p].pc = r]
                  => run' = [run EXCEPT ![p] = [run[p] EXCEPT !.i = i + 1, !.pc = r]]
      BY DEF NettingTyped, Memory
    <3>2. run' = [run EXCEPT ![p].pc = "comp", ![p].i = i - 1]
           => run' = [run EXCEPT ![p] = [run[p] EXCEPT !.pc = "comp", !.i = i - 1]]
      BY DEF NettingTyped, Memory
    <3>3. off = [run[p] EXCEPT !.pc = "comp", !.i = i - 1]
      <4>1. i - 1 \in Int /\ "comp" \in RunSteps
        BY <1>1 DEF Run, RunSteps
      <4> QED BY <1>1, <4>1, MovedTyped
    <3> QED BY <3>1, <3>2, <3>3 DEF PostChunk
  <2>2. RunOK(on) /\ RunOK(off)
    <3>1. i + 1 \in Int /\ i - 1 \in Int
      BY <1>1 DEF Run
    <3>2. on = [run[p] EXCEPT !.pc = IF i + 1 < ChunkCount(journal) THEN "chunk" ELSE "claim", !.i = i + 1]
      BY <1>1, <3>1, MovedTyped DEF RunSteps
    <3>3. off = [run[p] EXCEPT !.pc = "comp", !.i = i - 1]
      BY <1>1, <3>1, MovedTyped DEF RunSteps
    <3> HIDE DEF on, off
    <3> QED BY <1>1, <3>1, <3>2, <3>3, MovedOn
  <2> HIDE DEF on, off
  <2> QED BY <2>1, <2>2, RunTyped DEF NettingTyped, Memory, PostChunk
<1> QED BY <1>2, <1>3 DEF NettingTyped

LEMMA FailTyped ==
  ASSUME NettingTyped, NEW p \in Procs, PostChunkFails(p) \/ ReplayFails(p) \/ SettleStepFails(p)
  PROVE  NettingTyped'
<1>1. run[p] \in Run /\ RunOK(run[p])
  BY RunIs
<1>2. \E step \in Steps : Fault(step)
  BY DEF PostChunkFails, ReplayFails, SettleStepFails, Steps
<1>3. used' \in Used
  BY <1>2, FaultTyped DEF NettingTyped, Memory
<1>4. Memory'
  <2>1. CASE PostChunkFails(p)
    <3> DEFINE r == [run[p] EXCEPT !.pc = "comp", !.i = run[p].i - 1]
    <3>1. run' = [run EXCEPT ![p] = r]
      BY <2>1 DEF PostChunkFails, NettingTyped, Memory
    <3>2. RunOK(r)
      <4>1. run[p].i - 1 \in Int
        BY <1>1 DEF Run
      <4> QED BY <1>1, <4>1, MovedOn
    <3> HIDE DEF r
    <3> QED BY <1>3, <2>1, <3>1, <3>2, RunTyped DEF PostChunkFails, NettingTyped, Memory
  <2>2. CASE ReplayFails(p)
    <3> DEFINE o == journal[run[p].i].order
               r == [run[p] EXCEPT !.i = run[p].i + 1, !.rejected = run[p].rejected \cup {o}]
    <3>1. run' = [run EXCEPT ![p] = r]
      BY <2>2 DEF ReplayFails, NettingTyped, Memory
    <3>2. o \in Orders
      <4>1. journal \in Seq(Row) /\ run[p].i \in 1..Len(journal)
        BY <1>1, <2>2 DEF ReplayFails, NettingTyped, Books, RunOK, Run
      <4>2. journal[run[p].i] \in Row
        BY <4>1
      <4> QED BY <4>2 DEF Row
    <3>3. RunOK(r)
      <4> HIDE DEF o
      <4> QED BY <1>1, <2>2, <3>2, Rejecting DEF ReplayFails
    <3> HIDE DEF r
    <3> QED BY <1>3, <2>2, <3>1, <3>3, RunTyped DEF ReplayFails, NettingTyped, Memory
  <2>3. CASE SettleStepFails(p)
    <3>1. RunOK(Thrown(p)) /\ run' = [run EXCEPT ![p] = Thrown(p)]
      BY <2>3, ThrownTyped DEF SettleStepFails
    <3> QED BY <1>3, <2>3, <3>1, RunTyped DEF SettleStepFails, NettingTyped, Memory
  <2> QED BY <2>1, <2>2, <2>3
<1>5. Books'
  BY DEF PostChunkFails, ReplayFails, SettleStepFails, NettingTyped, Books, ledger
<1> QED BY <1>4, <1>5 DEF NettingTyped

LEMMA CompensateTyped ==
  ASSUME NettingTyped, NEW p \in Procs, Compensate(p)
  PROVE  NettingTyped'
<1> DEFINE i == run[p].i
           d == Debits(journal, i)
           c == Credits(journal, i)
           back == [b \in Buyers |-> -d[b]]
<1>1. d \in [Buyers -> Nat] /\ c \in Nat /\ Total(d, Buyers) \in Int /\ run[p] \in Run
      /\ i \in Int /\ i - 1 \in Int
  BY ChunkTyped, RunIs DEF Run
<1>2. Books'
  <2>1. UNCHANGED ledger \/ /\ c <= shop
                            /\ Take(back)
                            /\ shop' = shop - c
                            /\ clearing' = clearing - Total(d, Buyers) + c
    BY DEF Compensate
  <2>2. back \in [Buyers -> Int] /\ \A b \in Buyers : back[b] <= Source[b]
    <3>1. \A b \in Buyers : d[b] \in Nat /\ Source[b] \in Nat
      BY <1>1 DEF NettingTyped, Books, Source
    <3> HIDE DEF d
    <3> QED BY <3>1
  <2> HIDE DEF d, c, back
  <2>3. wallet' \in [Buyers -> Nat] /\ escrow' \in [Buyers -> Nat] /\ shop' \in Nat /\ clearing' \in Int
    <3>2. CASE UNCHANGED ledger
      BY <3>2 DEF ledger, NettingTyped, Books
    <3>3. CASE ~UNCHANGED ledger
      <4>1. wallet' \in [Buyers -> Nat] /\ escrow' \in [Buyers -> Nat]
        BY <2>1, <2>2, <3>3, TakeTyped
      <4>2. shop \in Nat /\ clearing \in Int
        BY DEF NettingTyped, Books
      <4> QED BY <1>1, <2>1, <3>3, <4>1, <4>2
    <3> QED BY <3>2, <3>3
  <2> QED BY <2>3 DEF NettingTyped, Books, Compensate
<1>3. used' \in Used
  <2>1. used \in Used /\ used.failed \cup {"comp"} \in SUBSET Steps
    BY DEF NettingTyped, Memory, Used, Steps
  <2>2. used' = used \/ used' = [used EXCEPT !.failed = used.failed \cup {"comp"}]
    BY DEF Compensate
  <2> QED BY <2>1, <2>2 DEF Used
<1>4. \E r : RunOK(r) /\ run' = [run EXCEPT ![p] = r]
  <2> DEFINE redo == [run[p] EXCEPT !.settled = TRUE, !.pc = "mv", !.i = 1]
             on == [run[p] EXCEPT !.i = i - 1]
  <2>1. run' = [run EXCEPT ![p] = redo] \/ run' = [run EXCEPT ![p] = on] \/ run' = [run EXCEPT ![p] = Thrown(p)]
    BY DEF NettingTyped, Memory, Compensate
  <2>2. run[p].pc = "comp"
    BY DEF Compensate
  <2>3. RunOK(redo)
    BY <1>1, Replaying
  <2>4. RunOK(on)
    <3>1. on \in Run /\ on.pc = "comp"
      BY <1>1, <2>2 DEF Run
    <3> HIDE DEF on
    <3> QED BY <3>1 DEF RunOK
  <2> HIDE DEF redo, on
  <2> QED BY <2>1, <2>3, <2>4, ThrownTyped
<1> QED BY <1>2, <1>3, <1>4, RunTyped DEF NettingTyped, Memory, Compensate

LEMMA ReplayTyped ==
  ASSUME NettingTyped, NEW p \in Procs, Replay(p)
  PROVE  NettingTyped'
<1> DEFINE i == run[p].i
           o == journal[i].order
           b == BuyerOf[o]
           one == [c \in Buyers |-> IF c = b THEN 1 ELSE 0]
<1>1. run[p] \in Run /\ RunOK(run[p]) /\ run[p].pc = "mv" /\ i \in 1..Len(journal)
  BY RunIs DEF Replay, RunOK, Run, NettingTyped, Books
<1>2. o \in Orders
  <2>1. journal[i] \in Row
    BY <1>1 DEF NettingTyped, Books
  <2> QED BY <2>1 DEF Row
<1>3. Books'
  <2>1. UNCHANGED ledger \/ (Source[b] > 0 /\ Take(one) /\ shop' = shop + 1 /\ clearing' = clearing)
    BY DEF Replay, ledger
  <2>2. one \in [Buyers -> Int] /\ (Source[b] > 0 => \A c \in Buyers : one[c] <= Source[c])
    <3>1. \A c \in Buyers : Source[c] \in Nat
      BY DEF NettingTyped, Books, Source
    <3> HIDE DEF b
    <3> QED BY <3>1
  <2> HIDE DEF one, b
  <2>3. wallet' \in [Buyers -> Nat] /\ escrow' \in [Buyers -> Nat] /\ shop' \in Nat /\ clearing' \in Int
    <3>2. CASE UNCHANGED ledger
      BY <3>2 DEF ledger, NettingTyped, Books
    <3>3. CASE ~UNCHANGED ledger
      <4>1. wallet' \in [Buyers -> Nat] /\ escrow' \in [Buyers -> Nat]
        BY <2>1, <2>2, <3>3, TakeTyped
      <4> QED BY <2>1, <3>3, <4>1 DEF NettingTyped, Books
    <3> QED BY <3>2, <3>3
  <2> QED BY <2>3 DEF NettingTyped, Books, Replay
<1>4. \E r : RunOK(r) /\ run' = [run EXCEPT ![p] = r]
  <2> DEFINE on == [run[p] EXCEPT !.i = i + 1]
             off == [run[p] EXCEPT !.i = i + 1, !.rejected = run[p].rejected \cup {o}]
  <2>1. RunOK(on) /\ RunOK(off)
    <3> HIDE DEF o
    <3> QED BY <1>1, <1>2, Rejecting
  <2>2. run' = [run EXCEPT ![p] = on] \/ run' = [run EXCEPT ![p] = off]
    BY <1>1 DEF NettingTyped, Memory, Replay
  <2> HIDE DEF on, off
  <2> QED BY <2>1, <2>2
<1> QED BY <1>3, <1>4, RunTyped DEF NettingTyped, Memory, Replay

LEMMA ReleasePaths ==
  ASSUME NEW p \in Procs, run \in [Procs -> Run], NEW c, NEW n, NEW x
  PROVE  /\ [run EXCEPT ![p].pc = c, ![p].i = n, ![p].released = x]
           = [run EXCEPT ![p] = [run[p] EXCEPT !.pc = c, !.i = n, !.released = x]]
         /\ [run EXCEPT ![p].i = n, ![p].released = x, ![p].pc = c]
           = [run EXCEPT ![p] = [run[p] EXCEPT !.pc = c, !.i = n, !.released = x]]
<1>1. [run EXCEPT ![p].pc = c, ![p].i = n, ![p].released = x]
       = [run EXCEPT ![p] = [run[p] EXCEPT !.pc = c, !.i = n, !.released = x]]
  OBVIOUS
<1>2. [run EXCEPT ![p].i = n, ![p].released = x, ![p].pc = c]
       = [run EXCEPT ![p] = [run[p] EXCEPT !.pc = c, !.i = n, !.released = x]]
  BY DEF Run
<1> QED BY <1>1, <1>2

LEMMA ReleaseTyped ==
  ASSUME NettingTyped, NEW p \in Procs, ReleaseClaim(p) \/ GiveBack(p)
  PROVE  NettingTyped'
<1>1. run[p] \in Run /\ run[p].i \in Int
  BY RunIs DEF Run
<1>2. \E r : RunOK(r) /\ run' = [run EXCEPT ![p] = r]
  <2>1. \A pc \in {"give", "done"}, n \in Int, y \in BOOLEAN :
           RunOK([run[p] EXCEPT !.pc = pc, !.i = n, !.released = y])
    BY <1>1, ReleasingOK
  <2>2. \E pc \in {"give", "done"}, n \in Int, y \in BOOLEAN :
           run' = [run EXCEPT ![p] = [run[p] EXCEPT !.pc = pc, !.i = n, !.released = y]]
    <3>1. CASE ReleaseClaim(p)
      <4> DEFINE wins == ~run[p].released /\ ~claimed
                 pc == IF wins THEN "give" ELSE "done"
      <4>1. run' = [run EXCEPT ![p].pc = pc, ![p].i = 1, ![p].released = ~wins]
        BY <3>1 DEF ReleaseClaim
      <4>2. pc \in {"give", "done"} /\ 1 \in Int
        OBVIOUS
      <4>3. (~wins) \in BOOLEAN
        OBVIOUS
      <4>4. run \in [Procs -> Run]
        BY DEF NettingTyped, Memory
      <4> HIDE DEF pc, wins
      <4>5. run' = [run EXCEPT ![p] = [run[p] EXCEPT !.pc = pc, !.i = 1, !.released = ~wins]]
        BY <4>1, <4>4, ReleasePaths
      <4> QED BY <4>2, <4>3, <4>5
    <3>2. CASE GiveBack(p)
      <4> DEFINE last == run[p].i = Len(Reserved(p))
                 pc == IF last THEN "done" ELSE "give"
      <4>1. run' = [run EXCEPT ![p].i = run[p].i + 1, ![p].released = last, ![p].pc = pc]
        BY <3>2 DEF GiveBack
      <4>2. pc \in {"give", "done"} /\ run[p].i + 1 \in Int
        BY <1>1
      <4>3. last \in BOOLEAN
        OBVIOUS
      <4>4. run \in [Procs -> Run]
        BY DEF NettingTyped, Memory
      <4> HIDE DEF pc, last
      <4>5. run' = [run EXCEPT ![p] = [run[p] EXCEPT !.pc = pc, !.i = run[p].i + 1, !.released = last]]
        BY <4>1, <4>4, ReleasePaths
      <4> QED BY <4>2, <4>3, <4>5
    <3> QED BY <3>1, <3>2
  <2> QED BY <2>1, <2>2
<1>3. Memory'
  <2>1. UNCHANGED <<lane, used>>
    BY DEF ReleaseClaim, GiveBack
  <2> QED BY <1>2, <2>1, RunTyped DEF NettingTyped, Memory
<1>4. registry' \in [Buyers -> Int]
  <2>1. \A b : [registry EXCEPT ![b] = @ + 1] \in [Buyers -> Int]
    <3> TAKE b
    <3>1. registry \in [Buyers -> Int]
      BY DEF NettingTyped, Books
    <3>2. CASE b \in Buyers
      BY <3>1, <3>2
    <3>3. CASE b \notin Buyers
      BY <3>1, <3>3
    <3> QED BY <3>2, <3>3
  <2>2. registry' = registry \/ \E b : registry' = [registry EXCEPT ![b] = @ + 1]
    BY DEF ReleaseClaim, GiveBack
  <2> QED BY <2>1, <2>2 DEF NettingTyped, Books
<1>6. Books'
  BY <1>4 DEF NettingTyped, Books, ReleaseClaim, GiveBack, ledger
<1> QED BY <1>3, <1>6 DEF NettingTyped

LEMMA OwingPaths ==
  ASSUME NEW p \in Procs, run \in [Procs -> Run], NEW c, NEW owes
  PROVE  /\ [run EXCEPT ![p].pc = c, ![p].owes = owes]
             = [run EXCEPT ![p] = [run[p] EXCEPT !.pc = c, !.owes = owes]]
         /\ [run EXCEPT ![p].owes = owes]
             = [run EXCEPT ![p] = [run[p] EXCEPT !.pc = run[p].pc, !.owes = owes]]
         /\ [run EXCEPT ![p].pc = c]
             = [run EXCEPT ![p] = [run[p] EXCEPT !.pc = c, !.owes = run[p].owes]]
<1>1. [run EXCEPT ![p].pc = c, ![p].owes = owes]
        = [run EXCEPT ![p] = [run[p] EXCEPT !.pc = c, !.owes = owes]]
  OBVIOUS
<1>2. [run EXCEPT ![p].owes = owes]
        = [run EXCEPT ![p] = [run[p] EXCEPT !.pc = run[p].pc, !.owes = owes]]
  BY DEF Run
<1>3. [run EXCEPT ![p].pc = c]
        = [run EXCEPT ![p] = [run[p] EXCEPT !.pc = c, !.owes = run[p].owes]]
  BY DEF Run
<1> QED BY <1>1, <1>2, <1>3

(* A step that only moves its run on, or changes what it owes. *)
LEMMA OwingTyped ==
  ASSUME NettingTyped, NEW p \in Procs, NEW c \in RunSteps, NEW owes \in SUBSET (Orders \cup Buyers),
         c \in {"refund", "post"} => owes \subseteq Buyers,
         c = "post" => run[p].buyer \in Buyers,
         c = "mv" => run[p].i >= 1,
         \/ run' = [run EXCEPT ![p].pc = c, ![p].owes = owes]
         \/ run' = [run EXCEPT ![p].owes = owes] /\ c = run[p].pc
         \/ run' = [run EXCEPT ![p].pc = c] /\ owes = run[p].owes
  PROVE  \E r : RunOK(r) /\ run' = [run EXCEPT ![p] = r]
<1>1. run \in [Procs -> Run] /\ run[p] \in Run
  BY RunIs DEF NettingTyped, Memory
<1>2. run' = [run EXCEPT ![p] = [run[p] EXCEPT !.pc = c, !.owes = owes]]
  <2>1. CASE run' = [run EXCEPT ![p].pc = c, ![p].owes = owes]
    BY <1>1, <2>1, OwingPaths
  <2>2. CASE run' = [run EXCEPT ![p].owes = owes] /\ c = run[p].pc
    BY <1>1, <2>2, OwingPaths
  <2>3. CASE run' = [run EXCEPT ![p].pc = c] /\ owes = run[p].owes
    BY <1>1, <2>3, OwingPaths
  <2> QED BY <2>1, <2>2, <2>3
<1>3. RunOK([run[p] EXCEPT !.pc = c, !.owes = owes])
  BY <1>1, OwingOK
<1> QED BY <1>2, <1>3

LEMMA OwesAre ==
  ASSUME NettingTyped, NEW p \in Procs
  PROVE  /\ run[p].owes \in SUBSET (Orders \cup Buyers) /\ run[p].rejected \subseteq Orders
         /\ run[p].pc \in RunSteps
         /\ run[p].pc \in {"refund", "post"} => run[p].owes \subseteq Buyers
         /\ lane.granted \subseteq Orders /\ lane.funded \subseteq Buyers /\ lane.held \in [Buyers -> Int]
         /\ Escrowed(journal) \subseteq Buyers /\ "lane" \in Procs /\ "rec" \in Procs
<1>1. run[p] \in Run /\ RunOK(run[p])
  BY RunIs
<1>2. lane.granted \subseteq Orders /\ lane.funded \subseteq Buyers /\ lane.held \in [Buyers -> Int]
  BY DEF NettingTyped, Memory, Lane
<1>3. Escrowed(journal) \subseteq Buyers
  <2>1. Movements(journal) \subseteq Orders
    <3>1. \A k \in DOMAIN journal : journal[k] \in Row
      BY DEF NettingTyped, Books
    <3> QED BY <3>1 DEF Movements, Row
  <2> QED BY <2>1, NettingAssumption DEF Escrowed
<1> QED BY <1>1, <1>2, <1>3 DEF RunOK, Run, Procs

LEMMA MovesOn ==
  ASSUME NettingTyped, NEW p \in Procs, NEW c \in RunSteps, c \notin {"refund", "post", "mv"},
         run' = [run EXCEPT ![p].pc = c]
  PROVE  \E r : RunOK(r) /\ run' = [run EXCEPT ![p] = r]
<1> DEFINE owes == run[p].owes
<1>1. owes \in SUBSET (Orders \cup Buyers)
  BY OwesAre
<1>2. run' = [run EXCEPT ![p].pc = c] /\ owes = run[p].owes
  OBVIOUS
<1> HIDE DEF owes
<1> QED BY <1>1, <1>2, OwingTyped

LEMMA OwesLess ==
  ASSUME NettingTyped, NEW p \in Procs, NEW o, run' = [run EXCEPT ![p].owes = @ \ {o}]
  PROVE  \E r : RunOK(r) /\ run' = [run EXCEPT ![p] = r]
<1> DEFINE owes == run[p].owes \ {o}
           c == run[p].pc
<1>1. RunOK(run[p]) /\ run[p] \in Run
  BY RunIs
<1>2. /\ owes \in SUBSET (Orders \cup Buyers) /\ c \in RunSteps
      /\ c \in {"refund", "post"} => owes \subseteq Buyers
      /\ c = "post" => run[p].buyer \in Buyers
      /\ c = "mv" => run[p].i >= 1
  <2>1. run[p].owes \in SUBSET (Orders \cup Buyers) /\ c \in RunSteps
        /\ (c \in {"refund", "post"} => run[p].owes \subseteq Buyers)
    BY OwesAre
  <2> QED BY <1>1, <2>1 DEF RunOK
<1>3. run' = [run EXCEPT ![p].owes = owes] /\ c = run[p].pc
  OBVIOUS
<1> HIDE DEF owes, c
<1> QED BY <1>2, <1>3, OwingTyped

LEMMA BackstopTyped ==
  ASSUME NettingTyped, RevokeRefused \/ ReleaseHolds \/ EmitSettled \/ CloseLane
  PROVE  NettingTyped'
<1>0. "lane" \in Procs
  BY DEF Procs
<1>1. lane' \in Lane /\ (lane'.pc # "open" => lane'.order \in Orders)
  <2>1. lane \in Lane /\ (lane.pc # "open" => lane.order \in Orders)
    BY DEF NettingTyped, Memory
  <2>2. CASE ReleaseHolds
    <3> DEFINE held(b) == [lane.held EXCEPT ![b] = -1]
    <3>1. lane' = lane \/ \E b \in Buyers : lane' = [lane EXCEPT !.held = held(b)]
      BY <2>1, <2>2 DEF ReleaseHolds, Lane
    <3>2. \A b \in Buyers : held(b) \in [Buyers -> Int]
      BY <1>0, OwesAre
    <3> HIDE DEF held
    <3> QED BY <2>1, <3>1, <3>2 DEF Lane
  <2>3. CASE ~ReleaseHolds
    BY <2>1, <2>3 DEF Lane, RevokeRefused, EmitSettled, CloseLane
  <2> QED BY <2>2, <2>3
<1>2. \/ run' = run
      \/ \E r : RunOK(r) /\ run' = [run EXCEPT !["lane"] = r]
  <2>1. CASE RevokeRefused
    <3>2. CASE \E o \in run["lane"].owes : run' = [run EXCEPT !["lane"].owes = @ \ {o}]
      BY <1>0, <3>2, OwesLess
    <3>3. CASE run' = [run EXCEPT !["lane"].pc = "holds"]
      <4>1. "holds" \in RunSteps
        BY DEF RunSteps
      <4> QED BY <1>0, <3>3, <4>1, MovesOn
    <3> QED BY <2>1, <3>2, <3>3 DEF RevokeRefused
  <2>2. CASE ReleaseHolds
    <3>1. CASE run' = [run EXCEPT !["lane"].pc = "refund", !["lane"].owes = lane.funded]
      <4>1. lane.funded \subseteq Buyers /\ "refund" \in RunSteps
        BY <1>0, OwesAre DEF RunSteps
      <4> QED BY <1>0, <3>1, <4>1, OwingTyped
    <3> QED BY <2>2, <3>1 DEF ReleaseHolds
  <2>3. CASE EmitSettled \/ CloseLane
    <3>1. \E c \in {"emit", "idle"} : run' = [run EXCEPT !["lane"].pc = c]
      BY <2>3 DEF EmitSettled, CloseLane
    <3>2. \A c \in {"emit", "idle"} : c \in RunSteps
      BY DEF RunSteps
    <3> QED BY <1>0, <3>1, <3>2, MovesOn
  <2> QED BY <2>1, <2>2, <2>3
<1>3. Memory'
  <2>1. used' = used
    BY DEF RevokeRefused, ReleaseHolds, EmitSettled, CloseLane
  <2>2. CASE run' = run
    BY <1>1, <2>1, <2>2 DEF NettingTyped, Memory
  <2> QED BY <1>0, <1>1, <1>2, <2>1, <2>2, RunTyped DEF NettingTyped, Memory
<1>4. registry' \in [Buyers -> Int]
  <2>1. registry \in [Buyers -> Int] /\ lane.held \in [Buyers -> Int]
    BY <1>0, OwesAre DEF NettingTyped, Books
  <2>2. registry' = registry \/ \E b \in Buyers : registry' = [registry EXCEPT ![b] = registry[b] + lane.held[b]]
    BY DEF RevokeRefused, ReleaseHolds, EmitSettled, CloseLane
  <2> QED BY <2>1, <2>2
<1>5. Books'
  BY <1>4 DEF NettingTyped, Books, RevokeRefused, ReleaseHolds, EmitSettled, CloseLane, ledger
<1> QED BY <1>3, <1>5 DEF NettingTyped

LEMMA LaneSettleTyped ==
  ASSUME NettingTyped, lane.pending <= Len(lane.accepted), LaneSettle
  PROVE  NettingTyped'
<1> DEFINE j == journal \o Batch
<1>0. "lane" \in Procs
  BY DEF Procs
<1>9. IF lane.reported
      THEN run' = [run EXCEPT !["lane"].pc = "revoke", !["lane"].owes = refused \cap lane.granted]
           /\ journal' = journal /\ lane' = lane
      ELSE /\ journal' = j
           /\ lane' = [lane EXCEPT !.pending = 0, !.reported = (j = << >>)]
           /\ run' = IF j = << >> THEN [run EXCEPT !["lane"].pc = "revoke"]
                      ELSE [run EXCEPT !["lane"] = Started(run["lane"])]
  BY DEF LaneSettle
<1>1. j \in Seq(Row) /\ journal' \in Seq(Row)
  <2>1. journal \in Seq(Row) /\ Batch \in Seq(Row)
    BY RowsTyped DEF NettingTyped, Books
  <2>2. j \in Seq(Row)
    BY <2>1, ConcatProperties
  <2> QED BY <1>9, <2>1, <2>2
<1>2. Books'
  BY <1>1 DEF NettingTyped, Books, LaneSettle, ledger
<1>3. lane' \in Lane /\ (lane'.pc # "open" => lane'.order \in Orders)
  <2> HIDE DEF j
  <2>1. lane' = lane \/ \E x \in BOOLEAN : lane' = [lane EXCEPT !.pending = 0, !.reported = x]
    BY <1>9
  <2>2. lane \in Lane /\ lane.pc = "open"
    BY DEF NettingTyped, Memory, LaneSettle, LaneFree
  <2>3. \A x \in BOOLEAN : [lane EXCEPT !.pending = 0, !.reported = x] \in Lane
                          /\ [lane EXCEPT !.pending = 0, !.reported = x].pc = "open"
    BY <2>2 DEF Lane
  <2> QED BY <2>1, <2>2, <2>3
<1>4. \E r : RunOK(r) /\ run' = [run EXCEPT !["lane"] = r]
  <2>1. CASE lane.reported
    <3> DEFINE owes == refused \cap lane.granted
    <3>1. owes \subseteq Orders /\ owes \in SUBSET (Orders \cup Buyers) /\ "revoke" \in RunSteps
      BY <1>0, OwesAre DEF RunSteps
    <3>2. run' = [run EXCEPT !["lane"].pc = "revoke", !["lane"].owes = owes]
      BY <2>1 DEF LaneSettle
    <3> HIDE DEF owes
    <3> QED BY <1>0, <3>1, <3>2, OwingTyped
  <2>2. CASE ~lane.reported /\ j = << >>
    <3>1. run' = [run EXCEPT !["lane"].pc = "revoke"]
      BY <1>9, <2>2
    <3>2. "revoke" \in RunSteps
      BY DEF RunSteps
    <3> QED BY <1>0, <3>1, <3>2, MovesOn
  <2>3. CASE ~lane.reported /\ j # << >>
    <3> DEFINE r == run["lane"]
    <3>1. run' = [run EXCEPT !["lane"] = Started(r)] /\ r \in Run
      BY <1>0, <1>9, <2>3, RunIs
    <3>2. RunOK(Started(r))
      <4>1. RunOK([r EXCEPT !.pc = "chunk", !.i = 0])
        <5>1. "chunk" \in {"chunk", "comp", "claim", "give", "done"} /\ 0 \in Int
          OBVIOUS
        <5> HIDE DEF r
        <5> QED BY <3>1, <5>1, MovedOn
      <4> QED BY <3>1, <4>1, Replaying DEF Started
    <3> QED BY <3>1, <3>2
  <2> QED BY <2>1, <2>2, <2>3
<1>5. Memory'
  BY <1>0, <1>3, <1>4, RunTyped DEF NettingTyped, Memory, LaneSettle
<1> QED BY <1>2, <1>5 DEF NettingTyped

LEMMA FlagsAre ==
  ASSUME NEW kind \in {"sweep", "failover", "retention"}
  PROVE  /\ Recovered(kind) \in Run
         /\ Recovered(kind).pc = "idle" /\ Recovered(kind).kind = kind
         /\ Recovered(kind).forced = FailedOver /\ Recovered(kind).settled = WasSettled
         /\ Recovered(kind).rejected = {} /\ Recovered(kind).released = FALSE
<1> DEFINE new(x, y) == [FreshRun EXCEPT !.kind = kind, !.settled = x, !.forced = y]
<1>1. FreshRun \in Run
  BY FreshTyped DEF RunOK
<1>2. ASSUME NEW x \in BOOLEAN, NEW y \in BOOLEAN
      PROVE  new(x, y) \in Run
  <2> DEFINE r == FreshRun
  <2>1. r \in Run /\ kind \in {"owner", "sweep", "failover", "retention"}
    BY <1>1
  <2> HIDE DEF r
  <2>2. [r EXCEPT !.kind = kind, !.settled = x, !.forced = y] \in Run
    BY <2>1 DEF Run
  <2> QED BY <2>2 DEF r
<1>3. Recovered(kind) = new(WasSettled, FailedOver)
  BY DEF Recovered
<1>4. WasSettled \in BOOLEAN /\ FailedOver \in BOOLEAN
  BY DEF WasSettled, FailedOver
<1>5. ASSUME NEW x \in BOOLEAN, NEW y \in BOOLEAN
      PROVE  /\ new(x, y).pc = "idle" /\ new(x, y).kind = kind /\ new(x, y).forced = y
             /\ new(x, y).settled = x /\ new(x, y).rejected = {} /\ new(x, y).released = FALSE
  BY DEF FreshRun
<1>6. new(WasSettled, FailedOver) \in Run
  BY <1>2, <1>4
<1>7. LET r == new(WasSettled, FailedOver) IN
      /\ r.pc = "idle" /\ r.kind = kind /\ r.forced = FailedOver
      /\ r.settled = WasSettled /\ r.rejected = {} /\ r.released = FALSE
  BY <1>4, <1>5
<1> HIDE DEF new
<1> QED BY <1>3, <1>6, <1>7

LEMMA StartedTyped ==
  ASSUME NEW r \in Run
  PROVE  RunOK(Started(r))
<1>1. RunOK([r EXCEPT !.pc = "chunk", !.i = 0])
  <2>1. "chunk" \in {"chunk", "comp", "claim", "give", "done"} /\ 0 \in Int
    OBVIOUS
  <2> QED BY <2>1, MovedOn
<1> QED BY <1>1, Replaying DEF Started

LEMMA RefundingTyped ==
  ASSUME NettingTyped, NEW kind \in {"sweep", "failover", "retention"}
  PROVE  RunOK(Refunding(kind))
<1> DEFINE r == Recovered(kind)
           owes == Escrowed(journal)
<1>1. r \in Run
  BY FlagsAre
<1>2. owes \subseteq Buyers /\ owes \in SUBSET (Orders \cup Buyers) /\ "refund" \in RunSteps
  <2>1. owes \subseteq Buyers
    BY OwesAre DEF Procs
  <2> QED BY <2>1 DEF RunSteps
<1>3. TRUE \in BOOLEAN
  OBVIOUS
<1> HIDE DEF r, owes
<1>4. RunOK([r EXCEPT !.pc = "refund", !.owes = owes])
  BY <1>1, <1>2, <1>3, OwingOK
<1> QED BY <1>4 DEF Refunding, r, owes

LEMMA RecoverTyped ==
  ASSUME NettingTyped, SweepOrphan \/ Failover \/ PruneSettled \/ RefundsDone
  PROVE  NettingTyped'
<1>1. \E r : RunOK(r) /\ run' = [run EXCEPT !["rec"] = r]
  <2>1. \A kind \in {"sweep", "failover", "retention"} : RunOK(Started(Recovered(kind))) /\ RunOK(Refunding(kind))
    BY FlagsAre, StartedTyped, RefundingTyped
  <2>2. CASE SweepOrphan
    BY <2>1, <2>2 DEF SweepOrphan
  <2>3. CASE Failover
    BY <2>1, <2>3 DEF Failover
  <2>4. CASE PruneSettled
    BY <2>1, <2>4 DEF PruneSettled
  <2>5. CASE RefundsDone
    BY <2>5, FreshTyped DEF RefundsDone
  <2> QED BY <2>2, <2>3, <2>4, <2>5
<1>2. Memory'
  <2>1. UNCHANGED <<lane, used>> /\ "rec" \in Procs
    BY DEF SweepOrphan, Failover, PruneSettled, RefundsDone, Procs
  <2> QED BY <1>1, <2>1, RunTyped DEF NettingTyped, Memory
<1>3. Books'
  BY DEF NettingTyped, Books, SweepOrphan, Failover, PruneSettled, RefundsDone, ledger
<1> QED BY <1>2, <1>3 DEF NettingTyped

LEMMA ReportTyped ==
  ASSUME NettingTyped, NEW p \in Procs, Report(p)
  PROVE  NettingTyped'
<1> DEFINE r == [run[p] EXCEPT !.settled = TRUE]
           q == run[p]
           mine == [r EXCEPT !.pc = "revoke", !.owes = r.rejected \cap lane.granted]
           swept == [r EXCEPT !.pc = "refund", !.owes = Escrowed(journal)]
<1>1. q \in Run /\ RunOK(q)
  BY RunIs
<1>2. \E s \in {mine, swept, FreshRun} : run' = [run EXCEPT ![p] = s]
  <2>1. run' = [run EXCEPT ![p] = IF p = "lane" THEN mine ELSE IF r.kind = "sweep" THEN swept ELSE FreshRun]
    BY DEF Report
  <2>2. r.kind = q.kind
    BY <1>1 DEF Run
  <2> HIDE DEF mine, swept, r, q
  <2>3. CASE p = "lane"
    <3>1. run' = [run EXCEPT ![p] = mine]
      BY <2>1, <2>3
    <3> QED BY <3>1
  <2>4. CASE p # "lane" /\ q.kind = "sweep"
    BY <2>1, <2>2, <2>4
  <2>5. CASE p # "lane" /\ q.kind # "sweep"
    BY <2>1, <2>2, <2>5
  <2> QED BY <2>3, <2>4, <2>5
<1>3. mine = [q EXCEPT !.settled = TRUE, !.pc = "revoke", !.owes = q.rejected \cap lane.granted]
  BY <1>1 DEF Run
<1>4. swept = [q EXCEPT !.settled = TRUE, !.pc = "refund", !.owes = Escrowed(journal)]
  BY <1>1 DEF Run
<1>5. RunOK(mine) /\ RunOK(swept)
  <2> DEFINE few == q.rejected \cap lane.granted
             all == Escrowed(journal)
  <2>1. few \subseteq Orders /\ all \subseteq Buyers
    BY OwesAre
  <2>2. few \in SUBSET (Orders \cup Buyers) /\ all \in SUBSET (Orders \cup Buyers)
        /\ "refund" \in RunSteps /\ "revoke" \in RunSteps /\ TRUE \in BOOLEAN
    BY <2>1 DEF RunSteps
  <2> HIDE DEF q, few, all
  <2>3. RunOK([q EXCEPT !.settled = TRUE, !.pc = "revoke", !.owes = few])
    BY <1>1, <2>2, OwingOK
  <2>4. RunOK([q EXCEPT !.settled = TRUE, !.pc = "refund", !.owes = all])
    BY <1>1, <2>1, <2>2, OwingOK
  <2> QED BY <1>3, <1>4, <2>3, <2>4 DEF few, all
<1>6. lane' \in Lane /\ (lane'.pc # "open" => lane'.order \in Orders)
  <2> DEFINE x == lane.reported \/ p = "lane"
  <2>1. lane' = [lane EXCEPT !.reported = x] /\ x \in BOOLEAN
    BY DEF Report, NettingTyped, Memory, Lane
  <2> HIDE DEF x
  <2> QED BY <2>1 DEF NettingTyped, Memory, Lane
<1> HIDE DEF mine, swept
<1>7. Memory'
  BY <1>2, <1>5, <1>6, FreshTyped, RunTyped DEF NettingTyped, Memory, Report
<1>8. refused' \subseteq Orders
  BY OwesAre DEF NettingTyped, Books, Report
<1>9. Books'
  BY <1>8 DEF NettingTyped, Books, Report, ledger
<1> QED BY <1>7, <1>9 DEF NettingTyped

LEMMA RefundTyped ==
  ASSUME NettingTyped, NEW p \in Procs, RefundRead(p) \/ RefundPost(p)
  PROVE  NettingTyped'
<1>1. run[p] \in Run /\ RunOK(run[p]) /\ run \in [Procs -> Run]
  BY RunIs DEF NettingTyped, Memory
<1>2. escrow \in [Buyers -> Nat] /\ wallet \in [Buyers -> Nat] /\ run[p].amount \in Nat
  BY <1>1 DEF NettingTyped, Books, Run
<1>3. \E r : RunOK(r) /\ run' = [run EXCEPT ![p] = r]
  <2>1. CASE RefundRead(p)
    <3>1. run[p].owes \subseteq Buyers
      BY <1>1, <2>1 DEF RunOK, RefundRead
    <3>2. PICK b \in run[p].owes : \/ run' = [run EXCEPT ![p].owes = @ \ {b}]
                                   \/ run' = [run EXCEPT ![p].pc = "post", ![p].buyer = b, ![p].amount = escrow[b]]
      BY <2>1 DEF RefundRead
    <3>3. CASE run' = [run EXCEPT ![p].owes = @ \ {b}]
      BY <3>3, OwesLess
    <3>4. CASE run' = [run EXCEPT ![p].pc = "post", ![p].buyer = b, ![p].amount = escrow[b]]
      <4> DEFINE s == [run[p] EXCEPT !.pc = "post", !.buyer = b, !.amount = escrow[b]]
      <4>1. run' = [run EXCEPT ![p] = s]
        BY <1>1, <3>4
      <4>2. RunOK(s)
        <5>1. b \in Buyers /\ escrow[b] \in Nat /\ run[p].owes \in SUBSET Buyers
          BY <1>2, <3>1
        <5> QED BY <1>1, <3>1, <5>1, PostingOK
      <4> QED BY <4>1, <4>2
    <3> QED BY <3>2, <3>3, <3>4
  <2>2. CASE RefundPost(p)
    <3>1. CASE run' = [run EXCEPT ![p] = Thrown(p)]
      BY <3>1, ThrownTyped
    <3>2. CASE run' # [run EXCEPT ![p] = Thrown(p)]
      <4> DEFINE owes == run[p].owes \ {run[p].buyer}
                 s == [run[p] EXCEPT !.pc = "refund", !.owes = owes, !.buyer = None, !.amount = 0]
      <4>1. run' = [run EXCEPT ![p].pc = "refund", ![p].owes = owes, ![p].buyer = None, ![p].amount = 0]
        BY <2>2, <3>2 DEF RefundPost
      <4>2. owes \in SUBSET Buyers /\ 0 \in Nat /\ None \in {None}
        BY <1>1, <2>2 DEF RefundPost, RunOK
      <4> HIDE DEF owes
      <4>3. run' = [run EXCEPT ![p] = s]
        BY <1>1, <4>1
      <4>4. RunOK(s)
        BY <1>1, <4>2, PostedOK
      <4> QED BY <4>3, <4>4
    <3> QED BY <3>1, <3>2
  <2> QED BY <2>1, <2>2
<1>4. Memory'
  <2>1. UNCHANGED <<lane, used>>
    BY DEF RefundRead, RefundPost
  <2> QED BY <1>3, <2>1, RunTyped DEF NettingTyped, Memory
<1>5. wallet' \in [Buyers -> Nat] /\ escrow' \in [Buyers -> Nat]
  <2> DEFINE b == run[p].buyer
             n == run[p].amount
  <2>1. \/ UNCHANGED ledger
        \/ ~(escrow[b] < n) /\ escrow' = [escrow EXCEPT ![b] = @ - n] /\ wallet' = [wallet EXCEPT ![b] = @ + n]
    BY DEF RefundRead, RefundPost
  <2>2. RefundPost(p) => b \in Buyers
    BY <1>1 DEF RefundPost, RunOK
  <2>3. RefundRead(p) => UNCHANGED ledger
    BY DEF RefundRead
  <2> HIDE DEF b, n
  <2>4. n \in Nat
    BY <1>2 DEF n
  <2>5. CASE UNCHANGED ledger
    BY <1>2, <2>5 DEF ledger
  <2> QED BY <1>2, <2>1, <2>2, <2>3, <2>4, <2>5
<1>6. Books'
  BY <1>5 DEF NettingTyped, Books, RefundRead, RefundPost, ledger
<1> QED BY <1>4, <1>6 DEF NettingTyped

LEMMA CrashTyped ==
  ASSUME NettingTyped, NEW p \in Procs, Crash(p)
  PROVE  NettingTyped'
<1>1. lane' \in Lane /\ (lane'.pc # "open" => lane'.order \in Orders)
  <2>1. lane' = lane \/ lane' = [lane EXCEPT !.up = FALSE, !.pc = "open", !.order = None, !.queued = None]
    BY DEF Crash
  <2>2. \A x \in BOOLEAN, c \in {"open"}, o \in {None} :
           /\ [lane EXCEPT !.up = x, !.pc = c, !.order = o, !.queued = o] \in Lane
           /\ [lane EXCEPT !.up = x, !.pc = c, !.order = o, !.queued = o].pc = c
    BY DEF NettingTyped, Memory, Lane
  <2> QED BY <2>1, <2>2 DEF NettingTyped, Memory
<1>2. used' \in Used
  <2>1. used \in Used /\ used.crashes + 1 \in Nat
    BY DEF NettingTyped, Memory, Used
  <2>2. used' = [used EXCEPT !.crashes = used.crashes + 1]
    BY DEF Crash
  <2> QED BY <2>1, <2>2 DEF Used
<1>3. run' = [run EXCEPT ![p] = FreshRun]
  BY DEF Crash
<1>4. Memory'
  BY <1>1, <1>2, <1>3, FreshTyped, RunTyped
<1>5. Books'
  BY DEF NettingTyped, Books, Crash, ledger
<1> QED BY <1>4, <1>5 DEF NettingTyped

LEMMA MainLaneTyped ==
  ASSUME NettingTyped, MainLaneSpend \/ MainLaneTopUp
  PROVE  NettingTyped'
<1>1. used' \in Used
  <2>1. used \in Used /\ used.spends + 1 \in Nat /\ used.topUps + 1 \in Nat
    BY DEF NettingTyped, Memory, Used
  <2>2. used' = [used EXCEPT !.spends = used.spends + 1] \/ used' = [used EXCEPT !.topUps = used.topUps + 1]
    BY DEF MainLaneSpend, MainLaneTopUp
  <2> QED BY <2>1, <2>2 DEF Used
<1>2. wallet' \in [Buyers -> Nat] /\ shop' \in Nat
  <2>1. wallet \in [Buyers -> Nat] /\ shop \in Nat
    BY DEF NettingTyped, Books
  <2>2. CASE UNCHANGED <<wallet, shop>>
    BY <2>1, <2>2
  <2>3. CASE shop > 0 /\ shop' = shop - 1 /\ UNCHANGED wallet
    BY <2>1, <2>3
  <2>4. CASE \E b \in Buyers : wallet[b] > 0 /\ wallet' = [wallet EXCEPT ![b] = wallet[b] - 1] /\ UNCHANGED shop
    BY <2>1, <2>4
  <2>5. CASE \E b \in Buyers : wallet' = [wallet EXCEPT ![b] = wallet[b] + 1] /\ UNCHANGED shop
    BY <2>1, <2>5
  <2> QED BY <2>3, <2>4, <2>5 DEF MainLaneSpend, MainLaneTopUp
<1> QED BY <1>1, <1>2 DEF NettingTyped, Memory, Books, MainLaneSpend, MainLaneTopUp

(***************************************************************************)
(* The journal and the shared reservations.                                *)
(***************************************************************************)

(* The journal holds movements of the owner's that have left its memory, in the   *)
(* order they were accepted.                                                      *)
Journaled ==
  /\ lane.pending <= Len(lane.accepted)
  /\ \A k \in DOMAIN lane.accepted : lane.accepted[k].seq = k - 1
  /\ \A k \in DOMAIN journal : /\ journal[k].seq < Len(lane.accepted) - lane.pending
                               /\ lane.accepted[journal[k].seq + 1] = journal[k]
  /\ \A k, n \in DOMAIN journal : k < n => journal[k].seq < journal[n].seq

(* One entry point of the lane runs at a time, and a settle has a journal to settle. *)
Serial ==
  /\ run["lane"].pc # "idle" => lane.pc = "open"
  /\ run["lane"].pc \in {"chunk", "comp", "mv", "claim", "give", "done"} => journal # << >>
  /\ run["rec"].pc # "idle" => journal # << >>

(* How many of the first i - 1 movements of s are of buyer b. *)
Given(s, i, b) == Cardinality({k \in Buys(s, b) : k < i})

LEMMA GivenParts ==
  ASSUME NEW s \in Seq(Row), NEW b, NEW i \in 1..Len(s) + 1
  PROVE  /\ {k \in Buys(s, b) : k < i} \subseteq Buys(s, b) /\ IsFiniteSet({k \in Buys(s, b) : k < i})
         /\ Given(s, i, b) \in Nat /\ Given(s, i, b) <= Spent(s, b)
         /\ Given(s, 1, b) = 0 /\ Given(s, Len(s) + 1, b) = Spent(s, b)
<1> DEFINE S == {k \in Buys(s, b) : k < i}
<1>1. S \subseteq Buys(s, b) /\ IsFiniteSet(Buys(s, b)) /\ Buys(s, b) \subseteq 1..Len(s) /\ Len(s) \in Nat
  BY BuysAre, LenProperties
<1>2. IsFiniteSet(S) /\ Cardinality(S) \in Nat /\ Cardinality(S) <= Cardinality(Buys(s, b))
  BY <1>1, FS_Subset, FS_CardinalityType
<1>3. {k \in Buys(s, b) : k < 1} = {}
  BY <1>1
<1>4. {k \in Buys(s, b) : k < Len(s) + 1} = Buys(s, b)
  BY <1>1
<1> QED BY <1>1, <1>2, <1>3, <1>4, FS_EmptySet DEF Given, Spent

LEMMA GivenNext ==
  ASSUME NEW s \in Seq(Row), NEW b, NEW i \in 1..Len(s)
  PROVE  Given(s, i + 1, b) = Given(s, i, b) + (IF BuyerOf[s[i].order] = b THEN 1 ELSE 0)
<1> DEFINE S == {k \in Buys(s, b) : k < i}
           T == {k \in Buys(s, b) : k < i + 1}
<1>0. Len(s) \in Nat /\ i \in 1..Len(s) + 1 /\ i \in Nat
  BY LenProperties
<1>1. IsFiniteSet(S) /\ Cardinality(S) \in Nat
  BY <1>0, GivenParts, FS_CardinalityType
<1>2. Buys(s, b) = {k \in 1..Len(s) : BuyerOf[s[k].order] = b}
  BY BuysAre
<1>3. CASE BuyerOf[s[i].order] = b
  <2>1. T = S \cup {i} /\ i \notin S
    BY <1>0, <1>2, <1>3
  <2>2. Cardinality(T) = Cardinality(S) + 1
    BY <1>1, <2>1, FS_AddElement
  <2> QED BY <1>3, <2>2 DEF Given
<1>4. CASE BuyerOf[s[i].order] # b
  <2>1. T = S
    <3>1. \A k \in Buys(s, b) : k \in 1..Len(s) /\ BuyerOf[s[k].order] = b
      BY <1>2
    <3>2. \A k \in Buys(s, b) : k # i
      BY <1>4, <3>1
    <3>3. \A k \in Buys(s, b) : k < i + 1 <=> k < i
      BY <1>0, <3>1, <3>2
    <3> QED BY <3>3
  <2>2. Given(s, i + 1, b) = Cardinality(T) /\ Given(s, i, b) = Cardinality(S)
    BY DEF Given
  <2> HIDE DEF S, T
  <2> QED BY <1>1, <1>4, <2>1, <2>2
<1> QED BY <1>3, <1>4

LEMMA GivenLonger ==
  ASSUME NEW s \in Seq(Row), NEW t \in Seq(Row), NEW b, NEW i \in 1..Len(s) + 1
  PROVE  Given(s \o t, i, b) = Given(s, i, b)
<1>1. s \o t \in Seq(Row) /\ Len(s \o t) = Len(s) + Len(t) /\ Len(s) \in Nat /\ Len(t) \in Nat
      /\ \A k \in 1..Len(s) : (s \o t)[k] = s[k]
  BY ConcatProperties, LenProperties
<1>2. Buys(s, b) = {k \in 1..Len(s) : BuyerOf[s[k].order] = b}
  BY BuysAre
<1>3. Buys(s \o t, b) = {k \in 1..Len(s) + Len(t) : BuyerOf[(s \o t)[k].order] = b}
  <2> DEFINE u == s \o t
  <2>1. u \in Seq(Row) /\ Len(u) = Len(s) + Len(t)
    BY <1>1
  <2> HIDE DEF u
  <2>2. Buys(u, b) = {k \in 1..Len(u) : BuyerOf[u[k].order] = b}
    BY <2>1, BuysAre
  <2> QED BY <2>1, <2>2 DEF u
<1>4. {k \in Buys(s \o t, b) : k < i} = {k \in Buys(s, b) : k < i}
  BY <1>1, <1>2, <1>3
<1> QED BY <1>4 DEF Given

LEMMA SpentAppend ==
  ASSUME NEW s \in Seq(Row), NEW row \in Row, NEW b
  PROVE  Spent(Append(s, row), b) = Spent(s, b) + (IF BuyerOf[row.order] = b THEN 1 ELSE 0)
<1> DEFINE t == Append(s, row)
           n == Len(s) + 1
<1>1. t \in Seq(Row) /\ Len(t) = n /\ Len(s) \in Nat /\ t[n] = row /\ t = s \o <<row>> /\ <<row>> \in Seq(Row)
  BY AppendProperties, AppendIsConcat, LenProperties
<1>0. n \in 1..Len(t) /\ n + 1 \in 1..Len(t) + 1
  BY <1>1
<1> HIDE DEF t, n
<1>2. Given(t, n + 1, b) = Given(t, n, b) + (IF BuyerOf[row.order] = b THEN 1 ELSE 0)
  <2>1. Given(t, n + 1, b) = Given(t, n, b) + (IF BuyerOf[t[n].order] = b THEN 1 ELSE 0)
    BY <1>0, <1>1, GivenNext
  <2> QED BY <1>1, <2>1
<1>3. Given(t, n + 1, b) = Spent(t, b)
  BY <1>0, <1>1, GivenParts
<1>4. n \in 1..Len(s) + 1
  BY <1>1 DEF n
<1>5. Given(t, n, b) = Given(s, n, b)
  <2>1. <<row>> \in Seq(Row)
    BY <1>1
  <2>2. Given(s \o <<row>>, n, b) = Given(s, n, b)
    BY <1>4, <2>1, GivenLonger
  <2> QED BY <1>1, <2>2
<1>6. Given(s, n, b) = Spent(s, b)
  BY <1>4, GivenParts DEF n
<1> QED BY <1>2, <1>3, <1>5, <1>6 DEF t

(* A journal has no more movements of a buyer's than its owner accepted. *)
LEMMA JournalSpends ==
  ASSUME NettingTyped, Journaled, NEW b
  PROVE  Spent(journal, b) <= AcceptedOf(b) /\ Spent(journal, b) \in Nat /\ AcceptedOf(b) \in Nat
<1>1. journal \in Seq(Row) /\ lane.accepted \in Seq(Row)
  BY DEF NettingTyped, Memory, Books, Lane
<1> DEFINE S == Buys(journal, b)
           T == Buys(lane.accepted, b)
           f == [k \in S |-> journal[k].seq + 1]
<1>2. IsFiniteSet(S) /\ IsFiniteSet(T) /\ S \subseteq DOMAIN journal /\ T \subseteq DOMAIN lane.accepted
      /\ Cardinality(S) \in Nat /\ Cardinality(T) \in Nat
  BY <1>1, BuysAre, FS_CardinalityType DEF Buys
<1>3. \A k \in S : f[k] \in T
  <2> TAKE k \in S
  <2>1. k \in DOMAIN journal /\ journal[k] \in Row /\ BuyerOf[journal[k].order] = b
    BY <1>1 DEF Buys
  <2>2. journal[k].seq \in Nat /\ journal[k].seq < Len(lane.accepted) - lane.pending
        /\ lane.accepted[journal[k].seq + 1] = journal[k] /\ lane.pending \in Nat
    BY <2>1 DEF Journaled, Row, NettingTyped, Memory, Lane
  <2>3. journal[k].seq + 1 \in 1..Len(lane.accepted)
    BY <1>1, <2>2
  <2> QED BY <1>1, <2>1, <2>2, <2>3 DEF Buys
<1>4. \A k, n \in S : f[k] = f[n] => k = n
  <2> TAKE k, n \in S
  <2>1. k \in DOMAIN journal /\ n \in DOMAIN journal /\ k \in Int /\ n \in Int
        /\ journal[k].seq \in Nat /\ journal[n].seq \in Nat
    <3>1. k \in DOMAIN journal /\ n \in DOMAIN journal
      BY DEF Buys
    <3>2. DOMAIN journal = 1..Len(journal) /\ journal[k] \in Row /\ journal[n] \in Row
      BY <1>1, <3>1
    <3> QED BY <3>1, <3>2 DEF Row
  <2>2. (k < n => journal[k].seq < journal[n].seq) /\ (n < k => journal[n].seq < journal[k].seq)
    BY <2>1 DEF Journaled
  <2> QED BY <2>1, <2>2
<1>5. f \in Injection(S, T)
  BY <1>3, <1>4 DEF Injection, IsInjective
<1>6. Cardinality(S) <= Cardinality(T)
  BY <1>2, <1>5, FS_Injection
<1> QED BY <1>2, <1>6 DEF Spent, AcceptedOf

(* A step that neither reserves nor gives back. *)
Quiet ==
  /\ UNCHANGED <<registry, claimed>>
  /\ lane'.accepted = lane.accepted /\ lane'.held = lane.held
  /\ \A p \in Procs : run'[p].pc = "give" => run'[p] = run[p]
  /\ \/ journal' = journal /\ lane'.pending \in {lane.pending, 0}
     \/ journal' = journal \o Batch /\ lane'.pending = 0

LEMMA ShapesAre ==
  ASSUME NettingTyped
  PROVE  /\ lane \in Lane /\ run \in [Procs -> Run] /\ journal \in Seq(Row)
         /\ lane.accepted \in Seq(Row) /\ lane.pending \in Nat /\ lane.held \in [Buyers -> Int]
         /\ registry \in [Buyers -> Int]
         /\ \A p \in Procs : run[p] \in Run
BY DEF NettingTyped, Memory, Books, Lane

LEMMA LaneQuiet ==
  ASSUME NettingTyped,
         \/ \E o \in Orders : Enqueue(o) \/ PurchaseRefused(o)
         \/ GrantItem \/ RecordThrows \/ UndoGrant \/ RecordFlush \/ RecordFlushFails \/ Accept
         \/ LaneSettleFails
  PROVE  Quiet /\ run' = run /\ (lane.pc = "open" /\ run["lane"].pc # "idle" => lane'.pc = "open")
<1>0. lane \in Lane
  BY DEF NettingTyped, Memory
<1>1. CASE \E o \in Orders : Enqueue(o) \/ PurchaseRefused(o)
  <2>1. PICK o \in Orders : Enqueue(o) \/ PurchaseRefused(o)
    BY <1>1
  <2>2. CASE Enqueue(o)
    BY <1>0, <2>2 DEF Quiet, Enqueue, Lane
  <2>3. CASE PurchaseRefused(o)
    <3>1. "rejected" \in Outcomes
      BY DEF Outcomes
    <3>2. /\ Answer(o, "rejected").accepted = lane.accepted /\ Answer(o, "rejected").pending = lane.pending
          /\ Answer(o, "rejected").held = lane.held /\ Answer(o, "rejected").pc = "open"
      BY <1>0, <3>1, AnswerIs
    <3> QED BY <2>3, <3>2 DEF Quiet, PurchaseRefused
  <2> QED BY <2>1, <2>2, <2>3
<1>2. CASE GrantItem
  BY <1>0, <1>2 DEF Quiet, GrantItem, Lane
<1>3. CASE RecordThrows \/ UndoGrant \/ RecordFlushFails \/ Accept
  <2>1. lane.order \in Orders
    BY <1>3 DEF NettingTyped, Memory, RecordThrows, UndoGrant, RecordFlushFails, Accept
  <2>2. \A x \in Outcomes : /\ Answer(lane.order, x) \in Lane
                            /\ Answer(lane.order, x).accepted = lane.accepted
                            /\ Answer(lane.order, x).pending = lane.pending
                            /\ Answer(lane.order, x).held = lane.held
                            /\ Answer(lane.order, x).pc = "open"
    BY <1>0, <2>1, AnswerIs
  <2>3. "rejected" \in Outcomes /\ "threw" \in Outcomes /\ "accepted" \in Outcomes
    BY DEF Outcomes
  <2>4. CASE RecordThrows
    BY <2>2, <2>3, <2>4 DEF Quiet, RecordThrows
  <2>5. CASE UndoGrant
    BY <2>2, <2>3, <2>5 DEF Quiet, UndoGrant
  <2>6. CASE RecordFlushFails
    <3> DEFINE a == Answer(lane.order, "threw")
    <3>1. a \in Lane /\ lane' = [a EXCEPT !.pending = 0]
      BY <2>2, <2>3, <2>6 DEF RecordFlushFails
    <3>2. lane'.accepted = a.accepted /\ lane'.held = a.held /\ lane'.pc = a.pc /\ lane'.pending = 0
      <4> HIDE DEF a
      <4> QED BY <3>1 DEF Lane
    <3> QED BY <2>2, <2>3, <2>6, <3>2 DEF Quiet, RecordFlushFails
  <2>7. CASE Accept
    <3> DEFINE a == Answer(lane.order, "accepted")
    <3>1. a \in Lane /\ lane' = [a EXCEPT !.granted = @ \cup {lane.order}]
      BY <2>2, <2>3, <2>7 DEF Accept
    <3>2. lane'.accepted = a.accepted /\ lane'.held = a.held /\ lane'.pc = a.pc /\ lane'.pending = a.pending
      <4> HIDE DEF a
      <4> QED BY <3>1 DEF Lane
    <3> QED BY <2>2, <2>3, <2>7, <3>2 DEF Quiet, Accept
  <2> QED BY <1>3, <2>4, <2>5, <2>6, <2>7
<1>4. CASE RecordFlush
  BY <1>0, <1>4 DEF Quiet, RecordFlush, Lane
<1>5. CASE LaneSettleFails
  BY <1>0, <1>5 DEF Quiet, LaneSettleFails, LaneFree, Lane
<1> QED BY <1>1, <1>2, <1>3, <1>4, <1>5

LEMMA SettleQuiet ==
  ASSUME NettingTyped, NEW p \in Procs,
         \/ PostChunk(p) \/ PostChunkFails(p) \/ Compensate(p) \/ Replay(p) \/ ReplayFails(p)
         \/ Report(p) \/ SettleStepFails(p) \/ RefundRead(p) \/ RefundPost(p) \/ Crash(p)
  PROVE  /\ Quiet /\ journal' = journal /\ (lane'.pc = lane.pc \/ lane'.pc = "open")
         /\ \A q \in Procs \ {p} : run'[q] = run[q]
         /\ run[p].pc \in {"chunk", "comp", "mv"} \/ run'[p].pc \notin {"chunk", "comp", "mv", "claim", "done"}
         /\ Crash(p) \/ (run[p].pc # "idle" /\ lane'.pc = lane.pc)
         /\ Crash(p) => run'[p].pc = "idle"
<1>0. lane \in Lane /\ run \in [Procs -> Run]
  BY ShapesAre
<1> DEFINE Goal == /\ Quiet /\ journal' = journal /\ (lane'.pc = lane.pc \/ lane'.pc = "open")
                   /\ \A q \in Procs \ {p} : run'[q] = run[q]
                   /\ run[p].pc \in {"chunk", "comp", "mv"} \/ run'[p].pc \notin {"chunk", "comp", "mv", "claim", "done"}
                   /\ Crash(p) \/ (run[p].pc # "idle" /\ lane'.pc = lane.pc)
                   /\ Crash(p) => run'[p].pc = "idle"
<1> SUFFICES Goal
  OBVIOUS
<1>1. ASSUME NEW r, run' = [run EXCEPT ![p] = r], r.pc # "give", UNCHANGED <<registry, claimed, journal>>,
             lane'.accepted = lane.accepted, lane'.held = lane.held, lane'.pending = lane.pending,
             run[p].pc \in {"chunk", "comp", "mv"} \/ r.pc \notin {"chunk", "comp", "mv", "claim", "done"},
             \/ run[p].pc # "idle" /\ lane'.pc = lane.pc /\ ~Crash(p)
             \/ Crash(p) /\ r.pc = "idle" /\ lane'.pc \in {lane.pc, "open"}
      PROVE  Goal
  <2>1. run'[p] = r /\ \A q \in Procs \ {p} : run'[q] = run[q]
    BY <1>0, <1>1
  <2> QED BY <1>1, <2>1 DEF Quiet
<1>2. Thrown(p).pc = "idle" /\ FreshRun.pc = "idle"
  BY <1>0 DEF Thrown, FreshRun, Run
<1>3. CASE Crash(p)
  <2>1. /\ lane'.accepted = lane.accepted /\ lane'.held = lane.held /\ lane'.pending = lane.pending
        /\ lane'.pc \in {lane.pc, "open"}
    BY <1>0, <1>3 DEF Crash, Lane
  <2>2. run' = [run EXCEPT ![p] = FreshRun] /\ UNCHANGED <<registry, claimed, journal>>
    BY <1>3 DEF Crash
  <2> QED BY <1>1, <1>2, <1>3, <2>1, <2>2
<1> DEFINE To(r) == /\ run' = [run EXCEPT ![p] = r] /\ r.pc # "give"
                    /\ run[p].pc \in {"chunk", "comp", "mv"} \/ r.pc \notin {"chunk", "comp", "mv", "claim", "done"}
           Still == UNCHANGED <<registry, claimed, journal, lane>> /\ run[p].pc # "idle" /\ ~Crash(p)
<1>4. ASSUME NEW r, To(r), Still
      PROVE  Goal
  BY <1>1, <1>4
<1>5. CASE ~Crash(p) /\ PostChunk(p)
  <2> DEFINE c == IF run[p].i + 1 < ChunkCount(journal) THEN "chunk" ELSE "claim"
             on == [run[p] EXCEPT !.i = run[p].i + 1, !.pc = c]
             off == [run[p] EXCEPT !.pc = "comp", !.i = run[p].i - 1]
  <2>1. run' = [run EXCEPT ![p].i = run[p].i + 1, ![p].pc = c]
        \/ run' = [run EXCEPT ![p].pc = "comp", ![p].i = run[p].i - 1]
    BY <1>5 DEF PostChunk
  <2>2. c \in {"chunk", "claim"}
    OBVIOUS
  <2> HIDE DEF c
  <2>3. run' = [run EXCEPT ![p] = on] \/ run' = [run EXCEPT ![p] = off]
    BY <1>0, <2>1
  <2>4. on.pc = c /\ off.pc = "comp" /\ run[p].pc = "chunk" /\ UNCHANGED <<registry, claimed, journal, lane>>
    BY <1>0, <1>5 DEF Run, PostChunk
  <2> HIDE DEF on, off
  <2>8. To(on) \/ To(off)
    BY <1>5, <2>2, <2>3, <2>4
  <2>9. Still
    BY <1>5, <2>2, <2>3, <2>4
  <2> HIDE DEF To, Still, Goal
  <2> QED BY <1>4, <2>8, <2>9
<1>6. CASE ~Crash(p) /\ (PostChunkFails(p) \/ ReplayFails(p))
  <2> DEFINE off == [run[p] EXCEPT !.pc = "comp", !.i = @ - 1]
             next == [run[p] EXCEPT !.i = @ + 1, !.rejected = @ \cup {journal[run[p].i].order}]
  <2>1. run' = [run EXCEPT ![p] = off] \/ (run' = [run EXCEPT ![p] = next] /\ run[p].pc = "mv")
    BY <1>0, <1>6 DEF PostChunkFails, ReplayFails
  <2>2. /\ off.pc = "comp" /\ next.pc = run[p].pc /\ run[p].pc \in {"chunk", "mv"}
        /\ UNCHANGED <<registry, claimed, journal, lane>>
    BY <1>0, <1>6 DEF Run, PostChunkFails, ReplayFails
  <2> HIDE DEF off, next
  <2>8. To(off) \/ To(next)
    BY <1>6, <2>1, <2>2
  <2>9. Still
    BY <1>6, <2>1, <2>2
  <2> HIDE DEF To, Still, Goal
  <2> QED BY <1>4, <2>8, <2>9
<1>7. CASE ~Crash(p) /\ Compensate(p)
  <2> DEFINE redo == [run[p] EXCEPT !.settled = TRUE, !.pc = "mv", !.i = 1]
             on == [run[p] EXCEPT !.i = run[p].i - 1]
  <2>1. run' = [run EXCEPT ![p] = redo] \/ run' = [run EXCEPT ![p] = on] \/ run' = [run EXCEPT ![p] = Thrown(p)]
    BY <1>0, <1>7 DEF Compensate
  <2>2. /\ redo.pc = "mv" /\ on.pc = "comp" /\ run[p].pc = "comp"
        /\ UNCHANGED <<registry, claimed, journal, lane>>
    BY <1>0, <1>7 DEF Run, Compensate
  <2> HIDE DEF redo, on
  <2>8. To(redo) \/ To(on) \/ To(Thrown(p))
    BY <1>2, <1>7, <2>1, <2>2
  <2>9. Still
    BY <1>2, <1>7, <2>1, <2>2
  <2> HIDE DEF To, Still, Goal
  <2> QED BY <1>4, <2>8, <2>9
<1>8. CASE ~Crash(p) /\ Replay(p)
  <2> DEFINE on == [run[p] EXCEPT !.i = run[p].i + 1]
             off == [run[p] EXCEPT !.i = run[p].i + 1, !.rejected = @ \cup {journal[run[p].i].order}]
  <2>1. run' = [run EXCEPT ![p] = on] \/ run' = [run EXCEPT ![p] = off]
    BY <1>0, <1>8 DEF Replay
  <2>2. /\ on.pc = "mv" /\ off.pc = "mv" /\ run[p].pc = "mv"
        /\ UNCHANGED <<registry, claimed, journal, lane>>
    BY <1>0, <1>8 DEF Run, Replay
  <2> HIDE DEF on, off
  <2>8. To(on) \/ To(off)
    BY <1>8, <2>1, <2>2
  <2>9. Still
    BY <1>8, <2>1, <2>2
  <2> HIDE DEF To, Still, Goal
  <2> QED BY <1>4, <2>8, <2>9
<1>9. CASE ~Crash(p) /\ Report(p)
  <2> DEFINE r == [run[p] EXCEPT !.settled = TRUE]
             mine == [r EXCEPT !.pc = "revoke", !.owes = r.rejected \cap lane.granted]
             swept == [r EXCEPT !.pc = "refund", !.owes = Escrowed(journal)]
             x == lane.reported \/ p = "lane"
  <2>1. run' = [run EXCEPT ![p] = IF p = "lane" THEN mine ELSE IF r.kind = "sweep" THEN swept ELSE FreshRun]
    BY <1>9 DEF Report
  <2>2. mine.pc = "revoke" /\ swept.pc = "refund" /\ run[p].pc = "done"
    BY <1>0, <1>9 DEF Run, Report
  <2>3. lane' = [lane EXCEPT !.reported = x] /\ UNCHANGED <<registry, claimed, journal>>
    BY <1>9 DEF Report
  <2>4. /\ lane'.accepted = lane.accepted /\ lane'.held = lane.held /\ lane'.pending = lane.pending
        /\ lane'.pc = lane.pc
    <3> HIDE DEF x
    <3> QED BY <1>0, <2>3 DEF Lane
  <2>5. \E s \in {mine, swept, FreshRun} : run' = [run EXCEPT ![p] = s]
    <3> HIDE DEF mine, swept
    <3> QED BY <2>1
  <2>6. PICK s \in {mine, swept, FreshRun} : run' = [run EXCEPT ![p] = s]
    BY <2>5
  <2>7. s.pc \in {"revoke", "refund", "idle"}
    <3> HIDE DEF mine, swept
    <3> QED BY <1>2, <2>2, <2>6
  <2> HIDE DEF mine, swept, Goal
  <2> QED BY <1>1, <1>9, <2>2, <2>3, <2>4, <2>6, <2>7
<1>10. CASE ~Crash(p) /\ SettleStepFails(p)
  <2>1. run' = [run EXCEPT ![p] = Thrown(p)] /\ UNCHANGED <<registry, claimed, journal, lane>>
    BY <1>10 DEF SettleStepFails
  <2>2. run[p].pc # "idle"
    <3>1. run[p].pc = "idle" => ~AtClaim(p)
      BY DEF AtClaim
    <3> QED BY <1>10, <3>1 DEF SettleStepFails
  <2>8. To(Thrown(p))
    BY <1>2, <1>10, <2>1, <2>2
  <2>9. Still
    BY <1>2, <1>10, <2>1, <2>2
  <2> HIDE DEF To, Still, Goal
  <2> QED BY <1>4, <2>8, <2>9
<1>11. CASE ~Crash(p) /\ RefundRead(p)
  <2>1. PICK b : \/ run' = [run EXCEPT ![p].owes = @ \ {b}]
                 \/ run' = [run EXCEPT ![p].pc = "post", ![p].buyer = b, ![p].amount = escrow[b]]
    BY <1>11 DEF RefundRead
  <2> DEFINE less == [run[p] EXCEPT !.owes = @ \ {b}]
             post == [run[p] EXCEPT !.pc = "post", !.buyer = b, !.amount = escrow[b]]
  <2>2. run' = [run EXCEPT ![p] = less] \/ run' = [run EXCEPT ![p] = post]
    BY <1>0, <2>1
  <2>3. run[p].pc = "refund" /\ UNCHANGED <<registry, claimed, journal, lane>>
    BY <1>11 DEF RefundRead
  <2>4. less.pc = run[p].pc /\ post.pc = "post"
    BY <1>0 DEF Run
  <2> HIDE DEF less, post
  <2>8. To(less) \/ To(post)
    BY <1>11, <2>2, <2>3, <2>4
  <2>9. Still
    BY <1>11, <2>2, <2>3, <2>4
  <2> HIDE DEF To, Still, Goal
  <2> QED BY <1>4, <2>8, <2>9
<1>12. CASE ~Crash(p) /\ RefundPost(p)
  <2> DEFINE back == [run[p] EXCEPT !.pc = "refund", !.owes = @ \ {run[p].buyer}, !.buyer = None, !.amount = 0]
  <2>1. run' = [run EXCEPT ![p] = Thrown(p)] \/ run' = [run EXCEPT ![p] = back]
    BY <1>0, <1>12 DEF RefundPost
  <2>2. /\ back.pc = "refund" /\ run[p].pc = "post"
        /\ UNCHANGED <<registry, claimed, journal, lane>>
    BY <1>0, <1>12 DEF Run, RefundPost
  <2> HIDE DEF back
  <2>8. To(Thrown(p)) \/ To(back)
    BY <1>2, <1>12, <2>1, <2>2
  <2>9. Still
    BY <1>2, <1>12, <2>1, <2>2
  <2> HIDE DEF To, Still, Goal
  <2> QED BY <1>4, <2>8, <2>9
<1> QED BY <1>3, <1>5, <1>6, <1>7, <1>8, <1>9, <1>10, <1>11, <1>12

LEMMA OwnerQuiet ==
  ASSUME NettingTyped, Journaled, RevokeRefused \/ EmitSettled \/ CloseLane \/ LaneSettle
  PROVE  /\ Quiet /\ lane'.pc = lane.pc /\ run'["rec"] = run["rec"]
         /\ run["lane"].pc # "idle" \/ lane.pc = "open"
         /\ run'["lane"].pc \in {"chunk", "comp", "mv", "claim"} => journal' # << >>
         /\ run'["lane"].pc \notin {"give", "done"}
<1>0. lane \in Lane /\ run \in [Procs -> Run] /\ run["lane"] \in Run /\ "lane" \in Procs /\ "rec" \in Procs
  BY ShapesAre DEF Procs
<1>1. ASSUME NEW r, run' = [run EXCEPT !["lane"] = r]
      PROVE  run'["lane"] = r /\ run'["rec"] = run["rec"] /\ \A p \in Procs : p = "lane" \/ run'[p] = run[p]
  BY <1>0, <1>1 DEF Procs
<1>2. CASE RevokeRefused
  <2> DEFINE less(o) == [run["lane"] EXCEPT !.owes = @ \ {o}]
             on == [run["lane"] EXCEPT !.pc = "holds"]
  <2>1. (\E o : run' = [run EXCEPT !["lane"] = less(o)]) \/ run' = [run EXCEPT !["lane"] = on]
    BY <1>0, <1>2 DEF RevokeRefused
  <2>2. (\A o : less(o).pc = run["lane"].pc) /\ on.pc = "holds" /\ run["lane"].pc = "revoke"
    BY <1>0, <1>2 DEF Run, RevokeRefused
  <2> HIDE DEF less, on
  <2>3. run'["lane"].pc \in {"revoke", "holds"} /\ run'["rec"] = run["rec"] /\ \A p \in Procs : p = "lane" \/ run'[p] = run[p]
    BY <1>1, <2>1, <2>2
  <2> QED BY <1>2, <2>2, <2>3 DEF Quiet, RevokeRefused
<1>3. CASE EmitSettled \/ CloseLane
  <2> DEFINE on(c) == [run["lane"] EXCEPT !.pc = c]
  <2>1. \E c \in {"emit", "idle"} : run' = [run EXCEPT !["lane"] = on(c)]
    BY <1>0, <1>3 DEF EmitSettled, CloseLane
  <2>2. (\A c : on(c).pc = c) /\ run["lane"].pc \in {"refund", "emit"}
    BY <1>0, <1>3 DEF Run, EmitSettled, CloseLane
  <2> HIDE DEF on
  <2>3. run'["lane"].pc \in {"emit", "idle"} /\ run'["rec"] = run["rec"] /\ \A p \in Procs : p = "lane" \/ run'[p] = run[p]
    BY <1>1, <2>1, <2>2
  <2>4. /\ lane'.accepted = lane.accepted /\ lane'.held = lane.held /\ lane'.pending = lane.pending
        /\ lane'.pc = lane.pc
    BY <1>0, <1>3 DEF Lane, EmitSettled, CloseLane
  <2> QED BY <1>3, <2>2, <2>3, <2>4 DEF Quiet, EmitSettled, CloseLane
<1>4. CASE LaneSettle
  <2> DEFINE j == journal \o Batch
             revoke == [run["lane"] EXCEPT !.pc = "revoke", !.owes = refused \cap lane.granted]
             on == [run["lane"] EXCEPT !.pc = "revoke"]
             go == Started(run["lane"])
  <2>1. IF lane.reported
        THEN run' = [run EXCEPT !["lane"] = revoke] /\ journal' = journal /\ lane' = lane
        ELSE /\ journal' = j
             /\ lane' = [lane EXCEPT !.pending = 0, !.reported = (j = << >>)]
             /\ run' = IF j = << >> THEN [run EXCEPT !["lane"] = on]
                        ELSE [run EXCEPT !["lane"] = go]
    BY <1>0, <1>4 DEF LaneSettle
  <2>2. revoke.pc = "revoke" /\ on.pc = "revoke" /\ go.pc \in {"chunk", "mv"}
    BY <1>0 DEF Run, Started
  <2>3. lane.pc = "open" /\ UNCHANGED <<registry, claimed>>
    BY <1>4 DEF LaneSettle, LaneFree
  <2>4. CASE lane.reported
    <3>1. run'["lane"] = revoke /\ run'["rec"] = run["rec"] /\ \A p \in Procs : p = "lane" \/ run'[p] = run[p]
      <4> HIDE DEF revoke
      <4> QED BY <1>1, <2>1, <2>4
    <3> HIDE DEF revoke, go, j, on
    <3> QED BY <2>1, <2>2, <2>3, <2>4, <3>1 DEF Quiet
  <2>5. CASE ~lane.reported
    <3>1. /\ lane'.accepted = lane.accepted /\ lane'.held = lane.held /\ lane'.pending = 0
          /\ lane'.pc = lane.pc
      <4> DEFINE x == j = << >>
      <4>1. lane' = [lane EXCEPT !.pending = 0, !.reported = x]
        BY <2>1, <2>5
      <4> HIDE DEF x
      <4> QED BY <1>0, <4>1 DEF Lane
    <3>2. /\ run'["lane"] = (IF j = << >> THEN on ELSE go) /\ run'["rec"] = run["rec"]
          /\ \A p \in Procs : p = "lane" \/ run'[p] = run[p]
      <4>1. run' = [run EXCEPT !["lane"] = IF j = << >> THEN on ELSE go]
        <5> HIDE DEF revoke, on, go, j
        <5> QED BY <2>1, <2>5
      <4> HIDE DEF revoke, on, go, j
      <4> QED BY <1>1, <4>1
    <3>3. journal' = j
      BY <2>1, <2>5
    <3>4. run'["lane"].pc \in {"revoke", "chunk", "mv"} /\ (j = << >> => run'["lane"].pc = "revoke")
      <4> HIDE DEF on, go, j
      <4> QED BY <2>2, <3>2
    <3> HIDE DEF revoke, on, go
    <3> QED BY <2>3, <3>1, <3>2, <3>3, <3>4 DEF Quiet
  <2> QED BY <2>4, <2>5
<1> QED BY <1>2, <1>3, <1>4

LEMMA RecoverQuiet ==
  ASSUME NettingTyped, SweepOrphan \/ Failover \/ PruneSettled \/ RefundsDone
  PROVE  /\ Quiet /\ UNCHANGED <<lane, journal>> /\ run'["lane"] = run["lane"]
         /\ journal # << >> \/ run'["rec"].pc = "idle"
         /\ run'["rec"].pc \notin {"give", "done"}
<1>0. run \in [Procs -> Run] /\ "lane" \in Procs /\ "rec" \in Procs
  BY ShapesAre DEF Procs
<1>1. UNCHANGED <<registry, claimed, lane, journal>>
  BY DEF SweepOrphan, Failover, PruneSettled, RefundsDone
<1>2. \A kind \in {"sweep", "failover", "retention"} :
         Started(Recovered(kind)).pc \in {"chunk", "mv"} /\ Refunding(kind).pc = "refund"
  <2> TAKE kind \in {"sweep", "failover", "retention"}
  <2>1. Recovered(kind) \in Run
    BY FlagsAre
  <2>2. \A r \in Run : Started(r).pc \in {"chunk", "mv"} /\ \A owes : [r EXCEPT !.pc = "refund", !.owes = owes].pc = "refund"
    BY DEF Run, Started
  <2> QED BY <2>1, <2>2 DEF Refunding
<1>3. \E r : run' = [run EXCEPT !["rec"] = r] /\ r.pc \in {"chunk", "mv", "refund", "idle"}
             /\ (journal # << >> \/ r.pc = "idle")
  <2>1. FreshRun.pc = "idle"
    BY DEF FreshRun
  <2>2. CASE SweepOrphan
    BY <1>2, <2>2 DEF SweepOrphan, CanRecover
  <2>3. CASE Failover
    BY <1>2, <2>3 DEF Failover, CanRecover
  <2>4. CASE PruneSettled
    BY <1>2, <2>4 DEF PruneSettled, CanRecover
  <2>5. CASE RefundsDone
    BY <2>1, <2>5 DEF RefundsDone
  <2> QED BY <2>2, <2>3, <2>4, <2>5
<1> QED BY <1>0, <1>1, <1>3 DEF Quiet, Procs

LEMMA MainLaneQuiet ==
  ASSUME NettingTyped, MainLaneSpend \/ MainLaneTopUp
  PROVE  Quiet /\ UNCHANGED <<lane, journal, run>>
BY DEF Quiet, MainLaneSpend, MainLaneTopUp

LEMMA JournalRows ==
  ASSUME NettingTyped, Journaled
  PROVE  \A k \in DOMAIN journal : /\ journal[k] \in Row /\ journal[k].seq \in Nat
                                   /\ journal[k].seq < Len(lane.accepted) - lane.pending
                                   /\ journal[k].seq < Len(lane.accepted)
<1>1. journal \in Seq(Row) /\ lane.pending \in Nat /\ Len(lane.accepted) \in Nat
  BY ShapesAre, LenProperties
<1> TAKE k \in DOMAIN journal
<1>2. journal[k] \in Row
  BY <1>1
<1>3. journal[k].seq \in Nat
  BY <1>2 DEF Row
<1>4. journal[k].seq < Len(lane.accepted) - lane.pending
  BY DEF Journaled
<1> QED BY <1>1, <1>2, <1>3, <1>4

LEMMA BatchIs ==
  ASSUME NettingTyped, lane.pending <= Len(lane.accepted)
  PROVE  /\ Batch \in Seq(Row) /\ Len(Batch) = lane.pending
         /\ \A k \in 1..lane.pending : Batch[k] = lane.accepted[Len(lane.accepted) - lane.pending + k]
<1> DEFINE s == lane.accepted
           n == Len(s)
           m == n - lane.pending + 1
<1>1. s \in Seq(Row) /\ lane.pending \in Nat /\ n \in Nat /\ lane.pending <= n
  BY ShapesAre, LenProperties
<1>2. m \in 1..n + 1 /\ n \in m - 1..n
  BY <1>1
<1>3. Batch = SubSeq(s, m, n)
  BY DEF Batch
<1>7. s \in Seq(Row) /\ m \in 1..Len(s) + 1 /\ n \in m - 1..Len(s)
  BY <1>1, <1>2
<1> HIDE DEF s, m, n
<1>4. /\ SubSeq(s, m, n) \in Seq(Row)
      /\ Len(SubSeq(s, m, n)) = n - m + 1
      /\ \A i \in 1..n - m + 1 : SubSeq(s, m, n)[i] = s[m + i - 1]
  BY <1>7, SubSeqProperties
<1>5. n - m + 1 = lane.pending
  BY <1>1 DEF m
<1>6. \A k \in 1..lane.pending : m + k - 1 = n - lane.pending + k
  BY <1>1 DEF m
<1>8. \A k \in 1..lane.pending : Batch[k] = s[n - lane.pending + k]
  BY <1>3, <1>4, <1>5, <1>6
<1> QED BY <1>3, <1>4, <1>5, <1>8 DEF s, n

(* What a quiet step keeps. *)
LEMMA JournaledKept ==
  ASSUME NettingTyped, Journaled, Quiet
  PROVE  Journaled' /\ (journal # << >> => journal' # << >>)
         /\ \E t \in Seq(Row) : journal' = journal \o t
<1>1. /\ journal \in Seq(Row) /\ lane.accepted \in Seq(Row) /\ lane.pending \in Nat
      /\ lane.pending <= Len(lane.accepted) /\ Len(lane.accepted) \in Nat
  BY ShapesAre, LenProperties DEF Journaled
<1>2. CASE journal' = journal
  <2>1. Journaled'
    <3>1. lane'.accepted = lane.accepted /\ lane'.pending \in {lane.pending, 0}
      BY DEF Quiet
    <3>2. lane'.pending <= Len(lane'.accepted)
      BY <1>1, <3>1
    <3>3. \A k \in DOMAIN journal' : journal'[k].seq < Len(lane'.accepted) - lane'.pending
      BY <1>1, <1>2, <3>1, JournalRows
    <3> QED BY <1>2, <3>1, <3>2, <3>3 DEF Journaled
  <2>2. journal = journal \o << >> /\ << >> \in Seq(Row)
    BY <1>1, ConcatEmptySeq, EmptySeq
  <2> QED BY <1>2, <2>1, <2>2
<1>3. CASE journal' = journal \o Batch /\ lane'.pending = 0
  <2> DEFINE a == lane.accepted
             n == Len(a) - lane.pending
             m == Len(journal)
             e == lane.pending
  <2>0. n \in Nat /\ m \in Nat /\ e \in Nat /\ Len(a) = n + e /\ lane'.accepted = a
    BY <1>1, LenProperties DEF Quiet
  <2>1. Batch \in Seq(Row) /\ Len(Batch) = e /\ \A k \in 1..e : Batch[k] = a[n + k]
    BY <1>1, BatchIs
  <2>2. \A k \in 1..m : journal[k].seq \in Nat /\ journal[k].seq < n /\ a[journal[k].seq + 1] = journal[k]
    <3> TAKE k \in 1..m
    <3>1. k \in DOMAIN journal
      BY <1>1, LenProperties
    <3> QED BY <3>1, JournalRows DEF Journaled
  <2>4. /\ journal' \in Seq(Row) /\ Len(journal') = m + e
        /\ \A k \in 1..m + e : journal'[k] = IF k <= m THEN journal[k] ELSE Batch[k - m]
    <3>1. /\ journal \o Batch \in Seq(Row)
          /\ Len(journal \o Batch) = Len(journal) + Len(Batch)
          /\ \A k \in 1..Len(journal) + Len(Batch) :
                (journal \o Batch)[k] = IF k <= Len(journal) THEN journal[k] ELSE Batch[k - Len(journal)]
      BY <1>1, <2>1, ConcatProperties
    <3> QED BY <1>3, <2>1, <3>1
  <2>5. DOMAIN journal' = 1..m + e /\ DOMAIN journal = 1..m
    BY <1>1, <2>4, LenProperties
  <2>6. \A k, l \in 1..m : k < l => journal[k].seq < journal[l].seq
    BY <2>5 DEF Journaled
  <2>7. journal # << >> => journal' # << >>
    <3>1. journal # << >> => m # 0
      BY <1>1, EmptySeq
    <3>2. journal' = << >> => Len(journal') = 0
      BY EmptySeq
    <3> QED BY <2>0, <2>4, <3>1, <3>2
  <2>12. \A k \in DOMAIN a : a[k].seq = k - 1
    BY DEF Journaled
  <2>13. DOMAIN a = 1..Len(a)
    BY <1>1, LenProperties
  <2> HIDE DEF n, m, e, a
  <2>3. \A k \in 1..e : a[n + k].seq = n + k - 1
    <3> TAKE k \in 1..e
    <3>1. n + k \in DOMAIN a
      BY <2>0, <2>13
    <3> QED BY <2>0, <2>12, <2>13, <3>1
  <2>8. \A k \in 1..m + e : /\ k <= m => k \in 1..m /\ journal'[k] = journal[k]
                            /\ k > m => k - m \in 1..e /\ journal'[k] = a[n + (k - m)]
                                        /\ journal'[k].seq = n + (k - m) - 1
    <3> TAKE k \in 1..m + e
    <3>1. (k <= m => k \in 1..m) /\ (k > m => k - m \in 1..e /\ ~(k <= m))
      BY <2>0
    <3>2. k > m => journal'[k] = a[n + (k - m)] /\ a[n + (k - m)].seq = n + (k - m) - 1
      BY <2>1, <2>3, <2>4, <3>1
    <3> QED BY <2>4, <3>1, <3>2
  <2>9. \A k \in 1..m + e : journal'[k].seq < Len(a) /\ a[journal'[k].seq + 1] = journal'[k]
    <3> TAKE k \in 1..m + e
    <3>1. CASE k <= m
      BY <2>0, <2>2, <2>8, <3>1
    <3>2. CASE k > m
      <4>1. n + (k - m) - 1 < Len(a) /\ (n + (k - m) - 1) + 1 = n + (k - m)
        BY <2>0, <3>2
      <4> QED BY <2>8, <3>2, <4>1
    <3> QED BY <2>0, <3>1, <3>2
  <2>10. \A k, l \in 1..m + e : k < l => journal'[k].seq < journal'[l].seq
    <3> TAKE k, l \in 1..m + e
    <3> HAVE k < l
    <3>1. CASE l <= m
      BY <2>0, <2>6, <2>8, <3>1
    <3>2. CASE k <= m /\ l > m
      <4>1. journal'[k].seq < n /\ journal'[k].seq \in Nat
        BY <2>2, <2>8, <3>2
      <4>2. journal'[l].seq = n + (l - m) - 1
        BY <2>8, <3>2
      <4> QED BY <2>0, <3>2, <4>1, <4>2
    <3>3. CASE k > m /\ l > m
      <4>1. journal'[k].seq = n + (k - m) - 1 /\ journal'[l].seq = n + (l - m) - 1
        BY <2>8, <3>3
      <4> QED BY <2>0, <4>1
    <3> QED BY <2>0, <3>1, <3>2, <3>3
  <2>11. Journaled'
    <3>1. lane'.accepted = a /\ lane'.pending = 0
      BY <1>3, <2>0
    <3>2. \A k \in DOMAIN journal' : journal'[k].seq < Len(a) - 0 /\ a[journal'[k].seq + 1] = journal'[k]
      BY <2>0, <2>5, <2>9
    <3>3. 0 <= Len(a)
      BY <2>0
    <3> QED BY <2>5, <2>10, <2>12, <3>1, <3>2, <3>3 DEF Journaled
  <2> QED BY <1>3, <2>1, <2>7, <2>11
<1> QED BY <1>2, <1>3 DEF Quiet

(* What is left of the reservations of b beyond the movements still reserved and  *)
(* the immature part on hold.                                                     *)
Held(b) == IF lane.held[b] > 0 THEN lane.held[b] ELSE 0
Left(b) == registry[b] + AcceptedOf(b) + Held(b)

(* Nothing is given back before the claim; afterwards exactly what its one winner *)
(* has given so far, even when it dies half way.                                  *)
GrantsOK ==
  /\ ~claimed => \A b \in Buyers : Left(b) = 0
  /\ claimed => \A b \in Buyers : 0 <= Left(b) /\ Left(b) <= AcceptedOf(b)
  /\ \A p \in Procs : run[p].pc = "give" =>
       /\ claimed /\ run[p].i \in 1..Len(Reserved(p))
       /\ \A b \in Buyers : Left(b) = Given(Reserved(p), run[p].i, b)
  /\ ~(run["lane"].pc = "give" /\ run["rec"].pc = "give")

LEMMA CountsAre ==
  ASSUME NettingTyped, NEW b \in Buyers
  PROVE  /\ AcceptedOf(b) \in Nat /\ Held(b) \in Nat /\ registry[b] \in Int /\ Left(b) \in Int
         /\ lane.held[b] \in Int
<1>1. lane.accepted \in Seq(Row) /\ lane.held \in [Buyers -> Int] /\ registry \in [Buyers -> Int]
  BY ShapesAre
<1>2. AcceptedOf(b) \in Nat
  BY <1>1, BuysAre, FS_CardinalityType DEF AcceptedOf, Spent
<1>3. Held(b) \in Nat
  BY <1>1 DEF Held
<1> QED BY <1>1, <1>2, <1>3 DEF Left

LEMMA ReservedIs ==
  ASSUME NettingTyped, NEW p \in Procs
  PROVE  Reserved(p) \in Seq(Row) /\ Len(Reserved(p)) \in Nat
BY ShapesAre, LenProperties DEF Reserved

(* The seven conjuncts a step has to re-establish when it moves no reservation.   *)
LEMMA QuietGrants ==
  ASSUME NettingTyped, Journaled, GrantsOK, Quiet
  PROVE  GrantsOK'
<1>1. \A b \in Buyers : Left(b)' = Left(b) /\ AcceptedOf(b)' = AcceptedOf(b)
  BY DEF Quiet, Left, Held, AcceptedOf
<1>2. claimed' = claimed
  BY DEF Quiet
<1>3. \A p \in Procs : run'[p].pc = "give" => run'[p] = run[p]
  BY DEF Quiet
<1>4. \A p \in Procs : Reserved(p) \in Seq(Row) /\ \E t \in Seq(Row) : Reserved(p)' = Reserved(p) \o t
  <2> TAKE p \in Procs
  <2>1. lane.accepted = lane.accepted \o << >> /\ << >> \in Seq(Row) /\ lane.accepted \in Seq(Row)
    BY ShapesAre, ConcatEmptySeq, EmptySeq
  <2>2. PICK t \in Seq(Row) : journal' = journal \o t
    BY JournaledKept
  <2>3. lane'.accepted = lane.accepted
    BY DEF Quiet
  <2> QED BY <2>1, <2>2, <2>3, ReservedIs DEF Reserved
<1>5. ASSUME NEW p \in Procs, run'[p].pc = "give"
      PROVE  /\ claimed' /\ run'[p].i \in 1..Len(Reserved(p)')
             /\ \A b \in Buyers : Left(b)' = Given(Reserved(p)', run'[p].i, b)
  <2>1. run[p].pc = "give" /\ run'[p].i = run[p].i /\ run[p].i \in 1..Len(Reserved(p)) /\ claimed
        /\ \A b \in Buyers : Left(b) = Given(Reserved(p), run[p].i, b)
    BY <1>3, <1>5 DEF GrantsOK
  <2>2. PICK t \in Seq(Row) : Reserved(p)' = Reserved(p) \o t
    BY <1>4
  <2> DEFINE s == Reserved(p)
             i == run[p].i
  <2>3. s \in Seq(Row) /\ Len(s) \in Nat /\ Len(t) \in Nat /\ i \in 1..Len(s)
    BY <1>4, <2>1, LenProperties
  <2>4. i \in 1..Len(s) + 1 /\ i \in 1..Len(s) + Len(t)
    BY <2>3
  <2> HIDE DEF s, i
  <2>5. Len(s \o t) = Len(s) + Len(t)
    BY <2>3, ConcatProperties
  <2>6. \A b \in Buyers : Given(s \o t, i, b) = Given(s, i, b)
    BY <2>3, <2>4, GivenLonger
  <2> QED BY <1>1, <1>2, <2>1, <2>2, <2>4, <2>5, <2>6 DEF s, i
<1>6. ~(run'["lane"].pc = "give" /\ run'["rec"].pc = "give")
  BY <1>3 DEF GrantsOK, Procs
<1>7. (~claimed)' => \A b \in Buyers : Left(b)' = 0
  BY <1>1, <1>2 DEF GrantsOK
<1>8. claimed' => \A b \in Buyers : 0 <= Left(b)' /\ Left(b)' <= AcceptedOf(b)'
  BY <1>1, <1>2 DEF GrantsOK
<1> QED BY <1>5, <1>6, <1>7, <1>8 DEF GrantsOK

LEMMA SameLeft ==
  ASSUME NettingTyped, GrantsOK, claimed' = claimed,
         \A b \in Buyers : Left(b)' = Left(b) /\ AcceptedOf(b) <= AcceptedOf(b)' /\ AcceptedOf(b)' \in Nat,
         \A p \in Procs : run'[p].pc = "give" => run'[p] = run[p] /\ Reserved(p)' = Reserved(p)
  PROVE  GrantsOK'
<1>1. \A b \in Buyers : AcceptedOf(b) \in Nat /\ Left(b) \in Int
  BY CountsAre
<1>2. (~claimed)' => \A b \in Buyers : Left(b)' = 0
  BY DEF GrantsOK
<1>3. claimed' => \A b \in Buyers : 0 <= Left(b)' /\ Left(b)' <= AcceptedOf(b)'
  BY <1>1 DEF GrantsOK
<1>4. ASSUME NEW p \in Procs, run'[p].pc = "give"
      PROVE  /\ claimed' /\ run'[p].i \in 1..Len(Reserved(p)')
             /\ \A b \in Buyers : Left(b)' = Given(Reserved(p)', run'[p].i, b)
  BY <1>4 DEF GrantsOK
<1>5. ~(run'["lane"].pc = "give" /\ run'["rec"].pc = "give")
  BY DEF GrantsOK, Procs
<1> QED BY <1>2, <1>3, <1>4, <1>5 DEF GrantsOK

LEMMA PurchaseGrants ==
  ASSUME NettingTyped, Journaled, Serial, GrantsOK, NEW o \in Orders, Purchase(o)
  PROVE  Journaled' /\ Serial' /\ GrantsOK'
<1> DEFINE b == BuyerOf[o]
           slice == ImmaturePart(b)
           holds == prefund = 0 /\ lane.held[b] = -1
           held == [lane.held EXCEPT ![b] = IF holds THEN slice ELSE lane.held[b]]
<1>1. b \in Buyers /\ slice \in Nat
  <2>1. wallet[b] \in Nat /\ Unmatured[b] \in Nat /\ b \in Buyers
    BY NettingAssumption DEF NettingTyped, Books
  <2> QED BY <2>1 DEF ImmaturePart, Smaller
<1>2. lane.held \in [Buyers -> Int] /\ lane \in Lane /\ registry \in [Buyers -> Int]
  BY ShapesAre
<1>3. /\ lane'.accepted = lane.accepted /\ lane'.pending = lane.pending /\ lane'.held = held
      /\ registry' = [registry EXCEPT ![b] = IF holds THEN registry[b] - slice ELSE registry[b]]
      /\ run["lane"].pc = "idle" /\ UNCHANGED <<run, journal, claimed>>
  BY <1>2 DEF Purchase, Turn, Lane
<1>4. Journaled' /\ Serial'
  BY <1>3 DEF Journaled, Serial
<1> HIDE DEF slice, held
<1>5. \A c \in Buyers : /\ registry'[c] = (IF c = b /\ holds THEN registry[c] - slice ELSE registry[c])
                        /\ lane'.held[c] = (IF c = b /\ holds THEN slice ELSE lane.held[c])
  BY <1>1, <1>2, <1>3 DEF held
<1>6. \A c \in Buyers : AcceptedOf(c)' = AcceptedOf(c) /\ AcceptedOf(c) \in Nat
  BY <1>3, CountsAre DEF AcceptedOf
<1>7. \A c \in Buyers : Left(c)' = Left(c)
  <2> TAKE c \in Buyers
  <2>1. AcceptedOf(c) \in Nat /\ lane.held[c] \in Int /\ registry[c] \in Int
    BY CountsAre
  <2>2. Left(c)' = registry'[c] + AcceptedOf(c)' + (IF lane'.held[c] > 0 THEN lane'.held[c] ELSE 0)
    BY DEF Left, Held
  <2>3. Left(c) = registry[c] + AcceptedOf(c) + (IF lane.held[c] > 0 THEN lane.held[c] ELSE 0)
    BY DEF Left, Held
  <2>4. CASE c = b /\ holds
    <3>1. lane.held[c] = -1
      BY <2>4
    <3> HIDE DEF holds, b
    <3> QED BY <1>1, <1>5, <1>6, <2>1, <2>2, <2>3, <2>4, <3>1
  <2>5. CASE ~(c = b /\ holds)
    <3> HIDE DEF holds, b
    <3> QED BY <1>5, <1>6, <2>1, <2>2, <2>3, <2>5
  <2> QED BY <2>4, <2>5
<1>8. \A p \in Procs : run'[p] = run[p] /\ Reserved(p)' = Reserved(p)
  BY <1>3 DEF Reserved
<1>9. \A c \in Buyers : AcceptedOf(c) <= AcceptedOf(c)' /\ AcceptedOf(c)' \in Nat
  BY <1>6
<1>10. claimed' = claimed
  BY <1>3
<1> QED BY <1>4, <1>7, <1>8, <1>9, <1>10, SameLeft

LEMMA RecordGrants ==
  ASSUME NettingTyped, Journaled, Serial, GrantsOK, Record
  PROVE  Journaled' /\ Serial' /\ GrantsOK'
<1> DEFINE o == lane.order
           b == BuyerOf[o]
           s == lane.accepted
           row == [order |-> o, seq |-> Len(s)]
<1>1. lane.order \in Orders /\ b \in Buyers /\ s \in Seq(Row) /\ Len(s) \in Nat /\ lane.pending \in Nat
      /\ lane \in Lane /\ registry \in [Buyers -> Int] /\ lane.pending <= Len(s)
  <2>1. lane.order \in Orders
    BY DEF NettingTyped, Memory, Record
  <2> QED BY <2>1, ShapesAre, LenProperties, NettingAssumption DEF Journaled
<1>2. row \in Row /\ row.seq = Len(s) /\ row.order = o
  BY <1>1 DEF Row
<1>3. UNCHANGED <<run, journal, claimed>> /\ lane.pc = "record" /\ run["lane"].pc = "idle"
  BY DEF Record, Serial
<1>4. lane'.held = lane.held
      /\ \/ lane'.accepted = s /\ lane'.pending = lane.pending /\ registry' = registry
         \/ /\ lane'.accepted = Append(s, row) /\ lane'.pending = lane.pending + 1
            /\ registry' = [registry EXCEPT ![b] = registry[b] - 1]
  <2> DEFINE opening == IF lane.opening[b] = -1 THEN Source[b] ELSE lane.opening[b]
             seen == [lane EXCEPT !.opening = [lane.opening EXCEPT ![b] = opening]]
             pc == IF lane.pending + 1 >= MaxBatch THEN "flush" ELSE "answer"
             acc == Append(s, row)
  <2>1. \/ lane' = [seen EXCEPT !.pc = "undo"] /\ registry' = registry
        \/ lane' = [seen EXCEPT !.accepted = acc, !.pending = lane.pending + 1, !.pc = pc]
           /\ registry' = [registry EXCEPT ![b] = registry[b] - 1]
    BY <1>1 DEF Lane, Record
  <2>2. /\ seen.accepted = s /\ seen.pending = lane.pending /\ seen.held = lane.held
        /\ DOMAIN seen = DOMAIN lane
        /\ DOMAIN lane = {"up", "closed", "pc", "order", "accepted", "pending", "opening", "funded", "held",
                          "granted", "outcome", "reported", "queued", "late"}
    BY <1>1 DEF Lane
  <2> HIDE DEF seen, pc, acc
  <2>3. CASE lane' = [seen EXCEPT !.pc = "undo"] /\ registry' = registry
    BY <2>2, <2>3
  <2>4. CASE lane' = [seen EXCEPT !.accepted = acc, !.pending = lane.pending + 1, !.pc = pc]
             /\ registry' = [registry EXCEPT ![b] = registry[b] - 1]
    <3>1. lane'.accepted = acc /\ lane'.pending = lane.pending + 1 /\ lane'.held = seen.held
      BY <2>2, <2>4
    <3> QED BY <2>2, <2>4, <3>1 DEF acc
  <2> QED BY <2>1, <2>3, <2>4
<1>5. Serial'
  BY <1>3 DEF Serial
<1>6. \A p \in Procs : run'[p].pc = "give" => run'[p] = run[p] /\ Reserved(p)' = Reserved(p)
  BY <1>3 DEF Reserved, Procs
<1>7. CASE lane'.accepted = s /\ lane'.pending = lane.pending /\ registry' = registry
  <2>1. Journaled'
    BY <1>3, <1>7 DEF Journaled
  <2>2. \A c \in Buyers : Left(c)' = Left(c) /\ AcceptedOf(c)' = AcceptedOf(c)
    BY <1>4, <1>7 DEF Left, Held, AcceptedOf
  <2>3. \A c \in Buyers : Left(c)' = Left(c) /\ AcceptedOf(c) <= AcceptedOf(c)' /\ AcceptedOf(c)' \in Nat
    BY <2>2, CountsAre
  <2>4. claimed' = claimed
    BY <1>3
  <2> QED BY <1>5, <1>6, <2>1, <2>3, <2>4, SameLeft
<1>8. CASE /\ lane'.accepted = Append(s, row) /\ lane'.pending = lane.pending + 1
           /\ registry' = [registry EXCEPT ![b] = registry[b] - 1]
  <2> DEFINE t == Append(s, row)
             n == Len(s)
  <2>1. t \in Seq(Row) /\ Len(t) = n + 1 /\ t[n + 1] = row /\ \A k \in 1..n : t[k] = s[k]
    BY <1>1, <1>2, AppendProperties
  <2>2. DOMAIN t = 1..n + 1 /\ DOMAIN s = 1..n
    BY <1>1, <2>1, LenProperties
  <2>3. Journaled'
    <3> DEFINE e == lane.pending
    <3>1. \A k \in DOMAIN journal : /\ journal[k].seq \in Nat /\ journal[k].seq < n - e
                                    /\ s[journal[k].seq + 1] = journal[k]
      BY JournalRows DEF Journaled
    <3>2. \A k \in 1..n : s[k].seq = k - 1
      BY <2>2 DEF Journaled
    <3>3. \A k, m \in DOMAIN journal : k < m => journal[k].seq < journal[m].seq
      BY DEF Journaled
    <3>4. lane'.accepted = t /\ lane'.pending = e + 1 /\ journal' = journal /\ n \in Nat /\ e \in Nat /\ e <= n
          /\ row.seq = n
      BY <1>1, <1>2, <1>3, <1>8
    <3> HIDE DEF t, n, e, row, s
    <3>5. \A k \in 1..n + 1 : t[k].seq = k - 1
      <4> TAKE k \in 1..n + 1
      <4>1. CASE k \in 1..n
        BY <2>1, <3>2, <4>1
      <4>2. CASE k = n + 1
        <5>1. t[k].seq = n
          BY <2>1, <3>4, <4>2
        <5> QED BY <3>4, <4>2, <5>1
      <4> QED BY <3>4, <4>1, <4>2
    <3>6. \A k \in DOMAIN journal : /\ journal[k].seq < Len(t) - (e + 1)
                                    /\ t[journal[k].seq + 1] = journal[k]
      <4> TAKE k \in DOMAIN journal
      <4>1. journal[k].seq + 1 \in 1..n
        BY <3>1, <3>4
      <4>2. t[journal[k].seq + 1] = s[journal[k].seq + 1]
        BY <2>1, <4>1
      <4> QED BY <2>1, <3>1, <3>4, <4>2
    <3>7. e + 1 <= Len(t)
      BY <2>1, <3>4
    <3> QED BY <2>2, <3>3, <3>4, <3>5, <3>6, <3>7 DEF Journaled
  <2>4. \A c \in Buyers : Left(c)' = Left(c) /\ AcceptedOf(c) <= AcceptedOf(c)' /\ AcceptedOf(c)' \in Nat
    <3> TAKE c \in Buyers
    <3>1. AcceptedOf(c)' = AcceptedOf(c) + (IF b = c THEN 1 ELSE 0)
      <4>1. Spent(t, c) = Spent(s, c) + (IF BuyerOf[row.order] = c THEN 1 ELSE 0)
        BY <1>1, <1>2, SpentAppend
      <4> HIDE DEF t, row
      <4> QED BY <1>2, <1>8, <4>1 DEF AcceptedOf, t
    <3>2. registry'[c] = registry[c] - (IF b = c THEN 1 ELSE 0)
      <4>1. registry[c] \in Int
        BY CountsAre
      <4> QED BY <1>1, <1>8, <4>1
    <3>3. Held(c)' = Held(c)
      BY <1>4 DEF Held
    <3>4. AcceptedOf(c) \in Nat /\ Held(c) \in Nat /\ registry[c] \in Int
      BY CountsAre
    <3>5. Left(c)' = registry'[c] + AcceptedOf(c)' + Held(c)' /\ Left(c) = registry[c] + AcceptedOf(c) + Held(c)
      BY DEF Left
    <3> QED BY <3>1, <3>2, <3>3, <3>4, <3>5
  <2>5. claimed' = claimed
    BY <1>3
  <2> QED BY <1>5, <1>6, <2>3, <2>4, <2>5, SameLeft
<1> QED BY <1>4, <1>7, <1>8

LEMMA HoldsGrants ==
  ASSUME NettingTyped, Journaled, Serial, GrantsOK, ReleaseHolds
  PROVE  Journaled' /\ Serial' /\ GrantsOK'
<1>1. /\ lane \in Lane /\ run \in [Procs -> Run] /\ registry \in [Buyers -> Int]
      /\ lane.held \in [Buyers -> Int] /\ "lane" \in Procs
  BY ShapesAre DEF Procs
<1>2. run["lane"].pc = "holds" /\ UNCHANGED <<journal, claimed>> /\ lane.pc = "open"
  BY DEF ReleaseHolds, Serial
<1>3. lane'.accepted = lane.accepted /\ lane'.pending = lane.pending /\ lane'.pc = lane.pc
  BY <1>1 DEF ReleaseHolds, Lane
<1>4. /\ run'["lane"].pc \in {"holds", "refund"} /\ run'["rec"] = run["rec"]
      /\ \A p \in Procs : p = "lane" \/ run'[p] = run[p]
  <2> DEFINE on == [run["lane"] EXCEPT !.pc = "refund", !.owes = lane.funded]
  <2>1. run' = run \/ run' = [run EXCEPT !["lane"] = on]
    BY <1>1 DEF ReleaseHolds
  <2>2. on.pc = "refund"
    BY <1>1 DEF Run
  <2> HIDE DEF on
  <2> QED BY <1>1, <1>2, <2>1, <2>2 DEF Procs
<1>5. Journaled' /\ Serial'
  BY <1>2, <1>3, <1>4 DEF Journaled, Serial
<1>6. \A p \in Procs : run'[p].pc = "give" => run'[p] = run[p] /\ Reserved(p)' = Reserved(p)
  BY <1>2, <1>3, <1>4 DEF Reserved
<1>7. \A c \in Buyers : AcceptedOf(c)' = AcceptedOf(c)
  BY <1>3 DEF AcceptedOf
<1>8. \A c \in Buyers : Left(c)' = Left(c)
  <2>1. CASE UNCHANGED <<registry, lane>>
    BY <2>1 DEF Left, Held, AcceptedOf
  <2>2. CASE \E b \in Buyers : /\ lane.held[b] > 0
                               /\ registry' = [registry EXCEPT ![b] = @ + lane.held[b]]
                               /\ lane' = [lane EXCEPT !.held[b] = -1]
    <3>1. PICK b \in Buyers : /\ lane.held[b] > 0
                              /\ registry' = [registry EXCEPT ![b] = @ + lane.held[b]]
                              /\ lane' = [lane EXCEPT !.held[b] = -1]
      BY <2>2
    <3>2. lane'.held = [lane.held EXCEPT ![b] = -1]
      BY <1>1, <3>1 DEF Lane
    <3> TAKE c \in Buyers
    <3>3. AcceptedOf(c) \in Nat /\ lane.held[c] \in Int /\ registry[c] \in Int
      BY CountsAre
    <3>4. /\ registry'[c] = (IF c = b THEN registry[c] + lane.held[c] ELSE registry[c])
          /\ lane'.held[c] = (IF c = b THEN -1 ELSE lane.held[c])
      BY <1>1, <3>1, <3>2
    <3>5. /\ Left(c)' = registry'[c] + AcceptedOf(c)' + (IF lane'.held[c] > 0 THEN lane'.held[c] ELSE 0)
          /\ Left(c) = registry[c] + AcceptedOf(c) + (IF lane.held[c] > 0 THEN lane.held[c] ELSE 0)
      BY DEF Left, Held
    <3> QED BY <1>7, <3>1, <3>3, <3>4, <3>5
  <2> QED BY <2>1, <2>2 DEF ReleaseHolds
<1>9. \A c \in Buyers : Left(c)' = Left(c) /\ AcceptedOf(c) <= AcceptedOf(c)' /\ AcceptedOf(c)' \in Nat
  BY <1>7, <1>8, CountsAre
<1>10. claimed' = claimed
  BY <1>2
<1> QED BY <1>5, <1>6, <1>9, <1>10, SameLeft

LEMMA ReservedSome ==
  ASSUME NettingTyped, Journaled, NEW p \in Procs, journal # << >>
  PROVE  1 \in 1..Len(Reserved(p))
<1>1. journal \in Seq(Row) /\ lane.accepted \in Seq(Row) /\ lane.pending \in Nat
  BY ShapesAre
<1>2. Len(journal) \in Nat \ {0} /\ 1 \in DOMAIN journal
  BY <1>1, EmptySeq, LenProperties
<1>3. Len(lane.accepted) \in Nat \ {0}
  BY <1>1, <1>2, JournalRows, LenProperties
<1> QED BY <1>2, <1>3 DEF Reserved

LEMMA ClaimGrants ==
  ASSUME NettingTyped, Journaled, Serial, GrantsOK, NEW p \in Procs, ReleaseClaim(p)
  PROVE  Journaled' /\ Serial' /\ GrantsOK'
<1> DEFINE wins == ~run[p].released /\ ~claimed
           c == IF wins THEN "give" ELSE "done"
           x == ~wins
           r == [run[p] EXCEPT !.pc = c, !.i = 1, !.released = x]
<1>1. run \in [Procs -> Run] /\ run[p] \in Run
  BY ShapesAre
<1>2. run[p].pc \in {"claim", "mv"} /\ UNCHANGED <<registry, journal, lane>> /\ claimed' = TRUE
  BY DEF ReleaseClaim, AtClaim
<1>3. run' = [run EXCEPT ![p] = r]
  BY <1>1 DEF ReleaseClaim
<1>4. r.pc = c /\ r.i = 1 /\ c \in {"give", "done"}
  <2>1. c \in {"give", "done"}
    OBVIOUS
  <2> HIDE DEF c, x
  <2> QED BY <1>1, <2>1 DEF Run
<1>5. journal # << >> /\ (p = "lane" => lane.pc = "open")
  BY <1>2 DEF Serial, Procs
<1> HIDE DEF r
<1>6. run'[p] = r /\ \A q \in Procs : q = p \/ run'[q] = run[q]
  BY <1>1, <1>3
<1>7. Journaled'
  BY <1>2 DEF Journaled
<1>8. Serial'
  BY <1>2, <1>4, <1>5, <1>6 DEF Serial, Procs
<1>9. \A b \in Buyers : Left(b)' = Left(b) /\ AcceptedOf(b)' = AcceptedOf(b)
  BY <1>2 DEF Left, Held, AcceptedOf
<1>10. \A q \in Procs : Reserved(q)' = Reserved(q)
  BY <1>2 DEF Reserved
<1>11. CASE claimed
  <2>1. c = "done"
    BY <1>11
  <2> HIDE DEF c
  <2>2. \A q \in Procs : run'[q].pc = "give" => run'[q] = run[q] /\ Reserved(q)' = Reserved(q)
    BY <1>4, <1>6, <1>10, <2>1
  <2>3. \A b \in Buyers : Left(b)' = Left(b) /\ AcceptedOf(b) <= AcceptedOf(b)' /\ AcceptedOf(b)' \in Nat
    BY <1>9, CountsAre
  <2>4. claimed' = claimed
    BY <1>2, <1>11 DEF NettingTyped, Books
  <2> QED BY <1>7, <1>8, <2>2, <2>3, <2>4, SameLeft
<1>12. CASE ~claimed
  <2>1. \A b \in Buyers : Left(b)' = 0 /\ AcceptedOf(b)' \in Nat
    BY <1>9, <1>12, CountsAre DEF GrantsOK
  <2>2. \A q \in Procs : run'[q].pc = "give" => q = p
    BY <1>6, <1>12 DEF GrantsOK
  <2>3. 1 \in 1..Len(Reserved(p)) /\ \A b \in Buyers : Given(Reserved(p), 1, b) = 0
    <3>1. Reserved(p) \in Seq(Row) /\ 1 \in 1..Len(Reserved(p)) + 1
      BY ReservedIs
    <3> QED BY <1>5, <3>1, ReservedSome, GivenParts
  <2>4. ASSUME NEW q \in Procs, run'[q].pc = "give"
        PROVE  /\ claimed' /\ run'[q].i \in 1..Len(Reserved(q)')
               /\ \A b \in Buyers : Left(b)' = Given(Reserved(q)', run'[q].i, b)
    BY <1>2, <1>4, <1>6, <1>10, <2>1, <2>2, <2>3, <2>4
  <2>5. ~(run'["lane"].pc = "give" /\ run'["rec"].pc = "give")
    BY <2>2 DEF Procs
  <2>6. \A b \in Buyers : 0 <= Left(b)' /\ Left(b)' <= AcceptedOf(b)'
    BY <2>1
  <2>7. GrantsOK'
    BY <1>2, <2>4, <2>5, <2>6 DEF GrantsOK
  <2> QED BY <1>7, <1>8, <2>7
<1> QED BY <1>11, <1>12

LEMMA GiveGrants ==
  ASSUME NettingTyped, Journaled, Serial, GrantsOK, NEW p \in Procs, GiveBack(p)
  PROVE  Journaled' /\ Serial' /\ GrantsOK'
<1> DEFINE s == Reserved(p)
           i == run[p].i
           last == i = Len(s)
           b == BuyerOf[s[i].order]
           c == IF last THEN "done" ELSE "give"
           r == [run[p] EXCEPT !.i = i + 1, !.released = last, !.pc = c]
<1>1. run \in [Procs -> Run] /\ run[p] \in Run /\ registry \in [Buyers -> Int]
  BY ShapesAre
<1>2. run[p].pc = "give" /\ UNCHANGED <<claimed, journal, lane>>
      /\ registry' = [registry EXCEPT ![b] = registry[b] + 1]
  BY DEF GiveBack
<1>3. run' = [run EXCEPT ![p] = r]
  BY <1>1 DEF GiveBack
<1>4. r.pc = c /\ r.i = i + 1 /\ c \in {"give", "done"}
  <2>1. c \in {"give", "done"}
    OBVIOUS
  <2> HIDE DEF c, last
  <2> QED BY <1>1, <2>1 DEF Run
<1>5. s \in Seq(Row) /\ Len(s) \in Nat /\ i \in 1..Len(s) /\ claimed
      /\ \A a \in Buyers : Left(a) = Given(s, i, a)
  BY <1>2, ReservedIs DEF GrantsOK
<1>6. s[i].order \in Orders /\ b \in Buyers
  <2>1. s[i] \in Row
    <3> HIDE DEF s, i
    <3> QED BY <1>5
  <2> QED BY <2>1, NettingAssumption DEF Row
<1>7. \A q \in Procs : run[q].pc = "give" => q = p
  BY <1>2 DEF GrantsOK, Procs
<1> HIDE DEF r
<1>8. run'[p] = r /\ \A q \in Procs : q = p \/ run'[q] = run[q]
  BY <1>1, <1>3
<1>9. Journaled'
  BY <1>2 DEF Journaled
<1>10. Serial'
  BY <1>2, <1>4, <1>8 DEF Serial, Procs
<1>11. \A q \in Procs : Reserved(q)' = Reserved(q)
  BY <1>2 DEF Reserved
<1>12. \A a \in Buyers : AcceptedOf(a)' = AcceptedOf(a) /\ Held(a)' = Held(a)
  BY <1>2 DEF AcceptedOf, Held
<1>13. \A a \in Buyers : Left(a)' = Given(s, i + 1, a)
  <2> TAKE a \in Buyers
  <2>1. AcceptedOf(a) \in Nat /\ Held(a) \in Nat /\ registry[a] \in Int
    BY CountsAre
  <2>2. registry'[a] = registry[a] + (IF b = a THEN 1 ELSE 0)
    <3> HIDE DEF b
    <3> QED BY <1>1, <1>2, <1>6, <2>1
  <2>3. Left(a)' = registry'[a] + AcceptedOf(a)' + Held(a)' /\ Left(a) = registry[a] + AcceptedOf(a) + Held(a)
    BY DEF Left
  <2>4. Given(s, i + 1, a) = Given(s, i, a) + (IF b = a THEN 1 ELSE 0)
    <3> HIDE DEF s, i
    <3> QED BY <1>5, GivenNext DEF b
  <2> HIDE DEF s, i, b
  <2> QED BY <1>5, <1>12, <2>1, <2>2, <2>3, <2>4
<1>14. \A a \in Buyers : /\ Given(s, i + 1, a) \in Nat /\ Given(s, i + 1, a) <= Spent(s, a)
                         /\ Spent(s, a) <= AcceptedOf(a) /\ Spent(s, a) \in Nat /\ AcceptedOf(a) \in Nat
  <2> TAKE a \in Buyers
  <2>1. Given(s, i + 1, a) \in Nat /\ Given(s, i + 1, a) <= Spent(s, a)
    <3>1. i + 1 \in 1..Len(s) + 1
      BY <1>5
    <3> HIDE DEF s, i
    <3> QED BY <1>5, <3>1, GivenParts
  <2>2. Spent(s, a) <= AcceptedOf(a) /\ Spent(s, a) \in Nat /\ AcceptedOf(a) \in Nat
    <3>1. s = lane.accepted \/ s = journal
      BY DEF Reserved
    <3> HIDE DEF s
    <3>2. Spent(journal, a) <= AcceptedOf(a) /\ Spent(journal, a) \in Nat /\ AcceptedOf(a) \in Nat
      BY JournalSpends
    <3>3. AcceptedOf(a) = Spent(lane.accepted, a)
      BY DEF AcceptedOf
    <3> QED BY <3>1, <3>2, <3>3
  <2> QED BY <2>1, <2>2
<1>15. \A a \in Buyers : 0 <= Left(a)' /\ Left(a)' <= AcceptedOf(a)'
  <2> HIDE DEF s, i
  <2> QED BY <1>12, <1>13, <1>14
<1>16. ASSUME NEW q \in Procs, run'[q].pc = "give"
       PROVE  /\ claimed' /\ run'[q].i \in 1..Len(Reserved(q)')
              /\ \A a \in Buyers : Left(a)' = Given(Reserved(q)', run'[q].i, a)
  <2>1. q = p
    BY <1>7, <1>8, <1>16
  <2>2. c = "give"
    BY <1>4, <1>8, <1>16, <2>1
  <2>3. i + 1 \in 1..Len(s)
    BY <1>5, <2>2
  <2>4. Reserved(q)' = s /\ run'[q].i = i + 1 /\ claimed'
    BY <1>2, <1>4, <1>5, <1>8, <1>11, <2>1
  <2> HIDE DEF s, i
  <2> QED BY <1>13, <2>3, <2>4
<1>17. ~(run'["lane"].pc = "give" /\ run'["rec"].pc = "give")
  BY <1>7, <1>8 DEF Procs
<1>18. GrantsOK'
  BY <1>2, <1>5, <1>15, <1>16, <1>17 DEF GrantsOK
<1> QED BY <1>9, <1>10, <1>18

SessionInv == NettingTyped /\ Journaled /\ Serial /\ GrantsOK

LEMMA QuietKeeps ==
  ASSUME SessionInv, Quiet, NettingTyped', Serial'
  PROVE  SessionInv'
BY JournaledKept, QuietGrants DEF SessionInv

LEMMA SettleSerial ==
  ASSUME SessionInv, NEW p \in Procs,
         \/ PostChunk(p) \/ PostChunkFails(p) \/ Compensate(p) \/ Replay(p) \/ ReplayFails(p)
         \/ Report(p) \/ SettleStepFails(p) \/ RefundRead(p) \/ RefundPost(p) \/ Crash(p)
  PROVE  Quiet /\ Serial'
<1>0. NettingTyped /\ Serial
  BY DEF SessionInv
<1>1. /\ Quiet /\ journal' = journal /\ (lane'.pc = lane.pc \/ lane'.pc = "open")
      /\ \A q \in Procs \ {p} : run'[q] = run[q]
      /\ run[p].pc \in {"chunk", "comp", "mv"} \/ run'[p].pc \notin {"chunk", "comp", "mv", "claim", "done"}
      /\ Crash(p) \/ (run[p].pc # "idle" /\ lane'.pc = lane.pc)
      /\ Crash(p) => run'[p].pc = "idle"
  BY <1>0, SettleQuiet
<1>2. \A q \in Procs : run'[q].pc = "give" => run'[q] = run[q]
  BY <1>1 DEF Quiet
<1>3. run'["lane"].pc # "idle" => lane'.pc = "open"
  BY <1>0, <1>1 DEF Serial, Procs
<1>4. run'["lane"].pc \in {"chunk", "comp", "mv", "claim", "give", "done"} => journal' # << >>
  <2>1. CASE p = "lane"
    BY <1>0, <1>1, <1>2, <2>1 DEF Serial, Procs
  <2>2. CASE p = "rec"
    BY <1>0, <1>1, <2>2 DEF Serial, Procs
  <2> QED BY <2>1, <2>2 DEF Procs
<1>5. run'["rec"].pc # "idle" => journal' # << >>
  BY <1>0, <1>1 DEF Serial, Procs
<1> QED BY <1>1, <1>3, <1>4, <1>5 DEF Serial

LEMMA SettleStepKeeps ==
  ASSUME SessionInv, NEW p \in Procs, SettleStep(p)
  PROVE  SessionInv'
<1>0. NettingTyped /\ Journaled /\ Serial /\ GrantsOK
  BY DEF SessionInv
<1>1. CASE ReleaseClaim(p)
  BY <1>0, <1>1, ReleaseTyped, ClaimGrants DEF SessionInv
<1>2. CASE GiveBack(p)
  BY <1>0, <1>2, ReleaseTyped, GiveGrants DEF SessionInv
<1>3. CASE \/ PostChunk(p) \/ PostChunkFails(p) \/ Compensate(p) \/ Replay(p) \/ ReplayFails(p)
           \/ Report(p) \/ SettleStepFails(p) \/ RefundRead(p) \/ RefundPost(p) \/ Crash(p)
  <2>1. NettingTyped'
    BY <1>0, <1>3, PostChunkTyped, FailTyped, CompensateTyped, ReplayTyped, ReportTyped, RefundTyped, CrashTyped
  <2>2. Quiet /\ Serial'
    BY <1>3, SettleSerial
  <2> QED BY <2>1, <2>2, QuietKeeps
<1> QED BY <1>1, <1>2, <1>3 DEF SettleStep

LEMMA LaneKeeps ==
  ASSUME SessionInv,
         \/ \E o \in Orders : Enqueue(o) \/ PurchaseRefused(o)
         \/ GrantItem \/ RecordThrows \/ UndoGrant \/ RecordFlush \/ RecordFlushFails \/ Accept
         \/ LaneSettleFails
  PROVE  SessionInv'
<1>0. NettingTyped /\ Journaled /\ Serial /\ lane.pending <= Len(lane.accepted)
  BY DEF SessionInv, Journaled
<1>1. NettingTyped'
  BY <1>0, LaneTyped, GrantTyped, FlushTyped
<1>2. Quiet /\ run' = run /\ (lane.pc = "open" /\ run["lane"].pc # "idle" => lane'.pc = "open")
  BY <1>0, LaneQuiet
<1>3. journal # << >> => journal' # << >>
  BY <1>0, <1>2, JournaledKept
<1>4. Serial'
  BY <1>0, <1>2, <1>3 DEF Serial
<1> QED BY <1>1, <1>2, <1>4, QuietKeeps

LEMMA OwnerKeeps ==
  ASSUME SessionInv, RevokeRefused \/ EmitSettled \/ CloseLane \/ LaneSettle
  PROVE  SessionInv'
<1>0. NettingTyped /\ Journaled /\ Serial /\ lane.pending <= Len(lane.accepted)
  BY DEF SessionInv, Journaled
<1>1. NettingTyped'
  BY <1>0, BackstopTyped, LaneSettleTyped
<1>2. /\ Quiet /\ lane'.pc = lane.pc /\ run'["rec"] = run["rec"]
      /\ run["lane"].pc # "idle" \/ lane.pc = "open"
      /\ run'["lane"].pc \in {"chunk", "comp", "mv", "claim"} => journal' # << >>
      /\ run'["lane"].pc \notin {"give", "done"}
  BY <1>0, OwnerQuiet
<1>3. journal # << >> => journal' # << >>
  BY <1>0, <1>2, JournaledKept
<1>4. Serial'
  BY <1>0, <1>2, <1>3 DEF Serial
<1> QED BY <1>1, <1>2, <1>4, QuietKeeps

LEMMA RecoveryKeeps ==
  ASSUME SessionInv, SweepOrphan \/ Failover \/ PruneSettled \/ RefundsDone \/ MainLaneSpend \/ MainLaneTopUp
  PROVE  SessionInv'
<1>0. NettingTyped /\ Journaled /\ Serial
  BY DEF SessionInv
<1>1. CASE SweepOrphan \/ Failover \/ PruneSettled \/ RefundsDone
  <2>1. NettingTyped'
    BY <1>0, <1>1, RecoverTyped
  <2>2. /\ Quiet /\ UNCHANGED <<lane, journal>> /\ run'["lane"] = run["lane"]
        /\ journal # << >> \/ run'["rec"].pc = "idle"
    BY <1>0, <1>1, RecoverQuiet
  <2>3. Serial'
    BY <1>0, <2>2 DEF Serial
  <2> QED BY <2>1, <2>2, <2>3, QuietKeeps
<1>2. CASE MainLaneSpend \/ MainLaneTopUp
  <2>1. NettingTyped'
    BY <1>0, <1>2, MainLaneTyped
  <2>2. Quiet /\ UNCHANGED <<lane, journal, run>>
    BY <1>0, <1>2, MainLaneQuiet
  <2>3. Serial'
    BY <1>0, <2>2 DEF Serial
  <2> QED BY <2>1, <2>2, <2>3, QuietKeeps
<1> QED BY <1>1, <1>2

LEMMA SessionInit == NettingInit => SessionInv
<1> SUFFICES ASSUME NettingInit PROVE SessionInv
  OBVIOUS
<1>1. << >> \in Seq(Row) /\ Len(<< >>) = 0 /\ DOMAIN << >> = {}
  BY EmptySeq
<1>2. FreshLane \in Lane
  BY <1>1 DEF FreshLane, Lane, Outcomes
<1>3. lane = FreshLane /\ lane.pc = "open" /\ lane.pending = 0 /\ lane.accepted = << >>
      /\ lane.held = [b \in Buyers |-> -1] /\ journal = << >> /\ run = [p \in Procs |-> FreshRun]
      /\ registry = [b \in Buyers |-> 0] /\ claimed = FALSE
  BY DEF NettingInit, FreshLane
<1>4. \A p \in Procs : run[p] = FreshRun /\ RunOK(run[p]) /\ run[p].pc = "idle"
  BY <1>3, FreshTyped DEF FreshRun
<1>5. used \in Used
  BY DEF NettingInit, Used
<1>6. Memory
  BY <1>2, <1>3, <1>4, <1>5 DEF Memory, RunOK
<1>7. Books
  <2>1. wallet \in [Buyers -> Nat] /\ escrow \in [Buyers -> Nat] /\ prefund \in Prefunds
    BY NettingAssumption DEF NettingInit
  <2>2. shop \in Nat /\ clearing \in Int /\ owned \subseteq Orders /\ refused \subseteq Orders
    <3>1. shop = 0 /\ clearing = 0 /\ owned = {} /\ refused = {}
      BY DEF NettingInit
    <3> QED BY <3>1
  <2>3. registry \in [Buyers -> Int]
    <3>1. registry = [b \in Buyers |-> 0]
      BY DEF NettingInit
    <3> QED BY <3>1
  <2>5. claimed \in BOOLEAN
    BY Zenon DEF NettingInit
  <2>4. journal \in Seq(Row)
    <3>1. << >> \in Seq(Row)
      BY EmptySeq
    <3> QED BY <3>1 DEF NettingInit
  <2> QED BY <2>1, <2>2, <2>3, <2>4, <2>5 DEF Books
<1>8. Journaled
  BY <1>1, <1>3 DEF Journaled
<1>9. Serial
  BY <1>4 DEF Serial, Procs
<1>10. \A b \in Buyers : Left(b) = 0
  <2> TAKE b \in Buyers
  <2>1. Buys(<< >>, b) = {}
    BY <1>1 DEF Buys
  <2>2. AcceptedOf(b) = 0
    BY <1>3, <2>1, FS_EmptySet DEF AcceptedOf, Spent
  <2>3. registry[b] = 0 /\ Held(b) = 0
    BY <1>3 DEF Held
  <2> QED BY <2>2, <2>3 DEF Left
<1>11. GrantsOK
  BY <1>3, <1>4, <1>10 DEF GrantsOK, Procs
<1> QED BY <1>6, <1>7, <1>8, <1>9, <1>11 DEF SessionInv, NettingTyped

LEMMA SessionNext == SessionInv /\ [NettingNext]_nettingVars => SessionInv'
<1> SUFFICES ASSUME SessionInv, [NettingNext]_nettingVars PROVE SessionInv'
  OBVIOUS
<1>0. NettingTyped /\ Journaled /\ Serial /\ GrantsOK
  BY DEF SessionInv
<1>1. CASE \E o \in Orders : Purchase(o)
  BY <1>0, <1>1, PurchaseTyped, PurchaseGrants DEF SessionInv
<1>2. CASE Record
  BY <1>0, <1>2, RecordTyped, RecordGrants DEF SessionInv
<1>3. CASE ReleaseHolds
  BY <1>0, <1>3, BackstopTyped, HoldsGrants DEF SessionInv
<1>4. CASE \E p \in Procs : SettleStep(p)
  BY <1>4, SettleStepKeeps
<1>5. CASE UNCHANGED nettingVars
  BY <1>0, <1>5 DEF nettingVars, ledger, SessionInv, NettingTyped, Memory, Books, Journaled, Serial, GrantsOK,
     Left, Held, AcceptedOf, Reserved
<1> QED BY <1>1, <1>2, <1>3, <1>4, <1>5, LaneKeeps, OwnerKeeps, RecoveryKeeps DEF NettingNext

LEMMA SessionAlways == NettingSpec => []SessionInv
BY SessionInit, SessionNext, PTL DEF NettingSpec

(* Wallets and escrows never go below zero and every record keeps its shape,      *)
(* whatever crashes, fails or recovers: NettingTypeOK of the fast lane's session. *)
THEOREM SessionTypeCorrect == NettingSpec => []NettingTypeOK
<1>1. SessionInv => NettingTypeOK
  <2> SUFFICES ASSUME SessionInv PROVE NettingTypeOK
    OBVIOUS
  <2>1. NettingTyped
    BY DEF SessionInv
  <2>2. Movements(journal) \subseteq Orders
    <3>1. journal \in Seq(Row)
      BY <2>1, ShapesAre
    <3>2. \A k \in DOMAIN journal : journal[k] \in Row
      BY <3>1
    <3> QED BY <3>2 DEF Movements, Row
  <2>3. lane.outcome \in [Orders -> Outcomes]
    BY <2>1, ShapesAre DEF Lane
  <2> QED BY <2>1, <2>2, <2>3 DEF NettingTypeOK, NettingTyped, Books
<1> QED BY <1>1, SessionAlways, PTL

(* The shared reservation counter is never above zero, and until the durable      *)
(* claim it holds every movement the lane has accepted: no buyer is granted more  *)
(* than was reserved, however often the settle is retried or handed over.         *)
THEOREM ReservationsHold == NettingSpec => []NeverOverGrants
<1>1. SessionInv => NeverOverGrants
  <2> SUFFICES ASSUME SessionInv, NEW b \in Buyers
               PROVE  registry[b] <= 0 /\ (~claimed => -registry[b] >= AcceptedOf(b))
    BY DEF NeverOverGrants
  <2>1. AcceptedOf(b) \in Nat /\ Held(b) \in Nat /\ registry[b] \in Int /\ claimed \in BOOLEAN
    BY CountsAre DEF SessionInv, NettingTyped, Books
  <2>2. Left(b) = registry[b] + AcceptedOf(b) + Held(b)
    BY DEF Left
  <2>3. (~claimed => Left(b) = 0) /\ (claimed => Left(b) <= AcceptedOf(b))
    BY DEF SessionInv, GrantsOK
  <2> QED BY <2>1, <2>2, <2>3
<1> QED BY <1>1, SessionAlways, PTL

(***************************************************************************)
(* The net is on the ledger or its movements are, never both.              *)
(***************************************************************************)

LEMMA Quotients ==
  ASSUME NEW w \in Nat \ {0}, NEW m \in Nat, NEW n \in Nat, m <= n
  PROVE  /\ m \div w \in Nat /\ m \div w <= n \div w
         /\ (w <= m => 1 <= m \div w)
<1>1. m \div w \in Int /\ n \div w \in Int
  OBVIOUS
<1>2. m = w * (m \div w) + (m % w) /\ m % w \in 0..w - 1
  OBVIOUS
<1>3. n = w * (n \div w) + (n % w) /\ n % w \in 0..w - 1
  OBVIOUS
<1> DEFINE a == m \div w
           b == n \div w
           r == m % w
           u == n % w
<1>4. a \in Int /\ b \in Int /\ r \in Int /\ u \in Int /\ 0 <= r /\ r < w /\ 0 <= u /\ u < w
      /\ m = w * a + r /\ n = w * b + u
  BY <1>1, <1>2, <1>3
<1> HIDE DEF a, b, r, u
<1>5. w * (a + 1) > m /\ w * (b + 1) > n /\ w * a <= m /\ w * b <= n
  BY <1>4
<1>6. a >= 0
  <2> SUFFICES ASSUME a < 0 PROVE FALSE
    BY <1>4
  <2>1. a + 1 <= 0
    BY <1>4
  <2>2. w * (a + 1) <= 0
    BY <1>4, <2>1
  <2> QED BY <1>4, <1>5, <2>2
<1>7. a <= b
  <2> SUFFICES ASSUME b < a PROVE FALSE
    BY <1>4
  <2>1. b + 1 <= a
    BY <1>4
  <2>2. w * (b + 1) <= w * a
    BY <1>4, <2>1
  <2> QED BY <1>4, <1>5, <2>2
<1>8. w <= m => 1 <= a
  BY <1>4, <1>5, <1>6
<1> QED BY <1>4, <1>6, <1>7, <1>8 DEF a, b

(* A journal that grows never settles in fewer chunks. *)
LEMMA ChunksGrow ==
  ASSUME NEW s \in Seq(Row), NEW t \in Seq(Row)
  PROVE  /\ ChunkCount(s) \in Nat /\ ChunkCount(s) <= ChunkCount(s \o t)
         /\ ChunkCount(s \o t) \in Nat
         /\ (s # << >> => ChunkCount(s) >= 1)
<1> DEFINE S == Positions(s)
           T == Positions(s \o t)
           m == Cardinality(S)
           n == Cardinality(T)
<1>1. \A j \in Seq(Row) : Movements(j) \subseteq Orders /\ Positions(j) \subseteq {"shop"} \cup Buyers
  <2> TAKE j \in Seq(Row)
  <2>1. \A k \in DOMAIN j : j[k] \in Row
    OBVIOUS
  <2>2. Movements(j) \subseteq Orders
    BY <2>1 DEF Movements, Row
  <2> QED BY <2>2, NettingAssumption DEF Positions
<1>2. IsFiniteSet({"shop"} \cup Buyers)
  BY NettingAssumption, FS_AddElement
<1>3. s \o t \in Seq(Row) /\ DOMAIN s \subseteq DOMAIN (s \o t) /\ (\A k \in DOMAIN s : (s \o t)[k] = s[k])
      /\ (s \o t = << >> => s = << >>)
  <2>1. /\ s \o t \in Seq(Row) /\ Len(s \o t) = Len(s) + Len(t)
        /\ \A k \in 1..Len(s) + Len(t) : (s \o t)[k] = IF k <= Len(s) THEN s[k] ELSE t[k - Len(s)]
    BY ConcatProperties
  <2>2. Len(s) \in Nat /\ Len(t) \in Nat /\ DOMAIN s = 1..Len(s) /\ DOMAIN (s \o t) = 1..Len(s) + Len(t)
    BY <2>1, LenProperties
  <2>3. s \o t = << >> => s = << >>
    BY <2>1, <2>2, EmptySeq
  <2> QED BY <2>1, <2>2, <2>3
<1>4. S \subseteq T
  <2>1. Movements(s) \subseteq Movements(s \o t)
    BY <1>3 DEF Movements
  <2> QED BY <1>3, <2>1 DEF Positions
<1>5. IsFiniteSet(S) /\ IsFiniteSet(T) /\ m \in Nat /\ n \in Nat /\ m <= n
  <2>1. S \subseteq {"shop"} \cup Buyers /\ T \subseteq {"shop"} \cup Buyers
    BY <1>1, <1>3
  <2> HIDE DEF S, T
  <2> QED BY <1>2, <1>4, <2>1, FS_Subset, FS_CardinalityType
<1>6. s # << >> => m >= 1
  <2>1. s # << >> => S # {}
    BY DEF Positions
  <2> HIDE DEF S
  <2>2. S # {} => m # 0
    BY <1>5, FS_EmptySet
  <2> QED BY <1>5, <2>1, <2>2
<1> HIDE DEF S, T, m, n
<1>7. ChunkWidth \in Nat \ {0} /\ m + ChunkWidth - 1 \in Nat /\ n + ChunkWidth - 1 \in Nat
      /\ m + ChunkWidth - 1 <= n + ChunkWidth - 1 /\ (m >= 1 => ChunkWidth <= m + ChunkWidth - 1)
  BY <1>5, NettingAssumption
<1>8. /\ (m + ChunkWidth - 1) \div ChunkWidth \in Nat
      /\ (n + ChunkWidth - 1) \div ChunkWidth \in Nat
      /\ (m + ChunkWidth - 1) \div ChunkWidth <= (n + ChunkWidth - 1) \div ChunkWidth
      /\ (m >= 1 => 1 <= (m + ChunkWidth - 1) \div ChunkWidth)
  BY <1>7, Quotients
<1> QED BY <1>6, <1>8 DEF ChunkCount, S, T, m, n

OnLedger(kind, i) == <<kind, i>> \in txns

(* No posted chunk stands.                                                        *)
NoneStands == \A i \in Int : OnLedger("net", i) => OnLedger("comp", i)

(* Of at most two chunks the first is posted first and the last undone first, and *)
(* a movement is replayed only when no chunk stands.                              *)
ChunksOK ==
  /\ \A i \in Int : OnLedger("net", i) => i = 0 \/ (i = 1 /\ OnLedger("net", 0))
  /\ \A i \in Int : OnLedger("comp", i) => i = 0 /\ OnLedger("net", 0) /\ ~OnLedger("net", 1)
  /\ \A k \in Int : OnLedger("mv", k) => k \in DOMAIN journal /\ NoneStands

PhaseOK(p) ==
  /\ run[p].pc = "chunk" =>
       /\ run[p].i = 0 \/ (run[p].i = 1 /\ ChunkCount(journal) > 1 /\ OnLedger("net", 0))
       /\ \A i \in Int : ~OnLedger("comp", i) /\ ~OnLedger("mv", i)
  /\ run[p].pc = "comp" =>
       /\ run[p].i \in {-1, 0} /\ \A k \in Int : ~OnLedger("mv", k)
       /\ run[p].i = 0 => OnLedger("net", 0) /\ ~OnLedger("net", 1)
       /\ run[p].i = -1 => NoneStands
  /\ run[p].pc = "mv" => NoneStands

(* The owner and a recovery take turns.                                           *)
Turns ==
  /\ run["lane"].pc # "idle" => lane.up /\ ~lane.closed
  /\ run["rec"].pc # "idle" => ~lane.up \/ lane.closed
  /\ run["lane"].pc \in {"revoke", "holds", "refund", "post", "emit"} => lane.reported

(* An owner that has not settled yet has posted nothing of its settlement.        *)
Waiting == lane.up /\ ~lane.closed /\ ~lane.reported /\ run["lane"].pc = "idle"
Untouched == \A i \in Int : ~OnLedger("net", i) /\ ~OnLedger("comp", i) /\ ~OnLedger("mv", i)

Settled == ChunksOK /\ (\A p \in Procs : PhaseOK(p)) /\ (Waiting => Untouched)
Excused == SettleRetried \/ ChunkCount(journal) > 2

(* A step that does no part of the settlement's postings. *)
SettlementKept ==
  /\ \A i \in Int : /\ <<"net", i>> \in txns' <=> <<"net", i>> \in txns
                    /\ <<"comp", i>> \in txns' <=> <<"comp", i>> \in txns
                    /\ <<"mv", i>> \in txns' <=> <<"mv", i>> \in txns
  /\ \A p \in Procs : run'[p].pc \in {"chunk", "comp", "mv"} =>
       run'[p].pc = run[p].pc /\ run'[p].i = run[p].i

LEMMA JournalGrows ==
  ASSUME NettingTyped, NEW t \in Seq(Row), journal' = journal \o t
  PROVE  /\ ChunkCount(journal) \in Nat /\ ChunkCount(journal') \in Nat
         /\ ChunkCount(journal) <= ChunkCount(journal')
         /\ DOMAIN journal \subseteq DOMAIN journal'
<1>1. journal \in Seq(Row)
  BY ShapesAre
<1>2. DOMAIN journal \subseteq DOMAIN (journal \o t)
  <2>1. journal \o t \in Seq(Row) /\ Len(journal \o t) = Len(journal) + Len(t)
    BY <1>1, ConcatProperties
  <2> QED BY <1>1, <2>1, LenProperties
<1> QED BY <1>1, <1>2, ChunksGrow

LEMMA ExcuseStays ==
  ASSUME NettingTyped, used.failed \subseteq used'.failed, NEW t \in Seq(Row), journal' = journal \o t
  PROVE  Excused => Excused'
<1>1. SettleRetried => SettleRetried'
  BY DEF SettleRetried, Failed
<1>2. ChunkCount(journal) > 2 => ChunkCount(journal') > 2
  BY JournalGrows
<1> QED BY <1>1, <1>2 DEF Excused

LEMMA KeptSettled ==
  ASSUME NettingTyped, Settled, SettlementKept, NEW t \in Seq(Row), journal' = journal \o t,
         Waiting' => Waiting
  PROVE  Settled'
<1>1. \A i \in Int : /\ OnLedger("net", i)' <=> OnLedger("net", i)
                     /\ OnLedger("comp", i)' <=> OnLedger("comp", i)
                     /\ OnLedger("mv", i)' <=> OnLedger("mv", i)
  BY DEF SettlementKept, OnLedger
<1>2. NoneStands' <=> NoneStands
  BY <1>1 DEF NoneStands
<1>3. ChunksOK'
  BY <1>1, <1>2, JournalGrows DEF ChunksOK, Settled
<1>4. ASSUME NEW p \in Procs PROVE PhaseOK(p)'
  <2>1. PhaseOK(p)
    BY DEF Settled
  <2>2. run'[p].pc \in {"chunk", "comp", "mv"} => run'[p].pc = run[p].pc /\ run'[p].i = run[p].i
    BY DEF SettlementKept
  <2>3. ChunkCount(journal) > 1 => ChunkCount(journal') > 1
    BY JournalGrows
  <2>4. /\ OnLedger("net", 0)' <=> OnLedger("net", 0)
        /\ OnLedger("net", 1)' <=> OnLedger("net", 1)
    BY <1>1
  <2> QED BY <1>1, <1>2, <2>1, <2>2, <2>3, <2>4 DEF PhaseOK
<1>5. Waiting' => Untouched'
  BY <1>1 DEF Settled, Untouched
<1> QED BY <1>3, <1>4, <1>5 DEF Settled

Flags(l) == <<l.up, l.closed, l.reported>>

LEMMA LaneFlags ==
  ASSUME NettingTyped,
         \/ \E o \in Orders : Enqueue(o) \/ PurchaseRefused(o) \/ Purchase(o)
         \/ GrantItem \/ RecordThrows \/ Record \/ UndoGrant \/ RecordFlush \/ RecordFlushFails \/ Accept
         \/ LaneSettleFails
  PROVE  run' = run /\ Flags(lane') = Flags(lane)
<1>0. lane \in Lane
  BY ShapesAre
<1>1. CASE \E o \in Orders : Enqueue(o) \/ PurchaseRefused(o) \/ Purchase(o)
  <2>1. PICK o \in Orders : Enqueue(o) \/ PurchaseRefused(o) \/ Purchase(o)
    BY <1>1
  <2>2. CASE Enqueue(o)
    BY <1>0, <2>2 DEF Flags, Enqueue, Lane
  <2>3. CASE PurchaseRefused(o)
    <3>1. "rejected" \in Outcomes
      BY DEF Outcomes
    <3>2. /\ Answer(o, "rejected").up = lane.up /\ Answer(o, "rejected").closed = lane.closed
          /\ Answer(o, "rejected").reported = lane.reported
      BY <1>0, <3>1, AnswerIs
    <3> QED BY <2>3, <3>2 DEF Flags, PurchaseRefused
  <2>4. CASE Purchase(o)
    BY <1>0, <2>4 DEF Flags, Purchase, Lane
  <2> QED BY <2>1, <2>2, <2>3, <2>4
<1>2. CASE GrantItem \/ Record
  BY <1>0, <1>2 DEF Flags, GrantItem, Record, Lane
<1>3. CASE RecordThrows \/ UndoGrant \/ RecordFlushFails \/ Accept
  <2>1. lane.order \in Orders
    BY <1>3 DEF NettingTyped, Memory, RecordThrows, UndoGrant, RecordFlushFails, Accept
  <2>2. \A x \in Outcomes : /\ Answer(lane.order, x) \in Lane
                            /\ Answer(lane.order, x).up = lane.up
                            /\ Answer(lane.order, x).closed = lane.closed
                            /\ Answer(lane.order, x).reported = lane.reported
    BY <1>0, <2>1, AnswerIs
  <2>3. "rejected" \in Outcomes /\ "threw" \in Outcomes /\ "accepted" \in Outcomes
    BY DEF Outcomes
  <2>4. CASE RecordThrows
    BY <2>2, <2>3, <2>4 DEF Flags, RecordThrows
  <2>5. CASE UndoGrant
    BY <2>2, <2>3, <2>5 DEF Flags, UndoGrant
  <2>6. CASE RecordFlushFails
    <3> DEFINE a == Answer(lane.order, "threw")
    <3>1. a \in Lane /\ lane' = [a EXCEPT !.pending = 0]
      BY <2>2, <2>3, <2>6 DEF RecordFlushFails
    <3>2. lane'.up = a.up /\ lane'.closed = a.closed /\ lane'.reported = a.reported
      <4> HIDE DEF a
      <4> QED BY <3>1 DEF Lane
    <3> QED BY <2>2, <2>3, <2>6, <3>2 DEF Flags, RecordFlushFails
  <2>7. CASE Accept
    <3> DEFINE a == Answer(lane.order, "accepted")
    <3>1. a \in Lane /\ lane' = [a EXCEPT !.granted = @ \cup {lane.order}]
      BY <2>2, <2>3, <2>7 DEF Accept
    <3>2. lane'.up = a.up /\ lane'.closed = a.closed /\ lane'.reported = a.reported
      <4> HIDE DEF a
      <4> QED BY <3>1 DEF Lane
    <3> QED BY <2>2, <2>3, <2>7, <3>2 DEF Flags, Accept
  <2> QED BY <1>3, <2>4, <2>5, <2>6, <2>7
<1>4. CASE RecordFlush
  BY <1>0, <1>4 DEF Flags, RecordFlush, Lane
<1>5. CASE LaneSettleFails
  BY <1>0, <1>5 DEF Flags, LaneSettleFails, Lane
<1> QED BY <1>1, <1>2, <1>3, <1>4, <1>5

(* A posting of another kind is none of the settlement's. *)
LEMMA OtherPostings ==
  ASSUME NEW x, \A i \in Int : x # <<"net", i>> /\ x # <<"comp", i>> /\ x # <<"mv", i>>,
         txns' = txns \cup {x}
  PROVE  \A i \in Int : /\ <<"net", i>> \in txns' <=> <<"net", i>> \in txns
                        /\ <<"comp", i>> \in txns' <=> <<"comp", i>> \in txns
                        /\ <<"mv", i>> \in txns' <=> <<"mv", i>> \in txns
OBVIOUS

LEMMA FailedGrows ==
  ASSUME used \in Used, NEW step \in Steps, used' = used \/ Fault(step)
  PROVE  used.failed \subseteq used'.failed /\ (Fault(step) => step \in used'.failed)
BY DEF Used, Fault

(* What every lane action shows: it posts nothing of the settlement.              *)
LEMMA LaneSettled ==
  ASSUME SessionInv, Turns, Excused \/ Settled,
         \/ \E o \in Orders : Enqueue(o) \/ PurchaseRefused(o) \/ Purchase(o)
         \/ GrantItem \/ RecordThrows \/ Record \/ UndoGrant \/ RecordFlush \/ RecordFlushFails \/ Accept
         \/ LaneSettleFails
  PROVE  Turns' /\ (Excused' \/ Settled')
<1>0. NettingTyped /\ Journaled /\ journal \in Seq(Row) /\ used \in Used
  BY ShapesAre DEF SessionInv, NettingTyped, Memory
<1>1. run' = run /\ lane'.up = lane.up /\ lane'.closed = lane.closed /\ lane'.reported = lane.reported
  <2>1. run' = run /\ Flags(lane') = Flags(lane)
    BY <1>0, LaneFlags
  <2> QED BY <2>1 DEF Flags
<1>2. Turns'
  BY <1>1 DEF Turns
<1>3. \E t \in Seq(Row) : journal' = journal \o t
  <2>1. CASE Record \/ \E o \in Orders : Purchase(o)
    <3>1. journal' = journal
      BY <2>1 DEF Record, Purchase
    <3>2. journal = journal \o << >> /\ << >> \in Seq(Row)
      BY <1>0, ConcatEmptySeq, EmptySeq
    <3> QED BY <3>1, <3>2
  <2>2. CASE ~(Record \/ \E o \in Orders : Purchase(o))
    <3>1. Quiet
      BY <1>0, <2>2, LaneQuiet
    <3> QED BY <1>0, <3>1, JournaledKept
  <2> QED BY <2>1, <2>2
<1>4. PICK t \in Seq(Row) : journal' = journal \o t
  BY <1>3
<1>5. used.failed \subseteq used'.failed
  <2>1. used' = used \/ Fault("flush")
    BY DEF Enqueue, PurchaseRefused, Purchase, GrantItem, RecordThrows, Record, UndoGrant, RecordFlush,
       RecordFlushFails, Accept, LaneSettleFails
  <2>2. "flush" \in Steps
    BY DEF Steps
  <2> QED BY <1>0, <2>1, <2>2, FailedGrows
<1>6. SettlementKept
  <2>1. CASE \E o \in Orders : Purchase(o)
    <3>1. PICK b : txns' = txns \cup {<<"fund", b>>} \/ txns' = txns
      BY <2>1 DEF Purchase
    <3>2. \A i \in Int : <<"fund", b>> # <<"net", i>> /\ <<"fund", b>> # <<"comp", i>> /\ <<"fund", b>> # <<"mv", i>>
      OBVIOUS
    <3>3. \A i \in Int : /\ <<"net", i>> \in txns' <=> <<"net", i>> \in txns
                         /\ <<"comp", i>> \in txns' <=> <<"comp", i>> \in txns
                         /\ <<"mv", i>> \in txns' <=> <<"mv", i>> \in txns
      BY <3>1, <3>2
    <3> QED BY <1>1, <3>3 DEF SettlementKept
  <2>2. CASE ~(\E o \in Orders : Purchase(o))
    <3>1. txns' = txns
      BY <2>2 DEF Enqueue, PurchaseRefused, GrantItem, RecordThrows, Record, UndoGrant, RecordFlush,
         RecordFlushFails, Accept, LaneSettleFails, ledger
    <3> QED BY <1>1, <3>1 DEF SettlementKept
  <2> QED BY <2>1, <2>2
<1>7. Waiting' => Waiting
  BY <1>1 DEF Waiting
<1>8. Settled => Settled'
  BY <1>0, <1>4, <1>6, <1>7, KeptSettled
<1>9. Excused => Excused'
  BY <1>0, <1>4, <1>5, ExcuseStays
<1> QED BY <1>2, <1>8, <1>9

LEMMA RunUpdated ==
  ASSUME NettingTyped, NEW p \in Procs, NEW r, run' = [run EXCEPT ![p] = r]
  PROVE  run'[p] = r /\ \A q \in Procs : q = p \/ run'[q] = run[q]
BY ShapesAre

LEMMA JournalSame ==
  ASSUME NettingTyped, journal' = journal
  PROVE  << >> \in Seq(Row) /\ journal' = journal \o << >>
<1>1. journal \in Seq(Row)
  BY ShapesAre
<1> QED BY <1>1, ConcatEmptySeq, EmptySeq

(* What the steps of settle that post nothing show.                               *)
LEMMA SameSettled ==
  ASSUME SessionInv, Excused \/ Settled, journal' = journal, SettlementKept,
         used.failed \subseteq used'.failed,
         Waiting' => Waiting \/ SettleRetried'
  PROVE  Excused' \/ Settled'
<1>0. NettingTyped
  BY DEF SessionInv
<1>1. << >> \in Seq(Row) /\ journal' = journal \o << >>
  BY <1>0, JournalSame
<1>2. Excused => Excused'
  BY <1>0, <1>1, ExcuseStays
<1>3. (Settled /\ (Waiting' => Waiting)) => Settled'
  BY <1>0, <1>1, KeptSettled
<1>4. SettleRetried' => Excused'
  BY DEF Excused
<1> QED BY <1>2, <1>3, <1>4

LEMMA SameLedger ==
  ASSUME txns' = txns,
         \A p \in Procs : run'[p].pc \in {"chunk", "comp", "mv"} =>
            run'[p].pc = run[p].pc /\ run'[p].i = run[p].i
  PROVE  SettlementKept
BY DEF SettlementKept

LEMMA BackstopSettled ==
  ASSUME SessionInv, Turns, Excused \/ Settled,
         RevokeRefused \/ ReleaseHolds \/ EmitSettled \/ CloseLane
  PROVE  Turns' /\ (Excused' \/ Settled')
<1>0. NettingTyped /\ lane \in Lane /\ run \in [Procs -> Run] /\ run["lane"] \in Run /\ "lane" \in Procs
  BY ShapesAre DEF SessionInv, Procs
<1>1. run["lane"].pc \in {"revoke", "holds", "refund", "emit"}
      /\ UNCHANGED <<journal, txns, used>>
  BY DEF RevokeRefused, ReleaseHolds, EmitSettled, CloseLane, ledger
<1>2. lane.reported /\ lane.up /\ ~lane.closed
  BY <1>1 DEF Turns
<1>3. /\ lane'.up = lane.up /\ lane'.reported = lane.reported
      /\ (lane'.closed = lane.closed \/ (lane'.closed /\ CloseLane))
  BY <1>0 DEF RevokeRefused, ReleaseHolds, EmitSettled, CloseLane, Lane
<1>4. \E r : /\ run' = [run EXCEPT !["lane"] = r]
             /\ \/ r.pc \in {"revoke", "holds", "refund", "emit"} /\ lane'.closed = lane.closed
                \/ r.pc = "idle" /\ lane'.closed
  <2> DEFINE less(o) == [run["lane"] EXCEPT !.owes = @ \ {o}]
             on(c) == [run["lane"] EXCEPT !.pc = c]
             owing == [run["lane"] EXCEPT !.pc = "refund", !.owes = lane.funded]
  <2>1. (\A o : less(o).pc = run["lane"].pc) /\ (\A c : on(c).pc = c) /\ owing.pc = "refund"
    BY <1>0 DEF Run
  <2>2. CASE RevokeRefused
    <3>1. (\E o : run' = [run EXCEPT !["lane"] = less(o)]) \/ run' = [run EXCEPT !["lane"] = on("holds")]
      BY <1>0, <2>2 DEF RevokeRefused
    <3>2. run["lane"].pc = "revoke" /\ lane'.closed = lane.closed
      BY <1>0, <2>2 DEF RevokeRefused, Lane
    <3> HIDE DEF less, on, owing
    <3> QED BY <2>1, <3>1, <3>2
  <2>3. CASE ReleaseHolds
    <3>1. run' = [run EXCEPT !["lane"] = run["lane"]] \/ run' = [run EXCEPT !["lane"] = owing]
      BY <1>0, <2>3 DEF ReleaseHolds
    <3>2. run["lane"].pc = "holds" /\ lane'.closed = lane.closed
      BY <1>0, <2>3 DEF ReleaseHolds, Lane
    <3> HIDE DEF less, on, owing
    <3> QED BY <2>1, <3>1, <3>2
  <2>4. CASE EmitSettled
    <3>1. run' = [run EXCEPT !["lane"] = on("emit")]
      BY <1>0, <2>4 DEF EmitSettled
    <3>2. run["lane"].pc = "refund" /\ lane'.closed = lane.closed
      BY <1>0, <2>4 DEF EmitSettled, Lane
    <3> HIDE DEF less, on, owing
    <3> QED BY <2>1, <3>1, <3>2
  <2>5. CASE CloseLane
    <3>1. run' = [run EXCEPT !["lane"] = on("idle")] /\ lane'.closed
      BY <1>0, <2>5 DEF CloseLane, Lane
    <3> HIDE DEF less, on, owing
    <3> QED BY <2>1, <3>1
  <2> QED BY <2>2, <2>3, <2>4, <2>5
<1>5. PICK r : /\ run' = [run EXCEPT !["lane"] = r]
               /\ \/ r.pc \in {"revoke", "holds", "refund", "emit"} /\ lane'.closed = lane.closed
                  \/ r.pc = "idle" /\ lane'.closed
  BY <1>4
<1>6. run'["lane"] = r /\ \A q \in Procs : q = "lane" \/ run'[q] = run[q]
  BY <1>0, <1>5, RunUpdated
<1>7. run["rec"].pc = "idle" /\ run'["rec"] = run["rec"]
  BY <1>2, <1>6 DEF Turns, Procs
<1>8. Turns'
  BY <1>2, <1>3, <1>5, <1>6, <1>7 DEF Turns
<1>9. SettlementKept
  BY <1>1, <1>5, <1>6, SameLedger
<1>10. ~Waiting'
  BY <1>2, <1>3 DEF Waiting
<1>11. used.failed \subseteq used'.failed
  BY <1>1
<1> QED BY <1>1, <1>8, <1>9, <1>10, <1>11, SameSettled

(* The owner's settle starts on an untouched ledger.                              *)
LEMMA LaneSettleSettled ==
  ASSUME SessionInv, Turns, Excused \/ Settled, LaneSettle
  PROVE  Turns' /\ (Excused' \/ Settled')
<1>0. /\ NettingTyped /\ Journaled /\ lane \in Lane /\ run \in [Procs -> Run] /\ run["lane"] \in Run
      /\ "lane" \in Procs /\ "rec" \in Procs /\ journal \in Seq(Row)
  BY ShapesAre DEF SessionInv, Procs
<1>1. /\ lane.up /\ ~lane.closed /\ run["lane"].pc = "idle" /\ UNCHANGED <<txns, used>>
      /\ run["rec"].pc = "idle"
  BY DEF LaneSettle, LaneFree, ledger, Turns
<1> DEFINE j == journal \o Batch
           revoke == [run["lane"] EXCEPT !.pc = "revoke", !.owes = refused \cap lane.granted]
           on == [run["lane"] EXCEPT !.pc = "revoke"]
           go == Started(run["lane"])
           x == j = << >>
<1>2. IF lane.reported
      THEN run' = [run EXCEPT !["lane"] = revoke] /\ journal' = journal /\ lane' = lane
      ELSE /\ journal' = j
           /\ lane' = [lane EXCEPT !.pending = 0, !.reported = x]
           /\ run' = IF x THEN [run EXCEPT !["lane"] = on]
                      ELSE [run EXCEPT !["lane"] = go]
  BY <1>0 DEF LaneSettle
<1>3. revoke.pc = "revoke" /\ on.pc = "revoke" /\ ((go.pc = "chunk" /\ go.i = 0) \/ go.pc = "mv")
  BY <1>0 DEF Run, Started
<1>4. \E t \in Seq(Row) : journal' = journal \o t
  <2>1. Quiet
    BY <1>0, OwnerQuiet
  <2> QED BY <1>0, <2>1, JournaledKept
<1>5. /\ lane'.up = lane.up /\ lane'.closed = lane.closed
      /\ lane'.reported = (lane.reported \/ x)
  <2>1. (lane' = lane /\ lane.reported) \/ (lane' = [lane EXCEPT !.pending = 0, !.reported = x] /\ ~lane.reported)
    <3> HIDE DEF revoke, on, go, j, x
    <3> QED BY <1>2
  <2>2. x \in BOOLEAN /\ lane.reported \in BOOLEAN
    BY <1>0 DEF Lane
  <2> HIDE DEF x
  <2> QED BY <1>0, <2>1, <2>2 DEF Lane
<1>6. PICK r \in {revoke, on, go} :
         /\ run' = [run EXCEPT !["lane"] = r]
         /\ lane'.reported \/ (r = go /\ ~lane.reported)
         /\ r # go => lane'.reported
  <2> HIDE DEF revoke, on, go, j, x
  <2> QED BY <1>2, <1>5
<1>7. run'["lane"] = r /\ \A q \in Procs : q = "lane" \/ run'[q] = run[q]
  BY <1>0, <1>6, RunUpdated
<1>8. run'["lane"].pc \in {"revoke", "chunk", "mv"} /\ run'["rec"].pc = "idle"
      /\ (run'["lane"].pc = "chunk" => run'["lane"].i = 0)
      /\ (run'["lane"].pc = "revoke" => lane'.reported)
      /\ (run'["lane"].pc # "revoke" => ~lane.reported)
  <2>1. lane.reported => r = revoke
    <3>1. lane.reported => run' = [run EXCEPT !["lane"] = revoke]
      BY <1>2
    <3> HIDE DEF revoke, on, go, j, x
    <3> QED BY <1>0, <1>7, <3>1
  <2> HIDE DEF revoke, on, go, j
  <2> QED BY <1>1, <1>3, <1>6, <1>7, <2>1
<1>9. Turns'
  BY <1>1, <1>5, <1>8 DEF Turns
<1>10. PICK t \in Seq(Row) : journal' = journal \o t
  BY <1>4
<1>11. Excused => Excused'
  BY <1>0, <1>1, <1>10, ExcuseStays
<1>12. ASSUME Settled PROVE Settled'
  <2>1. \A kind, i : OnLedger(kind, i)' <=> OnLedger(kind, i)
    BY <1>1 DEF OnLedger
  <2>2. NoneStands' <=> NoneStands
    BY <2>1 DEF NoneStands
  <2>3. ChunksOK'
    BY <1>0, <1>10, <1>12, <2>1, <2>2, JournalGrows DEF ChunksOK, Settled
  <2>4. ~lane.reported => Untouched
    BY <1>1, <1>12 DEF Settled, Waiting
  <2>5. PhaseOK("lane")'
    <3>1. CASE run'["lane"].pc = "revoke"
      BY <3>1 DEF PhaseOK
    <3>2. CASE run'["lane"].pc # "revoke"
      <4>1. Untouched /\ NoneStands
        BY <1>8, <2>4, <3>2 DEF Untouched, NoneStands
      <4> QED BY <1>8, <2>1, <2>2, <3>2, <4>1 DEF PhaseOK, Untouched
    <3> QED BY <3>1, <3>2
  <2>6. PhaseOK("rec")'
    BY <1>8 DEF PhaseOK
  <2>7. ~Waiting'
    BY <1>8 DEF Waiting
  <2> QED BY <2>3, <2>5, <2>6, <2>7 DEF Settled, Procs
<1> QED BY <1>9, <1>11, <1>12

LEMMA RecoveredIs ==
  ASSUME NettingTyped, NEW kind \in {"sweep", "failover", "retention"}
  PROVE  /\ Started(Recovered(kind)).pc = (IF FailedOver THEN "mv" ELSE "chunk")
         /\ ~FailedOver => Started(Recovered(kind)).i = 0
         /\ Refunding(kind).pc = "refund"
<1>1. Recovered(kind) \in Run
  BY FlagsAre
<1>2. Recovered(kind).forced <=> FailedOver
  <2>1. FreshRun \in Run
    BY FreshTyped DEF RunOK
  <2> DEFINE x == WasSettled
             y == FailedOver
  <2>2. Recovered(kind) = [FreshRun EXCEPT !.kind = kind, !.settled = x, !.forced = y]
    BY DEF Recovered
  <2> HIDE DEF x, y
  <2>3. Recovered(kind).forced = y
    BY <2>1, <2>2 DEF Run
  <2> QED BY <2>3 DEF y
<1>3. \A r \in Run : /\ r.forced => Started(r).pc = "mv"
                     /\ ~r.forced => Started(r).pc = "chunk" /\ Started(r).i = 0
                     /\ \A owes : [r EXCEPT !.pc = "refund", !.owes = owes].pc = "refund"
  BY DEF Run, Started
<1> QED BY <1>1, <1>2, <1>3 DEF Refunding

(* What a recovery finds on the ledger tells it how to go on.                     *)
LEMMA ProbesTell ==
  ASSUME NettingTyped, Settled, ChunkCount(journal) <= 2, journal # << >>
  PROVE  /\ FailedOver => NoneStands
         /\ ~FailedOver => \A i \in Int : ~OnLedger("comp", i) /\ ~OnLedger("mv", i)
<1>1. journal \in Seq(Row) /\ << >> \in Seq(Row)
  BY ShapesAre, EmptySeq
<1>2. ChunkCount(journal) \in Nat /\ ChunkCount(journal) >= 1
  BY <1>1, ChunksGrow
<1>3. ASSUME FailedOver PROVE NoneStands
  <2>1. CASE \E i \in 0..ChunkCount(journal) - 1 : <<"comp", i>> \in txns
    <3>1. PICK i \in 0..ChunkCount(journal) - 1 : OnLedger("comp", i)
      BY <2>1 DEF OnLedger
    <3>2. i = 0 /\ ~OnLedger("net", 1)
      BY <1>2, <3>1 DEF Settled, ChunksOK
    <3> QED BY <3>1, <3>2 DEF Settled, ChunksOK, NoneStands
  <2>2. CASE \E k \in DOMAIN journal : <<"mv", k>> \in txns
    <3>1. \A k \in DOMAIN journal : k \in Int
      BY <1>1, LenProperties
    <3> QED BY <2>2, <3>1 DEF Settled, ChunksOK, OnLedger
  <2> QED BY <1>3, <2>1, <2>2 DEF FailedOver
<1>4. ASSUME ~FailedOver, NEW i \in Int PROVE ~OnLedger("comp", i) /\ ~OnLedger("mv", i)
  <2>1. 0 \in 0..ChunkCount(journal) - 1
    BY <1>2
  <2>2. ~OnLedger("comp", 0)
    BY <1>4, <2>1 DEF FailedOver, OnLedger
  <2>3. OnLedger("comp", i) => i = 0
    BY DEF Settled, ChunksOK
  <2>4. OnLedger("mv", i) => i \in DOMAIN journal
    BY DEF Settled, ChunksOK
  <2> QED BY <1>4, <2>2, <2>3, <2>4 DEF FailedOver, OnLedger
<1> QED BY <1>3, <1>4

LEMMA RecoverySettled ==
  ASSUME ~Overlap, SessionInv, Turns, Excused \/ Settled,
         SweepOrphan \/ Failover \/ PruneSettled \/ RefundsDone
  PROVE  Turns' /\ (Excused' \/ Settled')
<1>0. NettingTyped /\ "lane" \in Procs /\ "rec" \in Procs
  BY DEF SessionInv, Procs
<1>1. UNCHANGED <<txns, journal, lane, used>>
  BY DEF SweepOrphan, Failover, PruneSettled, RefundsDone, ledger
<1>2. ~lane.up \/ lane.closed
  BY DEF SweepOrphan, Failover, PruneSettled, RefundsDone, CanRecover, Turns
<1>3. \E r : /\ run' = [run EXCEPT !["rec"] = r]
             /\ \/ r.pc \in {"refund", "idle"}
                \/ /\ journal # << >>
                   /\ IF FailedOver THEN r.pc = "mv" ELSE r.pc = "chunk" /\ r.i = 0
  <2>1. FreshRun.pc = "idle"
    BY DEF FreshRun
  <2>2. CASE SweepOrphan
    BY <1>0, <2>2, RecoveredIs DEF SweepOrphan, CanRecover
  <2>3. CASE Failover
    BY <1>0, <2>3, RecoveredIs DEF Failover, CanRecover
  <2>4. CASE PruneSettled
    BY <1>0, <2>4, RecoveredIs DEF PruneSettled
  <2>5. CASE RefundsDone
    BY <2>1, <2>5 DEF RefundsDone
  <2> QED BY <2>2, <2>3, <2>4, <2>5
<1>4. PICK r : /\ run' = [run EXCEPT !["rec"] = r]
               /\ \/ r.pc \in {"refund", "idle"}
                  \/ /\ journal # << >>
                     /\ IF FailedOver THEN r.pc = "mv" ELSE r.pc = "chunk" /\ r.i = 0
  BY <1>3
<1>5. run'["rec"] = r /\ run'["lane"] = run["lane"]
  BY <1>0, <1>4, RunUpdated
<1>6. Turns'
  BY <1>1, <1>2, <1>5 DEF Turns
<1>7. Excused => Excused'
  BY <1>1 DEF Excused, SettleRetried, Failed
<1>8. ASSUME Settled, ~Excused PROVE Settled'
  <2>1. \A kind, i : OnLedger(kind, i)' <=> OnLedger(kind, i)
    BY <1>1 DEF OnLedger
  <2>2. NoneStands' <=> NoneStands
    BY <2>1 DEF NoneStands
  <2>3. ChunksOK'
    BY <1>1, <1>8, <2>1, <2>2 DEF ChunksOK, Settled
  <2>4. PhaseOK("lane")'
    BY <1>0, <1>1, <1>5, <1>8, <2>1, <2>2 DEF PhaseOK, Settled
  <2>5. PhaseOK("rec")'
    <3>1. CASE r.pc \in {"refund", "idle"}
      BY <1>5, <3>1 DEF PhaseOK
    <3>2. CASE journal # << >> /\ (IF FailedOver THEN r.pc = "mv" ELSE r.pc = "chunk" /\ r.i = 0)
      <4>1. ChunkCount(journal) <= 2
        <5>1. ChunkCount(journal) \in Nat
          BY <1>0, ShapesAre, ChunksGrow, EmptySeq
        <5> QED BY <1>8, <5>1 DEF Excused
      <4>2. /\ FailedOver => NoneStands
            /\ ~FailedOver => \A i \in Int : ~OnLedger("comp", i) /\ ~OnLedger("mv", i)
        BY <1>0, <1>8, <3>2, <4>1, ProbesTell
      <4> QED BY <1>5, <2>1, <2>2, <3>2, <4>2 DEF PhaseOK
    <3> QED BY <1>4, <3>1, <3>2
  <2>6. ~Waiting'
    BY <1>1, <1>2 DEF Waiting
  <2> QED BY <2>3, <2>4, <2>5, <2>6 DEF Settled, Procs
<1> QED BY <1>6, <1>7, <1>8

LEMMA MainLaneSettled ==
  ASSUME SessionInv, Turns, Excused \/ Settled, MainLaneSpend \/ MainLaneTopUp
  PROVE  Turns' /\ (Excused' \/ Settled')
<1>1. UNCHANGED <<txns, journal, lane, run>> /\ used'.failed = used.failed
  <2>1. used \in Used
    BY DEF SessionInv, NettingTyped, Memory
  <2> QED BY <2>1 DEF MainLaneSpend, MainLaneTopUp, Used
<1>2. Turns'
  BY <1>1 DEF Turns
<1>3. SettlementKept
  BY <1>1 DEF SettlementKept
<1>4. Waiting' => Waiting
  BY <1>1 DEF Waiting
<1> QED BY <1>1, <1>2, <1>3, <1>4, SameSettled

(* One of the two works at a time, and a step of its settle leaves it at r.       *)
LEMMA TurnTaken ==
  ASSUME NettingTyped, Turns, NEW p \in Procs, run[p].pc # "idle",
         NEW r, run' = [run EXCEPT ![p] = r],
         lane'.up = lane.up, lane'.closed = lane.closed,
         p = "lane" /\ r.pc \in {"revoke", "holds", "refund", "post", "emit"} => lane'.reported,
         p = "rec" => lane'.reported = lane.reported
  PROVE  /\ Turns' /\ run'[p] = r
         /\ \A q \in Procs \ {p} : run'[q] = run[q] /\ run[q].pc = "idle"
         /\ Waiting' => p = "lane" /\ r.pc = "idle" /\ ~lane'.reported
<1>1. run'[p] = r /\ \A q \in Procs : q = p \/ run'[q] = run[q]
  BY RunUpdated
<1>2. CASE p = "lane"
  <2>1. run["rec"].pc = "idle" /\ run'["rec"] = run["rec"] /\ lane.up /\ ~lane.closed
    BY <1>1, <1>2 DEF Turns, Procs
  <2> QED BY <1>1, <1>2, <2>1 DEF Turns, Procs, Waiting
<1>3. CASE p = "rec"
  <2>1. run["lane"].pc = "idle" /\ run'["lane"] = run["lane"] /\ (~lane.up \/ lane.closed)
    BY <1>1, <1>3 DEF Turns, Procs
  <2> QED BY <1>1, <1>3, <2>1 DEF Turns, Procs, Waiting
<1> QED BY <1>2, <1>3 DEF Procs

(* A step that posts no part of the settlement and starts no phase of it.         *)
LEMMA TurnKept ==
  ASSUME SessionInv, Turns, Excused \/ Settled, NEW p \in Procs, run[p].pc # "idle",
         NEW r, run' = [run EXCEPT ![p] = r],
         lane'.up = lane.up, lane'.closed = lane.closed,
         p = "lane" /\ r.pc \in {"revoke", "holds", "refund", "post", "emit"} => lane'.reported,
         p = "rec" => lane'.reported = lane.reported,
         journal' = journal, used.failed \subseteq used'.failed,
         \A i \in Int : /\ <<"net", i>> \in txns' <=> <<"net", i>> \in txns
                        /\ <<"comp", i>> \in txns' <=> <<"comp", i>> \in txns
                        /\ <<"mv", i>> \in txns' <=> <<"mv", i>> \in txns,
         r.pc \in {"chunk", "comp", "mv"} => r.pc = run[p].pc /\ r.i = run[p].i,
         p = "lane" /\ r.pc = "idle" => lane'.reported \/ SettleRetried'
  PROVE  Turns' /\ (Excused' \/ Settled')
<1>0. NettingTyped
  BY DEF SessionInv
<1>1. /\ Turns' /\ run'[p] = r
      /\ \A q \in Procs \ {p} : run'[q] = run[q] /\ run[q].pc = "idle"
      /\ Waiting' => p = "lane" /\ r.pc = "idle" /\ ~lane'.reported
  BY <1>0, TurnTaken
<1>2. SettlementKept
  BY <1>1 DEF SettlementKept
<1>3. Waiting' => Waiting \/ SettleRetried'
  BY <1>1
<1> QED BY <1>1, <1>2, <1>3, SameSettled

(* A step of the postings themselves: what it must leave behind.                  *)
LEMMA TurnSettled ==
  ASSUME SessionInv, Turns, NEW p \in Procs, run[p].pc # "idle",
         NEW r, run' = [run EXCEPT ![p] = r], UNCHANGED lane,
         r.pc \in {"chunk", "comp", "mv", "claim"},
         Excused' \/ (ChunksOK' /\ PhaseOK(p)')
  PROVE  Turns' /\ (Excused' \/ Settled')
<1>0. NettingTyped
  BY DEF SessionInv
<1>1. /\ Turns' /\ run'[p] = r
      /\ \A q \in Procs \ {p} : run'[q] = run[q] /\ run[q].pc = "idle"
      /\ Waiting' => p = "lane" /\ r.pc = "idle" /\ ~lane'.reported
  BY <1>0, TurnTaken
<1>2. \A q \in Procs \ {p} : PhaseOK(q)'
  BY <1>1 DEF PhaseOK
<1>3. ~Waiting'
  BY <1>1
<1> QED BY <1>1, <1>2, <1>3 DEF Settled

(* What the chunk step knows of a settlement of at most two chunks.               *)
LEMMA AtChunk ==
  ASSUME NettingTyped, NEW p \in Procs, Settled, ~Excused, run[p].pc = "chunk"
  PROVE  /\ ChunkCount(journal) \in Nat /\ ChunkCount(journal) <= 2
         /\ run[p].i \in {0, 1} /\ (run[p].i = 1 => OnLedger("net", 0))
         /\ \A i \in Int : ~OnLedger("comp", i) /\ ~OnLedger("mv", i)
<1>1. ChunkCount(journal) \in Nat
  BY ShapesAre, ChunksGrow, EmptySeq
<1>2. PhaseOK(p)
  BY DEF Settled
<1> QED BY <1>1, <1>2 DEF Excused, PhaseOK

(* A chunk that was not posted sends the settle to undo the ones before it.       *)
LEMMA ChunkRefused ==
  ASSUME NettingTyped, NEW p \in Procs, Settled, ~Excused, run[p].pc = "chunk",
         NEW r, run' = [run EXCEPT ![p] = r], r.pc = "comp", r.i = run[p].i - 1,
         txns' = txns, journal' = journal, <<"net", run[p].i>> \notin txns
  PROVE  ChunksOK' /\ PhaseOK(p)'
<1>1. /\ run[p].i \in {0, 1} /\ (run[p].i = 1 => OnLedger("net", 0))
      /\ \A k \in Int : ~OnLedger("comp", k) /\ ~OnLedger("mv", k)
  BY AtChunk
<1>2. \A kind, i : OnLedger(kind, i)' <=> OnLedger(kind, i)
  BY DEF OnLedger
<1>3. NoneStands' <=> NoneStands
  BY <1>2 DEF NoneStands
<1>4. ChunksOK'
  BY <1>2, <1>3 DEF Settled, ChunksOK
<1>5. run'[p] = r
  BY RunUpdated
<1>6. ~OnLedger("net", run[p].i)
  BY DEF OnLedger
<1>7. \A k \in Int : OnLedger("net", k) => k = 0 \/ (k = 1 /\ OnLedger("net", 0))
  BY DEF Settled, ChunksOK
<1>8. CASE run[p].i = 0
  <2>1. \A k \in Int : ~OnLedger("net", k)
    BY <1>6, <1>7, <1>8
  <2>2. NoneStands' /\ r.i = -1
    BY <1>3, <1>8, <2>1 DEF NoneStands
  <2> QED BY <1>1, <1>2, <1>4, <1>5, <2>2 DEF PhaseOK
<1>9. CASE run[p].i = 1
  <2>1. r.i = 0 /\ OnLedger("net", 0)' /\ ~OnLedger("net", 1)'
    BY <1>1, <1>2, <1>6, <1>9
  <2> QED BY <1>1, <1>2, <1>4, <1>5, <2>1 DEF PhaseOK
<1> QED BY <1>1, <1>8, <1>9

LEMMA PostChunkSettled ==
  ASSUME SessionInv, Turns, Excused \/ Settled, NEW p \in Procs, PostChunk(p)
  PROVE  Turns' /\ (Excused' \/ Settled')
<1>0. NettingTyped /\ run \in [Procs -> Run] /\ run[p].i \in Int
  BY ShapesAre DEF SessionInv, Run
<1> DEFINE i == run[p].i
           c == IF i + 1 < ChunkCount(journal) THEN "chunk" ELSE "claim"
           on == [run[p] EXCEPT !.i = i + 1, !.pc = c]
           off == [run[p] EXCEPT !.pc = "comp", !.i = i - 1]
<1>1. run[p].pc = "chunk" /\ UNCHANGED <<journal, lane, used>>
  BY DEF PostChunk
<1>2. \/ /\ run' = [run EXCEPT ![p].i = i + 1, ![p].pc = c]
         /\ \/ <<"net", i>> \in txns /\ txns' = txns
            \/ txns' = txns \cup {<<"net", i>>}
      \/ /\ run' = [run EXCEPT ![p].pc = "comp", ![p].i = i - 1]
         /\ <<"net", i>> \notin txns /\ txns' = txns
  BY DEF PostChunk, ledger
<1>3. c \in {"chunk", "claim"}
  OBVIOUS
<1>4. on.pc = c /\ on.i = i + 1 /\ off.pc = "comp" /\ off.i = i - 1
  <2> HIDE DEF c
  <2> QED BY <1>0 DEF Run
<1>5. \/ run' = [run EXCEPT ![p] = on] /\ txns' = txns \cup {<<"net", i>>}
      \/ run' = [run EXCEPT ![p] = off] /\ txns' = txns /\ <<"net", i>> \notin txns
  <2> HIDE DEF c
  <2> QED BY <1>0, <1>2
<1>6. Excused => Excused'
  BY <1>1 DEF Excused, SettleRetried, Failed
<1>7. CASE run' = [run EXCEPT ![p] = on] /\ txns' = txns \cup {<<"net", i>>}
  <2>1. ASSUME Settled, ~Excused PROVE ChunksOK' /\ PhaseOK(p)'
    <3>1. /\ ChunkCount(journal) \in Nat /\ ChunkCount(journal) <= 2
          /\ i \in {0, 1} /\ (i = 1 => OnLedger("net", 0))
          /\ \A k \in Int : ~OnLedger("comp", k) /\ ~OnLedger("mv", k)
      BY <1>0, <1>1, <2>1, AtChunk
    <3>2. /\ \A k \in Int : OnLedger("net", k)' <=> OnLedger("net", k) \/ k = i
          /\ \A k \in Int : ~OnLedger("comp", k)' /\ ~OnLedger("mv", k)'
      <4> HIDE DEF i, on
      <4> QED BY <1>7, <3>1 DEF OnLedger
    <3>3. ChunksOK'
      <4> HIDE DEF i, on
      <4>1. \A k \in Int : OnLedger("net", k) => k = 0 \/ (k = 1 /\ OnLedger("net", 0))
        BY <2>1 DEF Settled, ChunksOK
      <4>2. \A k \in Int : OnLedger("net", k)' => k = 0 \/ (k = 1 /\ OnLedger("net", 0)')
        BY <3>1, <3>2, <4>1
      <4> QED BY <3>2, <4>2 DEF ChunksOK
    <3>4. run'[p] = on
      BY <1>0, <1>7
    <3>5. c = "chunk" => i = 0 /\ ChunkCount(journal)' > 1
      BY <1>1, <3>1
    <3>6. OnLedger("net", 0)'
      BY <3>1, <3>2
    <3>7. on.pc = "chunk" => on.i = 1 /\ ChunkCount(journal)' > 1
      BY <1>4, <3>5
    <3>8. on.pc \in {"chunk", "claim"}
      BY <1>3, <1>4
    <3> HIDE DEF i, c, on
    <3>9. PhaseOK(p)'
      BY <3>2, <3>4, <3>6, <3>7, <3>8 DEF PhaseOK
    <3> QED BY <3>3, <3>9
  <2>2. on.pc \in {"chunk", "claim"}
    BY <1>3, <1>4
  <2> HIDE DEF i, c, on
  <2> QED BY <1>1, <1>6, <1>7, <2>1, <2>2, TurnSettled
<1>8. CASE run' = [run EXCEPT ![p] = off] /\ txns' = txns /\ <<"net", i>> \notin txns
  <2>1. ASSUME Settled, ~Excused PROVE ChunksOK' /\ PhaseOK(p)'
    BY <1>0, <1>1, <1>4, <1>8, <2>1, ChunkRefused
  <2> HIDE DEF i, off
  <2> QED BY <1>1, <1>4, <1>6, <1>8, <2>1, TurnSettled
<1> HIDE DEF i, c, on, off
<1> QED BY <1>5, <1>7, <1>8

LEMMA PostChunkFailsSettled ==
  ASSUME SessionInv, Turns, Excused \/ Settled, NEW p \in Procs, PostChunkFails(p)
  PROVE  Turns' /\ (Excused' \/ Settled')
<1>0. NettingTyped /\ run \in [Procs -> Run] /\ run[p].i \in Int /\ used \in Used
  BY ShapesAre DEF SessionInv, Run, NettingTyped, Memory
<1> DEFINE off == [run[p] EXCEPT !.pc = "comp", !.i = @ - 1]
           step == IF <<"net", run[p].i>> \in txns THEN "again" ELSE "chunk"
<1>1. run[p].pc = "chunk" /\ UNCHANGED <<journal, lane, txns>> /\ run' = [run EXCEPT ![p] = off]
  BY <1>0 DEF PostChunkFails, ledger
<1>2. off.pc = "comp" /\ off.i = run[p].i - 1
  BY <1>0 DEF Run
<1>3. used.failed \subseteq used'.failed /\ step \in used'.failed
  <2>1. step \in Steps /\ Fault(step)
    BY DEF PostChunkFails, Steps
  <2> HIDE DEF step
  <2> QED BY <1>0, <2>1, FailedGrows
<1>4. Excused => Excused'
  BY <1>1, <1>3 DEF Excused, SettleRetried, Failed
<1>5. CASE <<"net", run[p].i>> \in txns
  <2>1. Excused'
    BY <1>3, <1>5 DEF Excused, SettleRetried, Failed
  <2> HIDE DEF off, step
  <2> QED BY <1>1, <1>2, <2>1, TurnSettled
<1>6. CASE <<"net", run[p].i>> \notin txns
  <2> HIDE DEF off, step
  <2>1. ASSUME Settled, ~Excused PROVE ChunksOK' /\ PhaseOK(p)'
    BY <1>0, <1>1, <1>2, <1>6, <2>1, ChunkRefused
  <2> QED BY <1>1, <1>2, <1>4, <2>1, TurnSettled
<1> QED BY <1>5, <1>6

LEMMA CompensateSettled ==
  ASSUME SessionInv, Turns, Excused \/ Settled, NEW p \in Procs, Compensate(p)
  PROVE  Turns' /\ (Excused' \/ Settled')
<1>0. NettingTyped /\ run \in [Procs -> Run] /\ run[p] \in Run /\ run[p].i \in Int /\ used \in Used
  BY ShapesAre DEF SessionInv, Run, NettingTyped, Memory
<1> DEFINE i == run[p].i
           redo == [run[p] EXCEPT !.settled = TRUE, !.pc = "mv", !.i = 1]
           on == [run[p] EXCEPT !.i = i - 1]
<1>1. run[p].pc = "comp" /\ UNCHANGED <<journal, lane>>
  BY DEF Compensate
<1>2. /\ redo.pc = "mv" /\ on.pc = "comp" /\ on.i = i - 1 /\ Thrown(p).pc = "idle"
  <2>1. Thrown(p).pc = "idle"
    BY <1>0 DEF Thrown, FreshRun, Run
  <2> QED BY <1>0, <1>1, <2>1 DEF Run
<1>3. \/ i < 0 /\ run' = [run EXCEPT ![p] = redo] /\ txns' = txns /\ used' = used
      \/ i >= 0 /\ run' = [run EXCEPT ![p] = on] /\ txns' = txns \cup {<<"comp", i>>} /\ used' = used
      \/ /\ run' = [run EXCEPT ![p] = Thrown(p)] /\ txns' = txns
         /\ used' = [used EXCEPT !.failed = @ \cup {"comp"}]
  BY <1>0 DEF Compensate, ledger
<1>4. ASSUME Settled PROVE /\ i \in {-1, 0} /\ \A k \in Int : ~OnLedger("mv", k)
                           /\ i = 0 => OnLedger("net", 0) /\ ~OnLedger("net", 1)
                           /\ i = -1 => NoneStands
  BY <1>1, <1>4 DEF Settled, PhaseOK
<1>5. used' = used => (Excused => Excused')
  BY <1>1 DEF Excused, SettleRetried, Failed
<1>6. CASE i < 0 /\ run' = [run EXCEPT ![p] = redo] /\ txns' = txns /\ used' = used
  <2>1. ASSUME Settled PROVE ChunksOK' /\ PhaseOK(p)'
    <3>1. \A kind, k : OnLedger(kind, k)' <=> OnLedger(kind, k)
      BY <1>6 DEF OnLedger
    <3>2. NoneStands' <=> NoneStands
      BY <3>1 DEF NoneStands
    <3>3. ChunksOK'
      BY <1>1, <2>1, <3>1, <3>2 DEF Settled, ChunksOK
    <3>4. run'[p] = redo
      BY <1>0, <1>6
    <3>5. NoneStands'
      BY <1>4, <1>6, <2>1, <3>2
    <3> HIDE DEF redo
    <3> QED BY <1>2, <3>3, <3>4, <3>5 DEF PhaseOK
  <2> HIDE DEF redo, on, i
  <2> QED BY <1>1, <1>2, <1>5, <1>6, <2>1, TurnSettled
<1>7. CASE i >= 0 /\ run' = [run EXCEPT ![p] = on] /\ txns' = txns \cup {<<"comp", i>>} /\ used' = used
  <2>1. ASSUME Settled PROVE ChunksOK' /\ PhaseOK(p)'
    <3>1. i = 0 /\ OnLedger("net", 0) /\ ~OnLedger("net", 1) /\ \A k \in Int : ~OnLedger("mv", k)
      BY <1>4, <1>7, <2>1
    <3>2. /\ \A k \in Int : OnLedger("net", k)' <=> OnLedger("net", k)
          /\ \A k \in Int : OnLedger("comp", k)' <=> OnLedger("comp", k) \/ k = 0
          /\ \A k \in Int : ~OnLedger("mv", k)'
      <4> HIDE DEF i, on
      <4> QED BY <1>7, <3>1 DEF OnLedger
    <3>3. run'[p] = on
      BY <1>0, <1>7
    <3>4. \A k \in Int : OnLedger("net", k) => k = 0
      BY <2>1, <3>1 DEF Settled, ChunksOK
    <3>5. NoneStands'
      BY <3>2, <3>4 DEF NoneStands
    <3>6. ChunksOK'
      <4> HIDE DEF i, on
      <4>1. \A k \in Int : OnLedger("comp", k) => k = 0
        BY <2>1 DEF Settled, ChunksOK
      <4> QED BY <3>1, <3>2, <3>4, <4>1 DEF ChunksOK
    <3>7. on.i = -1
      BY <1>2, <3>1
    <3> HIDE DEF on, i
    <3> QED BY <1>2, <3>2, <3>3, <3>5, <3>6, <3>7 DEF PhaseOK
  <2> HIDE DEF redo, on, i
  <2> QED BY <1>1, <1>2, <1>5, <1>7, <2>1, TurnSettled
<1>8. CASE /\ run' = [run EXCEPT ![p] = Thrown(p)] /\ txns' = txns
           /\ used' = [used EXCEPT !.failed = @ \cup {"comp"}]
  <2>1. used.failed \subseteq used'.failed /\ SettleRetried'
    BY <1>0, <1>8 DEF Used, SettleRetried, Failed
  <2> QED BY <1>1, <1>2, <1>8, <2>1, TurnKept
<1> HIDE DEF redo, on, i
<1> QED BY <1>3, <1>6, <1>7, <1>8

LEMMA ReplaySettled ==
  ASSUME SessionInv, Turns, Excused \/ Settled, NEW p \in Procs, Replay(p) \/ ReplayFails(p)
  PROVE  Turns' /\ (Excused' \/ Settled')
<1>0. /\ NettingTyped /\ run \in [Procs -> Run] /\ run[p] \in Run /\ run[p].i \in Int /\ used \in Used
      /\ journal \in Seq(Row)
  BY ShapesAre DEF SessionInv, Run, NettingTyped, Memory
<1> DEFINE i == run[p].i
           on == [run[p] EXCEPT !.i = i + 1]
           off == [run[p] EXCEPT !.i = i + 1, !.rejected = @ \cup {journal[i].order}]
<1>1. run[p].pc = "mv" /\ i <= Len(journal) /\ i >= 1 /\ UNCHANGED <<journal, lane>>
  BY <1>0 DEF Replay, ReplayFails, NettingTyped, Memory
<1>2. on.pc = "mv" /\ off.pc = "mv"
  BY <1>0, <1>1 DEF Run
<1>3. run' = [run EXCEPT ![p] = on] \/ run' = [run EXCEPT ![p] = off]
  BY <1>0 DEF Replay, ReplayFails
<1>4. PICK r \in {on, off} : run' = [run EXCEPT ![p] = r]
  BY <1>3
<1>5. txns' = txns \/ txns' = txns \cup {<<"mv", i>>}
  BY DEF Replay, ReplayFails, ledger
<1>6. r.pc = "mv"
  BY <1>2, <1>4
<1>7. used.failed \subseteq used'.failed
  <2>1. used' = used \/ Fault("mv")
    BY DEF Replay, ReplayFails
  <2>2. "mv" \in Steps
    BY DEF Steps
  <2> QED BY <1>0, <2>1, <2>2, FailedGrows
<1>8. Excused => Excused'
  BY <1>1, <1>7 DEF Excused, SettleRetried, Failed
<1>9. ASSUME Settled PROVE ChunksOK' /\ PhaseOK(p)'
  <2>1. i \in DOMAIN journal
    BY <1>0, <1>1, LenProperties
  <2>2. NoneStands
    BY <1>1, <1>9 DEF Settled, PhaseOK
  <2>3. /\ \A k \in Int : OnLedger("net", k)' <=> OnLedger("net", k)
        /\ \A k \in Int : OnLedger("comp", k)' <=> OnLedger("comp", k)
        /\ \A k \in Int : OnLedger("mv", k)' => OnLedger("mv", k) \/ k = i
    <3> HIDE DEF i
    <3> QED BY <1>5 DEF OnLedger
  <2>4. NoneStands'
    BY <2>2, <2>3 DEF NoneStands
  <2>5. ChunksOK'
    <3> HIDE DEF i
    <3>1. \A k \in Int : OnLedger("mv", k) => k \in DOMAIN journal
      BY <1>9 DEF Settled, ChunksOK
    <3>2. \A k \in Int : OnLedger("mv", k)' => k \in DOMAIN journal'
      BY <1>1, <2>1, <2>3, <3>1
    <3>3. /\ \A k \in Int : OnLedger("net", k) => k = 0 \/ (k = 1 /\ OnLedger("net", 0))
          /\ \A k \in Int : OnLedger("comp", k) => k = 0 /\ OnLedger("net", 0) /\ ~OnLedger("net", 1)
      BY <1>9 DEF Settled, ChunksOK
    <3> QED BY <2>3, <2>4, <3>2, <3>3 DEF ChunksOK
  <2>6. run'[p] = r
    BY <1>0, <1>4
  <2> QED BY <1>6, <2>4, <2>5, <2>6 DEF PhaseOK
<1> HIDE DEF on, off, i
<1> QED BY <1>1, <1>4, <1>6, <1>8, <1>9, TurnSettled

LEMMA ReleaseSettled ==
  ASSUME SessionInv, Turns, Excused \/ Settled, NEW p \in Procs, ReleaseClaim(p) \/ GiveBack(p)
  PROVE  Turns' /\ (Excused' \/ Settled')
<1>0. NettingTyped /\ run \in [Procs -> Run] /\ run[p] \in Run
  BY ShapesAre DEF SessionInv
<1>1. UNCHANGED <<txns, journal, lane, used>> /\ run[p].pc \in {"claim", "mv", "give"}
  BY DEF ReleaseClaim, GiveBack, AtClaim, ledger
<1>2. \E r : run' = [run EXCEPT ![p] = r] /\ r.pc \in {"give", "done"}
  <2>1. CASE ReleaseClaim(p)
    <3> DEFINE w == ~run[p].released /\ ~claimed
               c == IF w THEN "give" ELSE "done"
               v == ~w
               r == [run[p] EXCEPT !.pc = c, !.i = 1, !.released = v]
    <3>1. run' = [run EXCEPT ![p].pc = c, ![p].i = 1, ![p].released = v]
      BY <2>1 DEF ReleaseClaim
    <3>2. c \in {"give", "done"}
      OBVIOUS
    <3> HIDE DEF w, c, v
    <3>3. run' = [run EXCEPT ![p] = r] /\ r.pc = c
      BY <1>0, <3>1 DEF Run
    <3> QED BY <3>2, <3>3
  <2>2. CASE GiveBack(p)
    <3> DEFINE l == run[p].i = Len(Reserved(p))
               c == IF l THEN "done" ELSE "give"
               r == [run[p] EXCEPT !.i = run[p].i + 1, !.released = l, !.pc = c]
    <3>1. run' = [run EXCEPT ![p].i = run[p].i + 1, ![p].released = l, ![p].pc = c]
      BY <2>2 DEF GiveBack
    <3>2. c \in {"give", "done"}
      OBVIOUS
    <3> HIDE DEF l, c
    <3>3. run' = [run EXCEPT ![p] = r] /\ r.pc = c
      BY <1>0, <3>1 DEF Run
    <3> QED BY <3>2, <3>3
  <2> QED BY <2>1, <2>2
<1>3. PICK r : run' = [run EXCEPT ![p] = r] /\ r.pc \in {"give", "done"}
  BY <1>2
<1> QED BY <1>1, <1>3, TurnKept

LEMMA ReportSettled ==
  ASSUME SessionInv, Turns, Excused \/ Settled, NEW p \in Procs, Report(p)
  PROVE  Turns' /\ (Excused' \/ Settled')
<1>0. NettingTyped /\ run \in [Procs -> Run] /\ run[p] \in Run /\ lane \in Lane
  BY ShapesAre DEF SessionInv
<1> DEFINE r == [run[p] EXCEPT !.settled = TRUE]
           mine == [r EXCEPT !.pc = "revoke", !.owes = r.rejected \cap lane.granted]
           swept == [r EXCEPT !.pc = "refund", !.owes = Escrowed(journal)]
           x == lane.reported \/ p = "lane"
<1>1. run' = [run EXCEPT ![p] = IF p = "lane" THEN mine ELSE IF r.kind = "sweep" THEN swept ELSE FreshRun]
  BY DEF Report
<1>2. mine.pc = "revoke" /\ swept.pc = "refund" /\ run[p].pc = "done" /\ FreshRun.pc = "idle"
  BY <1>0 DEF Run, Report, FreshRun
<1>3. UNCHANGED <<txns, journal, used>> /\ lane' = [lane EXCEPT !.reported = x]
  BY DEF Report, ledger
<1>4. /\ lane'.up = lane.up /\ lane'.closed = lane.closed
      /\ p = "lane" => lane'.reported
      /\ p = "rec" => lane'.reported = lane.reported
  <2>1. (p = "lane" => x) /\ (p = "rec" => x = lane.reported) /\ x \in BOOLEAN
    BY <1>0 DEF Lane
  <2> HIDE DEF x
  <2> QED BY <1>0, <1>3, <2>1 DEF Lane
<1>5. PICK s : run' = [run EXCEPT ![p] = s] /\ s.pc \in {"revoke", "refund", "idle"}
  <2> HIDE DEF mine, swept
  <2> QED BY <1>1, <1>2
<1> HIDE DEF r, mine, swept, x
<1> QED BY <1>2, <1>3, <1>4, <1>5, TurnKept

(* A failure before the report is a retry to come; after it nothing is posted.    *)
LEMMA FailsSettled ==
  ASSUME SessionInv, Turns, Excused \/ Settled, NEW p \in Procs, SettleStepFails(p)
  PROVE  Turns' /\ (Excused' \/ Settled')
<1>0. NettingTyped /\ run \in [Procs -> Run] /\ run[p] \in Run /\ used \in Used
  BY ShapesAre DEF SessionInv, NettingTyped, Memory
<1>1. UNCHANGED <<txns, journal, lane>> /\ run' = [run EXCEPT ![p] = Thrown(p)]
  BY DEF SettleStepFails, ledger
<1>2. Thrown(p).pc = "idle"
  BY <1>0 DEF Thrown, FreshRun, Run
<1> DEFINE step == IF AtClaim(p) THEN "claim" ELSE
                   IF run[p].pc = "post" THEN "refund" ELSE run[p].pc
<1>3. step \in {"comp", "claim", "give", "revoke", "refund", "emit"} /\ Fault(step)
  BY DEF SettleStepFails
<1>4. run[p].pc # "idle"
  BY <1>3 DEF AtClaim
<1>5. step \notin {"comp", "claim", "give"} => run[p].pc \in {"revoke", "refund", "post", "emit"}
  BY <1>3
<1>6. used.failed \subseteq used'.failed /\ step \in used'.failed
  <2>1. step \in Steps
    <3> HIDE DEF step
    <3> QED BY <1>3 DEF Steps
  <2> HIDE DEF step
  <2> QED BY <1>0, <1>3, <2>1, FailedGrows
<1> HIDE DEF step
<1>7. p = "lane" => lane'.reported \/ SettleRetried'
  <2>1. CASE step \in {"comp", "claim", "give"}
    BY <1>6, <2>1 DEF SettleRetried, Failed
  <2>2. CASE step \notin {"comp", "claim", "give"}
    BY <1>1, <1>5, <2>2 DEF Turns
  <2> QED BY <2>1, <2>2
<1> QED BY <1>1, <1>2, <1>4, <1>6, <1>7, TurnKept

LEMMA RefundSettled ==
  ASSUME SessionInv, Turns, Excused \/ Settled, NEW p \in Procs, RefundRead(p) \/ RefundPost(p)
  PROVE  Turns' /\ (Excused' \/ Settled')
<1>0. NettingTyped /\ run \in [Procs -> Run] /\ run[p] \in Run
  BY ShapesAre DEF SessionInv
<1>1. UNCHANGED <<journal, lane, used>> /\ run[p].pc \in {"refund", "post"}
  BY DEF RefundRead, RefundPost
<1>2. p = "lane" => lane'.reported
  BY <1>1 DEF Turns
<1>3. \E r : run' = [run EXCEPT ![p] = r] /\ r.pc \in {"refund", "post", "idle"}
  <2>1. CASE RefundRead(p)
    <3>1. PICK b : \/ run' = [run EXCEPT ![p].owes = @ \ {b}]
                   \/ run' = [run EXCEPT ![p].pc = "post", ![p].buyer = b, ![p].amount = escrow[b]]
      BY <2>1 DEF RefundRead
    <3> DEFINE less == [run[p] EXCEPT !.owes = @ \ {b}]
               post == [run[p] EXCEPT !.pc = "post", !.buyer = b, !.amount = escrow[b]]
    <3>2. run' = [run EXCEPT ![p] = less] \/ run' = [run EXCEPT ![p] = post]
      BY <1>0, <3>1
    <3>3. less.pc = run[p].pc /\ post.pc = "post"
      BY <1>0 DEF Run
    <3> HIDE DEF less, post
    <3> QED BY <1>1, <3>2, <3>3
  <2>2. CASE RefundPost(p)
    <3> DEFINE back == [run[p] EXCEPT !.pc = "refund", !.owes = @ \ {run[p].buyer}, !.buyer = None, !.amount = 0]
    <3>1. run' = [run EXCEPT ![p] = Thrown(p)] \/ run' = [run EXCEPT ![p] = back]
      BY <1>0, <2>2 DEF RefundPost
    <3>2. back.pc = "refund" /\ Thrown(p).pc = "idle"
      BY <1>0 DEF Run, Thrown, FreshRun
    <3> HIDE DEF back
    <3> QED BY <3>1, <3>2
  <2> QED BY <2>1, <2>2
<1>4. PICK r : run' = [run EXCEPT ![p] = r] /\ r.pc \in {"refund", "post", "idle"}
  BY <1>3
<1>5. \A i \in Int : /\ <<"net", i>> \in txns' <=> <<"net", i>> \in txns
                     /\ <<"comp", i>> \in txns' <=> <<"comp", i>> \in txns
                     /\ <<"mv", i>> \in txns' <=> <<"mv", i>> \in txns
  <2> DEFINE x == <<"refund", run[p].buyer>>
  <2>1. txns' = txns \/ txns' = txns \cup {x}
    BY DEF RefundRead, RefundPost, ledger
  <2>2. \A i \in Int : x # <<"net", i>> /\ x # <<"comp", i>> /\ x # <<"mv", i>>
    OBVIOUS
  <2> HIDE DEF x
  <2> QED BY <2>1, <2>2
<1> QED BY <1>1, <1>2, <1>4, <1>5, TurnKept

(* A crash ends its process's settle; what it posted stands as it was.            *)
LEMMA CrashSettled ==
  ASSUME SessionInv, Turns, Excused \/ Settled, NEW p \in Procs, Crash(p)
  PROVE  Turns' /\ (Excused' \/ Settled')
<1>0. NettingTyped /\ lane \in Lane /\ used \in Used
  BY ShapesAre DEF SessionInv, NettingTyped, Memory
<1>1. /\ UNCHANGED <<txns, journal>> /\ used'.failed = used.failed
      /\ run' = [run EXCEPT ![p] = FreshRun] /\ FreshRun.pc = "idle"
  BY <1>0 DEF Crash, ledger, Used, FreshRun
<1>2. run'[p].pc = "idle" /\ \A q \in Procs : q = p \/ run'[q] = run[q]
  BY <1>0, <1>1, RunUpdated
<1>3. /\ p = "lane" => ~lane'.up /\ lane.up /\ ~lane.closed
      /\ p = "rec" => lane' = lane /\ (~lane.up \/ lane.closed)
  BY <1>0 DEF Crash, Lane, Turns
<1>4. Turns' /\ ~Waiting'
  <2>1. CASE p = "lane"
    BY <1>2, <1>3, <2>1 DEF Turns, Waiting, Procs
  <2>2. CASE p = "rec"
    BY <1>2, <1>3, <2>2 DEF Turns, Waiting, Procs
  <2> QED BY <2>1, <2>2 DEF Procs
<1>5. SettlementKept
  BY <1>1, <1>2 DEF SettlementKept
<1> QED BY <1>1, <1>4, <1>5, SameSettled

OnceInv == SessionInv /\ Turns /\ (Excused \/ Settled)

LEMMA OnceInit == NettingInit => OnceInv
<1> SUFFICES ASSUME NettingInit PROVE OnceInv
  OBVIOUS
<1>1. SessionInv
  BY SessionInit
<1>2. txns = {} /\ run = [p \in Procs |-> FreshRun] /\ FreshRun.pc = "idle"
  BY DEF NettingInit, FreshRun
<1>3. \A p \in Procs : run[p].pc = "idle"
  BY <1>2
<1>4. Turns /\ \A p \in Procs : PhaseOK(p)
  BY <1>3 DEF Turns, PhaseOK, Procs
<1>5. \A kind, i : ~OnLedger(kind, i)
  BY <1>2 DEF OnLedger
<1>6. ChunksOK /\ Untouched
  BY <1>5 DEF ChunksOK, Untouched
<1> QED BY <1>1, <1>4, <1>6 DEF OnceInv, Settled

LEMMA OnceNext ==
  ASSUME ~Overlap
  PROVE  OnceInv /\ [NettingNext]_nettingVars => OnceInv'
<1> SUFFICES ASSUME OnceInv, [NettingNext]_nettingVars PROVE OnceInv'
  OBVIOUS
<1>0. SessionInv /\ Turns /\ (Excused \/ Settled)
  BY DEF OnceInv
<1>1. SessionInv'
  BY <1>0, SessionNext
<1> DEFINE Kept == Turns' /\ (Excused' \/ Settled')
<1>2. CASE \E p \in Procs : SettleStep(p)
  <2>1. PICK p \in Procs : SettleStep(p)
    BY <1>2
  <2>2. Kept
    BY <1>0, <2>1, PostChunkSettled, PostChunkFailsSettled, CompensateSettled, ReplaySettled,
       ReleaseSettled, ReportSettled, FailsSettled, RefundSettled, CrashSettled DEF SettleStep
  <2> QED BY <1>1, <2>2 DEF OnceInv
<1>3. CASE \/ \E o \in Orders : Enqueue(o) \/ PurchaseRefused(o) \/ Purchase(o)
           \/ GrantItem \/ RecordThrows \/ Record \/ UndoGrant \/ RecordFlush \/ RecordFlushFails \/ Accept
           \/ LaneSettleFails
  BY <1>0, <1>1, <1>3, LaneSettled DEF OnceInv
<1>4. CASE LaneSettle
  BY <1>0, <1>1, <1>4, LaneSettleSettled DEF OnceInv
<1>5. CASE RevokeRefused \/ ReleaseHolds \/ EmitSettled \/ CloseLane
  BY <1>0, <1>1, <1>5, BackstopSettled DEF OnceInv
<1>6. CASE SweepOrphan \/ Failover \/ PruneSettled \/ RefundsDone
  BY <1>0, <1>1, <1>6, RecoverySettled DEF OnceInv
<1>7. CASE MainLaneSpend \/ MainLaneTopUp
  BY <1>0, <1>1, <1>7, MainLaneSettled DEF OnceInv
<1>8. CASE UNCHANGED nettingVars
  <2>1. UNCHANGED <<txns, journal, lane, run, used>>
    BY <1>8 DEF nettingVars, ledger
  <2>2. SettlementKept /\ (Waiting' => Waiting) /\ Turns' /\ used.failed \subseteq used'.failed
    BY <1>0, <2>1 DEF SettlementKept, Waiting, Turns
  <2> QED BY <1>0, <1>1, <2>1, <2>2, SameSettled DEF OnceInv
<1> QED BY <1>2, <1>3, <1>4, <1>5, <1>6, <1>7, <1>8 DEF NettingNext

(* Whoever finishes the session and wherever it was left, the net of it is posted *)
(* or its movements are, never both: settle() of src/src/netting.ts, for every    *)
(* journal that settles in at most two chunks and every interleaving of crashes,  *)
(* refusals and recoveries in which no settle is run again after a failed call.   *)
(* A recovery waits for its owner, as the orphan sweep's age bound intends.       *)
THEOREM SettledOnce ==
  ASSUME ~Overlap
  PROVE  NettingSpec => []FinalOnceUnlessRetried
<1>1. OnceInv => FinalOnceUnlessRetried
  <2> SUFFICES ASSUME OnceInv, Settled PROVE FinalOnce
    BY DEF OnceInv, Excused, FinalOnceUnlessRetried
  <2> SUFFICES ASSUME NEW k \in DOMAIN journal, <<"mv", k>> \in txns,
                      NEW i \in 0..ChunkCount(journal) - 1, Effective(i)
               PROVE  FALSE
    BY DEF FinalOnce
  <2>1. journal \in Seq(Row)
    BY ShapesAre DEF OnceInv, SessionInv
  <2>2. k \in Int /\ i \in Int
    <3>1. ChunkCount(journal) \in Nat
      BY <2>1, ChunksGrow, EmptySeq
    <3> QED BY <2>1, <3>1, LenProperties
  <2>3. NoneStands
    BY <2>2 DEF Settled, ChunksOK, OnLedger
  <2> QED BY <2>2, <2>3 DEF NoneStands, OnLedger, Effective
<1>2. NettingSpec => []OnceInv
  BY OnceInit, OnceNext, PTL DEF NettingSpec
<1> QED BY <1>1, <1>2, PTL


(***************************************************************************)
(* The settled event is true.                                              *)
(***************************************************************************)

(* Every movement is some buyer's. *)
LEMMA SpentAll ==
  ASSUME NEW j \in Seq(Row)
  PROVE  Total([b \in Buyers |-> Spent(j, b)], Buyers) = Len(j)
<1> DEFINE n == Len(j)
           g(i) == [b \in Buyers |-> Given(j, i, b)]
           C == {i \in 0..n : Total(g(i + 1), Buyers) # i}
<1>1. n \in Nat /\ IsFiniteSet(Buyers)
  BY LenProperties, NettingAssumption
<1>0. /\ \A i \in 1..n + 1, b \in Buyers : Given(j, i, b) \in Nat
      /\ \A b \in Buyers : Given(j, 1, b) = 0 /\ Given(j, n + 1, b) = Spent(j, b)
  <2>1. 1 \in 1..Len(j) + 1 /\ n + 1 \in 1..Len(j) + 1
    BY <1>1
  <2>2. \A i \in 1..n + 1, b \in Buyers : Given(j, i, b) \in Nat
    <3> TAKE i \in 1..n + 1, b \in Buyers
    <3>1. i \in 1..Len(j) + 1
      OBVIOUS
    <3> QED BY <3>1, GivenParts
  <2> QED BY <2>1, <2>2, GivenParts
<1>2. \A i \in 1..n + 1 : Ints(g(i), Buyers)
  <2> SUFFICES ASSUME NEW i \in 1..n + 1, NEW b \in Buyers PROVE g(i)[b] \in Int
    BY DEF Ints
  <2> QED BY <1>0
<1>3. C = {}
  <2> SUFFICES ASSUME C # {} PROVE FALSE
    OBVIOUS
  <2>1. C \subseteq Nat
    BY <1>1
  <2>2. PICK i \in C : i # 0 => i - 1 \in Nat \ C
    <3> HIDE DEF C
    <3> QED BY <2>1, FirstOf
  <2>3. i \in 0..n /\ Total(g(i + 1), Buyers) # i
    BY <2>2
  <2>4. CASE i = 0
    <3>1. \A b \in Buyers : g(1)[b] = 0
      BY <1>0
    <3>2. Total(g(1), Buyers) = 0
      <4> HIDE DEF g
      <4> QED BY <1>1, <3>1, TotalZero
    <3> QED BY <2>3, <2>4, <3>2
  <2>5. CASE i # 0
    <3>1. i \in 1..n /\ i - 1 \in 0..n /\ i - 1 + 1 = i
      BY <1>1, <2>3, <2>5
    <3>2. Total(g(i), Buyers) = i - 1
      BY <2>2, <2>5, <3>1
    <3> DEFINE x == BuyerOf[j[i].order]
    <3>3. x \in Buyers
      <4>1. j[i] \in Row
        BY <1>1, <3>1
      <4> QED BY <4>1, NettingAssumption DEF Row
    <3>4. \A b \in Buyers : g(i + 1)[b] = IF b = x THEN g(i)[b] + 1 ELSE g(i)[b]
      <4> TAKE b \in Buyers
      <4>1. Given(j, i + 1, b) = Given(j, i, b) + (IF x = b THEN 1 ELSE 0)
        BY <3>1, GivenNext
      <4>2. Given(j, i, b) \in Nat
        <5>1. i \in 1..n + 1
          BY <1>1, <3>1
        <5> QED BY <1>0, <5>1
      <4> QED BY <4>1, <4>2
    <3>5. Ints(g(i), Buyers)
      BY <1>2, <3>1
    <3>6. Total(g(i + 1), Buyers) = Total(g(i), Buyers) + 1
      <4> DEFINE G == g(i)
                 H == g(i + 1)
      <4>1. Ints(G, Buyers) /\ \A b \in Buyers : H[b] = IF b = x THEN G[b] + 1 ELSE G[b]
        BY <3>4, <3>5
      <4> HIDE DEF G, H, x
      <4>2. Total(H, Buyers) = Total(G, Buyers) + 1
        BY <1>1, <3>3, <4>1, TotalShift
      <4> QED BY <4>2 DEF G, H
    <3> QED BY <2>3, <3>1, <3>2, <3>6
  <2> QED BY <2>4, <2>5
<1>4. Total(g(n + 1), Buyers) = n
  <2>1. n \in 0..n
    BY <1>1
  <2> HIDE DEF g, n
  <2> QED BY <1>3, <2>1
<1>5. \A b \in Buyers : g(n + 1)[b] = Spent(j, b)
  BY <1>0
<1>6. Total(g(n + 1), Buyers) = Total([b \in Buyers |-> Spent(j, b)], Buyers)
  <2> DEFINE G == g(n + 1)
             H == [b \in Buyers |-> Spent(j, b)]
  <2>1. \A b \in Buyers : G[b] = H[b]
    BY <1>5
  <2> HIDE DEF G, H
  <2>2. Total(G, Buyers) = Total(H, Buyers)
    BY <1>1, <2>1, TotalSame
  <2> QED BY <2>2 DEF G, H
<1> QED BY <1>4, <1>6

ChunkOf(j, a) == Place(j, a) \div ChunkWidth

(* The places of a net's accounts are numbered from zero without a gap past the end. *)
LEMMA PlacesAre ==
  ASSUME NEW j \in Seq(Row), NEW a \in Positions(j)
  PROVE  /\ IsFiniteSet(Positions(j)) /\ Cardinality(Positions(j)) \in Nat
         /\ Place(j, a) \in Nat /\ Place(j, a) + 1 <= Cardinality(Positions(j))
         /\ Place(j, "shop") = 1
<1> DEFINE P == Positions(j)
           B == {BuyerOf[o] : o \in Movements(j)}
<1>1. j # << >> /\ P = {"shop"} \cup B
  BY DEF Positions
<1>2. \A k \in DOMAIN j : j[k] \in Row /\ BuyerOf[j[k].order] \in B /\ BuyerOf[j[k].order] \in Buyers
  <2>1. \A k \in DOMAIN j : j[k] \in Row
    OBVIOUS
  <2> QED BY <2>1, NettingAssumption DEF Movements, Row
<1>3. B \subseteq Buyers /\ "shop" \notin B
  <2>1. \A b \in B : \E k \in DOMAIN j : b = BuyerOf[j[k].order]
    <3> SUFFICES ASSUME NEW o \in Movements(j) PROVE \E k \in DOMAIN j : BuyerOf[o] = BuyerOf[j[k].order]
      OBVIOUS
    <3> QED BY DEF Movements
  <2>2. B \subseteq Buyers
    <3> SUFFICES ASSUME NEW b \in B PROVE b \in Buyers
      OBVIOUS
    <3>1. PICK k \in DOMAIN j : b = BuyerOf[j[k].order]
      BY <2>1
    <3> HIDE DEF B
    <3> QED BY <1>2, <3>1
  <2> QED BY <2>2, NettingAssumption
<1>4. IsFiniteSet(B) /\ Cardinality(B) \in Nat
  BY <1>3, NettingAssumption, FS_Subset, FS_CardinalityType
<1>5. B # {}
  <2>1. 1 \in DOMAIN j
    BY <1>1, EmptySeq, LenProperties
  <2> QED BY <1>2, <2>1
<1> HIDE DEF B
<1>6. Cardinality(B) >= 1
  BY <1>4, <1>5, FS_EmptySet
<1>7. IsFiniteSet(P) /\ Cardinality(P) = Cardinality(B) + 1
  <2>1. P = B \cup {"shop"}
    BY <1>1
  <2> HIDE DEF P
  <2> QED BY <1>3, <1>4, <2>1, FS_AddElement
<1>8. Place(j, "shop") = 1
  BY DEF Place
<1>9. CASE a = "shop"
  BY <1>4, <1>6, <1>7, <1>8, <1>9
<1>10. CASE a # "shop"
  <2>1. a \in B
    BY <1>1, <1>10
  <2>2. Earlier(j, a) \subseteq B \ {a}
    <3> SUFFICES ASSUME NEW c \in Earlier(j, a) PROVE c \in B /\ c # a
      OBVIOUS
    <3>1. PICK k \in Buys(j, c) : \A n \in Buys(j, a) : k < n
      BY DEF Earlier
    <3>2. k \in DOMAIN j /\ BuyerOf[j[k].order] = c /\ k \in Int
      BY LenProperties DEF Buys
    <3>3. c # a
      BY <3>1, <3>2
    <3> QED BY <1>2, <3>2, <3>3
  <2>3. IsFiniteSet(B \ {a}) /\ Cardinality(B \ {a}) = Cardinality(B) - 1
    BY <1>4, <2>1, FS_RemoveElement
  <2>4. Cardinality(Earlier(j, a)) \in Nat /\ Cardinality(Earlier(j, a)) <= Cardinality(B) - 1
    BY <2>2, <2>3, FS_Subset, FS_CardinalityType
  <2>5. Place(j, a) = IF Earlier(j, a) = {} THEN 0 ELSE Cardinality(Earlier(j, a)) + 1
    BY <1>10 DEF Place
  <2> QED BY <1>4, <1>6, <1>7, <1>8, <2>4, <2>5
<1> QED BY <1>9, <1>10


(* Every account of a net is in one of its chunks. *)
LEMMA ChunksCover ==
  ASSUME NEW j \in Seq(Row), NEW a \in Positions(j)
  PROVE  ChunkCount(j) \in Nat /\ ChunkOf(j, a) \in 0..ChunkCount(j) - 1
<1> DEFINE m == Place(j, a)
           n == Cardinality(Positions(j))
           w == ChunkWidth
<1>1. m \in Nat /\ n \in Nat /\ m + 1 <= n /\ w \in Nat \ {0}
  BY PlacesAre, NettingAssumption
<1> HIDE DEF m, n, w
<1>2. m + w \in Nat /\ m + w <= n + w - 1 /\ n + w - 1 \in Nat
  BY <1>1
<1>3. (m + w) \div w = (m \div w) + 1 /\ m \div w \in Nat
  <2>1. m \div w \in Nat
    BY <1>1, Quotients
  <2>2. (m + w) \div w \in Nat
    BY <1>1, <1>2, Quotients
  <2>3. m = w * (m \div w) + (m % w) /\ m % w \in 0..w - 1
    BY <1>1
  <2>4. m + w = w * ((m + w) \div w) + ((m + w) % w) /\ (m + w) % w \in 0..w - 1
    BY <1>1, <1>2
  <2> DEFINE c == m \div w
             d == (m + w) \div w
             r == m % w
             u == (m + w) % w
  <2>5. c \in Nat /\ d \in Nat /\ r \in 0..w - 1 /\ u \in 0..w - 1 /\ m = w * c + r /\ m + w = w * d + u
    BY <2>1, <2>2, <2>3, <2>4
  <2> HIDE DEF c, d, r, u
  <2>6. d = c + 1
    <3>1. w * c + r + w = w * d + u
      BY <1>1, <2>5
    <3>2. ~(d <= c)
      <4> SUFFICES ASSUME d <= c PROVE FALSE
        OBVIOUS
      <4>1. w * d <= w * c
        BY <1>1, <2>5
      <4> QED BY <1>1, <2>5, <3>1, <4>1
    <3>3. ~(c + 2 <= d)
      <4> SUFFICES ASSUME c + 2 <= d PROVE FALSE
        OBVIOUS
      <4>1. w * (c + 2) <= w * d
        BY <1>1, <2>5
      <4>2. w * (c + 2) = w * c + w + w
        BY <1>1, <2>5
      <4> QED BY <1>1, <2>5, <3>1, <4>1, <4>2
    <3> QED BY <2>5, <3>2, <3>3
  <2> QED BY <2>1, <2>6 DEF c, d
<1>4. (m + w) \div w <= (n + w - 1) \div w /\ (n + w - 1) \div w \in Nat
  BY <1>1, <1>2, Quotients
<1>5. ChunkCount(j) = (n + w - 1) \div w /\ ChunkOf(j, a) = m \div w
  BY DEF ChunkCount, ChunkOf, m, n, w
<1> QED BY <1>3, <1>4, <1>5

(* What clearing holds once the chunks before i are posted. *)
Debited(j, i) == [b \in Buyers |-> IF b \in Positions(j) /\ ChunkOf(j, b) < i THEN Spent(j, b) ELSE 0]
Cleared(j, i) == Total(Debited(j, i), Buyers)
                   - (IF "shop" \in Positions(j) /\ ChunkOf(j, "shop") < i THEN Len(j) ELSE 0)

LEMMA ClearedSteps ==
  ASSUME NEW j \in Seq(Row)
  PROVE  /\ \A i \in Int : /\ Cleared(j, i) \in Int
                           /\ Debits(j, i) \in [Buyers -> Nat] /\ Credits(j, i) \in Nat
                           /\ Total(Debits(j, i), Buyers) \in Int
                           /\ Cleared(j, i + 1) = Cleared(j, i) + Total(Debits(j, i), Buyers) - Credits(j, i)
         /\ Cleared(j, 0) = 0 /\ Cleared(j, ChunkCount(j)) = 0
<1>1. /\ IsFiniteSet(Buyers) /\ Len(j) \in Nat
      /\ \A b \in Buyers : Spent(j, b) \in Nat
  BY NettingAssumption, LenProperties, BuysAre
<1>2. \A a \in Positions(j) : ChunkOf(j, a) \in Nat /\ ChunkOf(j, a) < ChunkCount(j) /\ ChunkCount(j) \in Nat
  BY ChunksCover
<1>3. ASSUME NEW i \in Int
      PROVE  /\ Cleared(j, i) \in Int
             /\ Debits(j, i) \in [Buyers -> Nat] /\ Credits(j, i) \in Nat
             /\ Total(Debits(j, i), Buyers) \in Int
             /\ Cleared(j, i + 1) = Cleared(j, i) + Total(Debits(j, i), Buyers) - Credits(j, i)
  <2> DEFINE f == Debited(j, i)
             g == Debits(j, i)
             h == Debited(j, i + 1)
             s == IF "shop" \in Positions(j) /\ ChunkOf(j, "shop") < i THEN Len(j) ELSE 0
             u == IF "shop" \in Positions(j) /\ ChunkOf(j, "shop") < i + 1 THEN Len(j) ELSE 0
  <2>1. \A a \in Positions(j) : a \in Chunk(j, i) <=> ChunkOf(j, a) = i
    BY DEF Chunk, ChunkOf
  <2>2. Chunk(j, i) \subseteq Positions(j)
    BY DEF Chunk
  <2>3. \A b \in Buyers : f[b] \in Nat /\ g[b] \in Nat /\ h[b] = f[b] + g[b]
    <3> TAKE b \in Buyers
    <3>1. f[b] = (IF b \in Positions(j) /\ ChunkOf(j, b) < i THEN Spent(j, b) ELSE 0)
          /\ g[b] = (IF b \in Chunk(j, i) THEN Spent(j, b) ELSE 0)
          /\ h[b] = (IF b \in Positions(j) /\ ChunkOf(j, b) < i + 1 THEN Spent(j, b) ELSE 0)
      BY DEF Debited, Debits
    <3>2. CASE b \in Positions(j)
      <4>1. ChunkOf(j, b) \in Nat /\ (b \in Chunk(j, i) <=> ChunkOf(j, b) = i) /\ Spent(j, b) \in Nat
        BY <1>1, <1>2, <2>1, <3>2
      <4> HIDE DEF f, g, h
      <4> QED BY <3>1, <3>2, <4>1
    <3>3. CASE b \notin Positions(j)
      <4> HIDE DEF f, g, h
      <4> QED BY <2>2, <3>1, <3>3
    <3> QED BY <3>2, <3>3
  <2>4. g \in [Buyers -> Nat]
    BY <2>3 DEF Debits
  <2>5. s \in Nat /\ u \in Nat /\ Credits(j, i) \in Nat /\ u = s + Credits(j, i)
    <3>1. "shop" \in Positions(j) => ChunkOf(j, "shop") \in Nat /\ ("shop" \in Chunk(j, i) <=> ChunkOf(j, "shop") = i)
      BY <1>2, <2>1
    <3>2. Credits(j, i) = IF "shop" \in Chunk(j, i) THEN Len(j) ELSE 0
      BY DEF Credits
    <3> DEFINE c == ChunkOf(j, "shop")
               v == Credits(j, i)
               n == Len(j)
    <3>4. CASE "shop" \in Positions(j)
      <4>1. /\ v = IF c = i THEN n ELSE 0
            /\ s = IF c < i THEN n ELSE 0
            /\ u = IF c < i + 1 THEN n ELSE 0
            /\ n \in Nat /\ c \in Nat
        BY <1>1, <3>1, <3>2, <3>4
      <4> HIDE DEF c, v, n, s, u
      <4>2. s \in Nat /\ u \in Nat /\ v \in Nat /\ u = s + v
        BY <4>1
      <4> QED BY <4>2 DEF v
    <3>5. CASE "shop" \notin Positions(j)
      <4>1. v = 0 /\ s = 0 /\ u = 0
        BY <2>2, <3>2, <3>5
      <4> HIDE DEF c, v, n, s, u
      <4>2. s \in Nat /\ u \in Nat /\ v \in Nat /\ u = s + v
        BY <4>1
      <4> QED BY <4>2 DEF v
    <3> QED BY <3>4, <3>5
  <2>6. Cleared(j, i) = Total(f, Buyers) - s /\ Cleared(j, i + 1) = Total(h, Buyers) - u
    BY DEF Cleared
  <2> HIDE DEF f, g, h, s, u
  <2>7. Ints(f, Buyers) /\ Ints(g, Buyers) /\ \A b \in Buyers : h[b] = f[b] + g[b]
    BY <2>3 DEF Ints
  <2>8. Total(f, Buyers) \in Int /\ Total(g, Buyers) \in Int /\ Total(h, Buyers) = Total(f, Buyers) + Total(g, Buyers)
    BY <1>1, <2>7, TotalType, TotalPlus
  <2> QED BY <2>4, <2>5, <2>6, <2>8 DEF g
<1>4. Cleared(j, 0) = 0
  <2> DEFINE f == Debited(j, 0)
  <2>1. \A b \in Buyers : f[b] = 0
    BY <1>2 DEF Debited
  <2>2. ~("shop" \in Positions(j) /\ ChunkOf(j, "shop") < 0)
    BY <1>2
  <2> HIDE DEF f
  <2>3. Total(f, Buyers) = 0
    BY <1>1, <2>1, TotalZero
  <2> QED BY <2>2, <2>3 DEF f, Cleared
<1>5. Cleared(j, ChunkCount(j)) = 0
  <2> DEFINE f == Debited(j, ChunkCount(j))
             g == [b \in Buyers |-> Spent(j, b)]
  <2>1. \A b \in Buyers : f[b] = g[b]
    <3> TAKE b \in Buyers
    <3>1. CASE b \in Positions(j)
      BY <1>2, <3>1 DEF Debited
    <3>2. CASE b \notin Positions(j)
      <4>1. \A k \in DOMAIN j : BuyerOf[j[k].order] # b
        BY <3>2 DEF Positions, Movements
      <4>2. Buys(j, b) = {}
        BY <4>1 DEF Buys
      <4>3. Spent(j, b) = 0
        BY <4>2, FS_EmptySet DEF Spent
      <4> QED BY <3>2, <4>3 DEF Debited
    <3> QED BY <3>1, <3>2
  <2>2. (IF "shop" \in Positions(j) /\ ChunkOf(j, "shop") < ChunkCount(j) THEN Len(j) ELSE 0) = Len(j)
    <3>1. CASE j = << >>
      <4>1. Len(j) = 0
        BY <3>1, EmptySeq
      <4> QED BY <4>1
    <3>2. CASE j # << >>
      <4>1. "shop" \in Positions(j)
        BY <3>2 DEF Positions
      <4> QED BY <1>2, <4>1
    <3> QED BY <3>1, <3>2
  <2>3. Total(g, Buyers) = Len(j)
    BY SpentAll
  <2> HIDE DEF f, g
  <2>4. Total(f, Buyers) = Total(g, Buyers)
    BY <1>1, <2>1, TotalSame
  <2> QED BY <1>1, <2>2, <2>3, <2>4 DEF f, Cleared
<1> QED BY <1>3, <1>4, <1>5


(* What the owner has bought: an order counts once, an item is owned only when its *)
(* purchase was served or is under way, and what was accepted is on the record.    *)
BoughtBy(a, c, o, pc, g, w) ==
  /\ \A k, n \in DOMAIN a : a[k].order = a[n].order => k = n
  /\ \A x \in Movements(a) : c[x] \in {"accepted", "threw"} \/ (x = o /\ pc \in {"flush", "answer"})
  /\ pc # "open" => c[o] = None
  /\ \A x \in w : c[x] \in {"accepted", "threw"} \/ (x = o /\ pc \in {"record", "undo", "flush", "answer"})
  /\ pc \in {"record", "undo", "flush", "answer"} => o \in w
  /\ pc \in {"flush", "answer"} => o \in Movements(a)
  /\ \A x \in Orders : c[x] = "accepted" => x \in Movements(a) /\ x \in g
Bought == BoughtBy(lane.accepted, lane.outcome, lane.order, lane.pc, lane.granted, owned)

(* Unless a flush failed, what left memory is in the journal. *)
Flushed ==
  \/ Failed({"flush"})
  \/ \A k \in 1..Len(lane.accepted) - lane.pending : \E n \in DOMAIN journal : journal[n] = lane.accepted[k]

(* Only a funded buyer has an escrow or a purchase in a prefund lane. *)
Funded ==
  /\ prefund = 0 => \A b \in Buyers : escrow[b] = 0
  /\ prefund # 0 =>
       /\ \A b \in Buyers : escrow[b] # 0 => b \in lane.funded
       /\ \A o \in Movements(lane.accepted) : BuyerOf[o] \in lane.funded
       /\ lane.pc # "open" => BuyerOf[lane.order] \in lane.funded

(* A settlement that refused the orders R: clearing is flat, and either every       *)
(* chunk stands and nothing was refused, or exactly the other movements are posted. *)
Done(R) ==
  /\ clearing = 0
  /\ \/ R = {} /\ \A k \in 0..ChunkCount(journal) - 1 : Effective(k)
     \/ NoneStands /\ \A k \in DOMAIN journal : OnLedger("mv", k) <=> journal[k].order \notin R

InChunk(i) ==
  /\ i \in 0..ChunkCount(journal) - 1 /\ clearing = Cleared(journal, i)
  /\ \A k \in Int : (OnLedger("net", k) <=> k \in 0..i - 1) /\ ~OnLedger("comp", k) /\ ~OnLedger("mv", k)
InComp(i) ==
  /\ i \in -1..ChunkCount(journal) - 1 /\ clearing = Cleared(journal, i + 1)
  /\ \A k \in Int : /\ OnLedger("comp", k) => k > i
                    /\ OnLedger("net", k) => k >= 0 /\ (k <= i \/ OnLedger("comp", k))
                    /\ ~OnLedger("mv", k)
InReplay(i, R) ==
  /\ clearing = 0 /\ NoneStands
  /\ \A k \in DOMAIN journal : OnLedger("mv", k) <=> (k < i /\ journal[k].order \notin R)
  /\ \A o \in R : \E k \in DOMAIN journal : k < i /\ journal[k].order = o

Stage(r) ==
  /\ r.pc \in {"idle", "chunk", "comp"} => r.rejected = {}
  /\ r.pc = "chunk" => InChunk(r.i)
  /\ r.pc = "comp" => InComp(r.i)
  /\ r.pc = "mv" => InReplay(r.i, r.rejected)
  /\ r.pc \in {"claim", "give", "done"} => Done(r.rejected)

Unreported(r) ==
  /\ refused = {} /\ r.owes = {} /\ \A b \in Buyers : ~OnLedger("refund", b)
  /\ \A o \in Orders : lane.outcome[o] = "accepted" => o \in owned
  /\ r.pc = "idle" => Untouched /\ clearing = 0 /\ ~r.settled
  /\ r.pc # "idle" => lane.pending = 0
  /\ Stage(r)

Closing(r) ==
  /\ r.pc \in {"idle", "revoke", "holds", "refund", "post", "emit"}
  /\ \A b \in Buyers : OnLedger("refund", b) => escrow[b] = 0
  /\ \A o \in Orders : lane.outcome[o] = "accepted" /\ o \notin refused => o \in owned
  /\ r.pc = "revoke" => r.owes \subseteq refused
  /\ r.pc \in {"revoke", "holds", "refund", "post", "emit"} =>
       \A o \in refused \cap lane.granted : o \in owned => (r.pc = "revoke" /\ o \in r.owes)
  /\ r.pc \in {"refund", "post"} => \A b \in Buyers : escrow[b] = 0 \/ b \in r.owes
  /\ r.pc = "post" => r.amount = escrow[r.buyer]
  /\ r.pc = "emit" => \A b \in Buyers : escrow[b] = 0

Reported(r) == lane.pc = "open" /\ lane.pending = 0 /\ Done(refused) /\ Closing(r)

(* The owner is at work, nothing went wrong that excuses it and nobody came late. *)
Good == lane.up /\ ~lane.closed /\ lane.late = {} /\ ~SettleRetried
Progress(r) == ~r.forced /\ (IF lane.reported THEN Reported(r) ELSE Unreported(r))
EventInv == Good => Bought /\ Flushed /\ Funded /\ Progress(run["lane"])


(* The fields of the lane's memory that the settled event is about. *)
Now(a, c, o, pc, g, n, f) ==
  /\ lane'.accepted = a /\ lane'.outcome = c /\ lane'.order = o /\ lane'.pc = pc
  /\ lane'.granted = g /\ lane'.pending = n /\ lane'.funded = f
  /\ lane'.up = lane.up /\ lane'.closed = lane.closed /\ lane'.reported = lane.reported
  /\ lane.late \subseteq lane'.late
Stays == Now(lane.accepted, lane.outcome, lane.order, lane.pc, lane.granted, lane.pending, lane.funded)

(* What an order's answer leaves in memory. *)
LEMMA Answered ==
  ASSUME lane \in Lane, NEW o \in Orders, NEW x \in Outcomes, NEW n, NEW g,
         lane' = [Answer(o, x) EXCEPT !.pending = n, !.granted = g]
  PROVE  Now(lane.accepted, [lane.outcome EXCEPT ![o] = x], None, "open", g, n, lane.funded)
BY DEF Now, Lane, Answer

LEMMA LaneNow ==
  ASSUME NettingTyped, NEW o \in Orders
  PROVE  /\ Enqueue(o) => Stays
         /\ PurchaseRefused(o) =>
              Now(lane.accepted, [lane.outcome EXCEPT ![o] = "rejected"], None, "open",
                  lane.granted, lane.pending, lane.funded)
         /\ Purchase(o) =>
              Now(lane.accepted, lane.outcome, o, "grant", lane.granted, lane.pending,
                  IF prefund > 0 THEN lane.funded \cup {BuyerOf[o]} ELSE lane.funded)
              /\ (lane.reported => o \in lane'.late)
         /\ GrantItem =>
              Now(lane.accepted, lane.outcome, lane.order, "record", lane.granted, lane.pending, lane.funded)
         /\ UndoGrant =>
              Now(lane.accepted, [lane.outcome EXCEPT ![lane.order] = "rejected"], None, "open",
                  lane.granted, lane.pending, lane.funded)
         /\ RecordFlush =>
              Now(lane.accepted, lane.outcome, lane.order, "answer", lane.granted, 0, lane.funded)
         /\ RecordFlushFails =>
              Now(lane.accepted, [lane.outcome EXCEPT ![lane.order] = "threw"], None, "open",
                  lane.granted, 0, lane.funded)
         /\ Accept =>
              Now(lane.accepted, [lane.outcome EXCEPT ![lane.order] = "accepted"], None, "open",
                  lane.granted \cup {lane.order}, lane.pending, lane.funded)
         /\ LaneSettleFails =>
              Now(lane.accepted, lane.outcome, lane.order, lane.pc, lane.granted, 0, lane.funded)
<1>0. /\ lane \in Lane /\ (lane.pc # "open" => lane.order \in Orders)
      /\ {"rejected", "threw", "accepted"} \subseteq Outcomes
  BY DEF NettingTyped, Memory, Outcomes
<1>1. ASSUME Enqueue(o) PROVE Stays
  BY <1>0, <1>1 DEF Enqueue, Stays, Now, Lane
<1>2. ASSUME NEW y \in Orders, NEW x \in Outcomes, lane' = Answer(y, x)
      PROVE  Now(lane.accepted, [lane.outcome EXCEPT ![y] = x], None, "open",
                 lane.granted, lane.pending, lane.funded)
  BY <1>0, <1>2 DEF Now, Lane, Answer
<1>3. ASSUME PurchaseRefused(o)
      PROVE  Now(lane.accepted, [lane.outcome EXCEPT ![o] = "rejected"], None, "open",
                 lane.granted, lane.pending, lane.funded)
  BY <1>0, <1>2, <1>3 DEF PurchaseRefused
<1>4. ASSUME Purchase(o)
      PROVE  /\ Now(lane.accepted, lane.outcome, o, "grant", lane.granted, lane.pending,
                    IF prefund > 0 THEN lane.funded \cup {BuyerOf[o]} ELSE lane.funded)
             /\ (lane.reported => o \in lane'.late)
  <2> DEFINE b == BuyerOf[o]
             funds == prefund > 0 /\ b \notin lane.funded
             f == IF funds THEN lane.funded \cup {b} ELSE lane.funded
             h == [lane.held EXCEPT ![b] = IF prefund = 0 /\ lane.held[b] = -1 THEN ImmaturePart(b) ELSE lane.held[b]]
             t == IF lane.reported THEN lane.late \cup {o} ELSE lane.late
  <2>1. lane' = [lane EXCEPT !.pc = "grant", !.order = o, !.funded = f, !.held = h, !.late = t]
    BY <1>0, <1>4 DEF Purchase, Lane
  <2>2. lane.late \subseteq t /\ (lane.reported => o \in t)
    OBVIOUS
  <2>3. f = IF prefund > 0 THEN lane.funded \cup {b} ELSE lane.funded
    OBVIOUS
  <2> HIDE DEF f, h, t
  <2>4. Now(lane.accepted, lane.outcome, o, "grant", lane.granted, lane.pending, f) /\ lane'.late = t
    BY <1>0, <2>1, <2>2 DEF Now, Lane
  <2> QED BY <2>2, <2>3, <2>4
<1>5. ASSUME GrantItem
      PROVE  Now(lane.accepted, lane.outcome, lane.order, "record", lane.granted, lane.pending, lane.funded)
  BY <1>0, <1>5 DEF GrantItem, Now, Lane
<1>6. ASSUME UndoGrant
      PROVE  Now(lane.accepted, [lane.outcome EXCEPT ![lane.order] = "rejected"], None, "open",
                 lane.granted, lane.pending, lane.funded)
  <2>1. lane.order \in Orders /\ lane' = Answer(lane.order, "rejected")
    BY <1>0, <1>6 DEF UndoGrant
  <2> QED BY <1>0, <1>2, <2>1
<1>7. ASSUME RecordFlush
      PROVE  Now(lane.accepted, lane.outcome, lane.order, "answer", lane.granted, 0, lane.funded)
  BY <1>0, <1>7 DEF RecordFlush, Now, Lane
<1>8. ASSUME RecordFlushFails
      PROVE  Now(lane.accepted, [lane.outcome EXCEPT ![lane.order] = "threw"], None, "open",
                 lane.granted, 0, lane.funded)
  <2>1. lane.order \in Orders /\ lane' = [Answer(lane.order, "threw") EXCEPT !.pending = 0]
    BY <1>0, <1>8 DEF RecordFlushFails
  <2>2. [Answer(lane.order, "threw") EXCEPT !.pending = 0]
          = [Answer(lane.order, "threw") EXCEPT !.pending = 0, !.granted = lane.granted]
    BY <1>0 DEF Answer, Lane
  <2> QED BY <1>0, <2>1, <2>2, Answered
<1>9. ASSUME Accept
      PROVE  Now(lane.accepted, [lane.outcome EXCEPT ![lane.order] = "accepted"], None, "open",
                 lane.granted \cup {lane.order}, lane.pending, lane.funded)
  <2>1. lane.order \in Orders
        /\ lane' = [Answer(lane.order, "accepted") EXCEPT !.granted = @ \cup {lane.order}]
    BY <1>0, <1>9 DEF Accept
  <2>2. [Answer(lane.order, "accepted") EXCEPT !.granted = @ \cup {lane.order}]
          = [Answer(lane.order, "accepted") EXCEPT !.pending = lane.pending, !.granted = lane.granted \cup {lane.order}]
    BY <1>0 DEF Answer, Lane
  <2> QED BY <1>0, <2>1, <2>2, Answered
<1>10. ASSUME LaneSettleFails
       PROVE  Now(lane.accepted, lane.outcome, lane.order, lane.pc, lane.granted, 0, lane.funded)
  BY <1>0, <1>10 DEF LaneSettleFails, Now, Lane
<1> QED BY <1>1, <1>3, <1>4, <1>5, <1>6, <1>7, <1>8, <1>9, <1>10

LEMMA RecordNow ==
  ASSUME NettingTyped, Record
  PROVE  \/ Now(lane.accepted, lane.outcome, lane.order, "undo", lane.granted, lane.pending, lane.funded)
         \/ \E row \in Row, pc \in {"flush", "answer"} :
              row.order = lane.order
              /\ Now(Append(lane.accepted, row), lane.outcome, lane.order, pc, lane.granted,
                     lane.pending + 1, lane.funded)
<1>0. lane \in Lane /\ lane.order \in Orders /\ lane.accepted \in Seq(Row)
  BY DEF NettingTyped, Memory, Lane, Record
<1> DEFINE o == lane.order
           b == BuyerOf[o]
           opening == IF lane.opening[b] = -1 THEN Source[b] ELSE lane.opening[b]
           op == [lane.opening EXCEPT ![b] = opening]
           seen == [lane EXCEPT !.opening = op]
           row == [order |-> o, seq |-> Len(lane.accepted)]
           pc == IF lane.pending + 1 >= MaxBatch THEN "flush" ELSE "answer"
<1>1. \/ lane' = [seen EXCEPT !.pc = "undo"]
      \/ lane' = [seen EXCEPT !.accepted = Append(@, row), !.pending = @ + 1, !.pc = pc]
  BY <1>0 DEF Record, Lane
<1>2. row \in Row /\ row.order = o /\ pc \in {"flush", "answer"}
  BY <1>0, LenProperties DEF Row
<1> HIDE DEF op, row, pc
<1>3. CASE lane' = [seen EXCEPT !.pc = "undo"]
  BY <1>0, <1>3 DEF Now, Lane
<1>4. CASE lane' = [seen EXCEPT !.accepted = Append(@, row), !.pending = @ + 1, !.pc = pc]
  <2>1. Now(Append(lane.accepted, row), lane.outcome, lane.order, pc, lane.granted, lane.pending + 1, lane.funded)
    BY <1>0, <1>4 DEF Now, Lane
  <2> QED BY <1>2, <2>1
<1> QED BY <1>1, <1>3, <1>4


(***************************************************************************)
(* A purchase keeps what was bought on the record.                         *)
(***************************************************************************)

LEMMA BuyAnswered ==
  ASSUME NEW a \in Seq(Row), NEW c \in [Orders -> Outcomes], NEW o \in Orders, NEW pc, NEW g, NEW w,
         NEW p, NEW x \in {"rejected", "threw", "accepted"},
         BoughtBy(a, c, p, pc, g, w), p = o \/ pc = "open", c[o] = None,
         x = "rejected" => pc \in {"open", "undo"},
         x = "accepted" => pc = "answer",
         x = "threw" => pc = "flush"
  PROVE  BoughtBy(a, [c EXCEPT ![o] = x], None, "open",
                  IF x = "accepted" THEN g \cup {o} ELSE g, IF pc = "undo" THEN w \ {o} ELSE w)
<1> DEFINE d == [c EXCEPT ![o] = x]
           h == IF x = "accepted" THEN g \cup {o} ELSE g
           v == IF pc = "undo" THEN w \ {o} ELSE w
<1>1. (\A y \in Orders : d[y] = IF y = o THEN x ELSE c[y]) /\ Movements(a) \subseteq Orders
  <2>1. \A k \in DOMAIN a : a[k] \in Row
    OBVIOUS
  <2> QED BY <2>1 DEF Movements, Row
<1>2. h = (IF x = "accepted" THEN g \cup {o} ELSE g) /\ v = (IF pc = "undo" THEN w \ {o} ELSE w)
  OBVIOUS
<1>3. \A y : y # o => d[y] = c[y]
  OBVIOUS
<1>4. None \notin {"accepted", "threw"}
  BY DEF None
<1> HIDE DEF d, h, v
<1>5. \A y \in Movements(a) : d[y] \in {"accepted", "threw"}
  BY <1>1, <1>4 DEF BoughtBy
<1>6. \A y \in v : d[y] \in {"accepted", "threw"}
  <2> SUFFICES ASSUME NEW y \in v PROVE d[y] \in {"accepted", "threw"}
    OBVIOUS
  <2>1. y \in w /\ (pc = "undo" => y # o)
    BY <1>2
  <2>2. CASE y = o
    BY <1>1, <1>4, <2>1, <2>2 DEF BoughtBy
  <2>3. CASE y # o
    <3>1. d[y] = c[y]
      BY <1>3, <2>3
    <3>2. y # p \/ pc \notin {"record", "undo", "flush", "answer"}
      BY <2>3
    <3> QED BY <2>1, <3>1, <3>2 DEF BoughtBy
  <2> QED BY <2>2, <2>3
<1>7. \A y \in Orders : d[y] = "accepted" => y \in Movements(a) /\ y \in h
  <2> SUFFICES ASSUME NEW y \in Orders, d[y] = "accepted" PROVE y \in Movements(a) /\ y \in h
    OBVIOUS
  <2>1. CASE y = o
    <3>1. x = "accepted" /\ pc = "answer" /\ p = o
      BY <1>1, <2>1
    <3> QED BY <1>2, <2>1, <3>1 DEF BoughtBy
  <2>2. CASE y # o
    BY <1>1, <1>2, <2>2 DEF BoughtBy
  <2> QED BY <2>1, <2>2
<1>8. \A k, n \in DOMAIN a : a[k].order = a[n].order => k = n
  BY DEF BoughtBy
<1>9. BoughtBy(a, d, None, "open", h, v)
  BY <1>5, <1>6, <1>7, <1>8 DEF BoughtBy
<1> QED BY <1>9 DEF d, h, v

LEMMA BuyMoves ==
  ASSUME NEW a, NEW c, NEW o, NEW g, NEW w
  PROVE  /\ \A x : BoughtBy(a, c, o, "open", g, w) /\ c[x] = None => BoughtBy(a, c, x, "grant", g, w)
         /\ BoughtBy(a, c, o, "grant", g, w) => BoughtBy(a, c, o, "record", g, w \cup {o})
         /\ BoughtBy(a, c, o, "record", g, w) => BoughtBy(a, c, o, "undo", g, w)
         /\ BoughtBy(a, c, o, "flush", g, w) => BoughtBy(a, c, o, "answer", g, w)
BY DEF BoughtBy

LEMMA BuyRecorded ==
  ASSUME NEW a \in Seq(Row), NEW c, NEW o, NEW g, NEW w, NEW row \in Row, row.order = o,
         NEW pc \in {"flush", "answer"}, BoughtBy(a, c, o, "record", g, w)
  PROVE  BoughtBy(Append(a, row), c, o, pc, g, w)
<1> DEFINE s == Append(a, row)
           n == Len(a)
<1>1. /\ n \in Nat /\ DOMAIN a = 1..n /\ DOMAIN s = 1..n + 1
      /\ s[n + 1] = row /\ \A k \in 1..n : s[k] = a[k]
  BY AppendProperties, LenProperties
<1> HIDE DEF s, n
<1>2. o \notin Movements(a)
  BY DEF BoughtBy, None
<1>3. \A k \in DOMAIN a : a[k].order # o
  BY <1>2 DEF Movements
<1>4. Movements(s) = Movements(a) \cup {o}
  <2>1. \A k \in DOMAIN s : s[k].order \in Movements(a) \cup {o}
    BY <1>1 DEF Movements
  <2>2. \A k \in DOMAIN a : a[k].order \in Movements(s)
    BY <1>1 DEF Movements
  <2>3. o \in Movements(s)
    <3>1. n + 1 \in DOMAIN s
      BY <1>1
    <3> QED BY <1>1, <3>1 DEF Movements
  <2>4. Movements(s) \subseteq Movements(a) \cup {o}
    BY <2>1 DEF Movements
  <2>5. Movements(a) \subseteq Movements(s)
    BY <2>2 DEF Movements
  <2> QED BY <2>3, <2>4, <2>5
<1>5. \A k, m \in DOMAIN s : s[k].order = s[m].order => k = m
  <2> SUFFICES ASSUME NEW k \in DOMAIN s, NEW m \in DOMAIN s, s[k].order = s[m].order PROVE k = m
    OBVIOUS
  <2>1. (k = n + 1 \/ k \in DOMAIN a) /\ (m = n + 1 \/ m \in DOMAIN a)
    BY <1>1
  <2>2. CASE k \in DOMAIN a /\ m \in DOMAIN a
    BY <1>1, <2>2 DEF BoughtBy
  <2>3. CASE ~(k \in DOMAIN a /\ m \in DOMAIN a)
    <3>1. ~(k = n + 1 /\ m \in DOMAIN a) /\ ~(m = n + 1 /\ k \in DOMAIN a)
      BY <1>1, <1>3
    <3> QED BY <2>1, <2>3, <3>1
  <2> QED BY <2>2, <2>3
<1>6. BoughtBy(s, c, o, pc, g, w)
  BY <1>4, <1>5 DEF BoughtBy
<1> QED BY <1>6 DEF s

(* The owner's purchases, one step of one of them. *)
Buying(o) ==
  \/ Enqueue(o) \/ PurchaseRefused(o) \/ Purchase(o) \/ GrantItem \/ Record \/ UndoGrant
  \/ RecordFlush \/ RecordFlushFails \/ Accept \/ LaneSettleFails

LEMMA BoughtKept ==
  ASSUME NettingTyped, Bought, NEW o \in Orders, Buying(o)
  PROVE  Bought'
<1> DEFINE a == lane.accepted
           c == lane.outcome
           p == lane.order
           g == lane.granted
<1>0. /\ a \in Seq(Row) /\ c \in [Orders -> Outcomes] /\ (lane.pc # "open" => p \in Orders)
      /\ BoughtBy(a, c, p, lane.pc, g, owned)
  BY DEF NettingTyped, Memory, Lane, Bought
<1>1. lane.pc # "open" => c[p] = None
  BY <1>0 DEF BoughtBy
<1>2. ASSUME NEW x \in {"rejected", "threw", "accepted"}, NEW y \in Orders, y = p \/ lane.pc = "open",
             x = "rejected" => lane.pc \in {"open", "undo"},
             x = "accepted" => lane.pc = "answer", x = "threw" => lane.pc = "flush", c[y] = None
      PROVE  BoughtBy(a, [c EXCEPT ![y] = x], None, "open",
                      IF x = "accepted" THEN g \cup {y} ELSE g, IF lane.pc = "undo" THEN owned \ {y} ELSE owned)
  BY <1>0, <1>2, BuyAnswered
<1> HIDE DEF a, c, p, g
<1>3. CASE Enqueue(o)
  <2>1. Now(a, c, p, lane.pc, g, lane.pending, lane.funded) /\ owned' = owned
    BY <1>3, LaneNow DEF Enqueue, Stays, a, c, p, g
  <2> QED BY <1>0, <2>1 DEF Bought, Now
<1>4. CASE PurchaseRefused(o)
  <2>1. Now(a, [c EXCEPT ![o] = "rejected"], None, "open", g, lane.pending, lane.funded) /\ owned' = owned
        /\ lane.pc = "open" /\ c[o] = None
    BY <1>4, LaneNow DEF PurchaseRefused, Turn, a, c, p, g
  <2>2. BoughtBy(a, [c EXCEPT ![o] = "rejected"], None, "open", g, owned)
    BY <1>2, <2>1
  <2> QED BY <2>1, <2>2 DEF Bought, Now
<1>5. CASE Purchase(o)
  <2>1. Now(a, c, o, "grant", g, lane.pending, IF prefund > 0 THEN lane.funded \cup {BuyerOf[o]} ELSE lane.funded)
        /\ owned' = owned /\ lane.pc = "open" /\ c[o] = None
    BY <1>5, LaneNow DEF Purchase, Turn, a, c, p, g
  <2>2. BoughtBy(a, c, o, "grant", g, owned)
    BY <1>0, <2>1, BuyMoves
  <2> QED BY <2>1, <2>2 DEF Bought, Now
<1>6. CASE GrantItem
  <2>1. Now(a, c, p, "record", g, lane.pending, lane.funded) /\ owned' = owned \cup {p} /\ lane.pc = "grant"
    BY <1>6, LaneNow DEF GrantItem, a, c, p, g
  <2>2. BoughtBy(a, c, p, "record", g, owned \cup {p})
    BY <1>0, <2>1, BuyMoves
  <2> QED BY <2>1, <2>2 DEF Bought, Now
<1>7. CASE Record
  <2>1. owned' = owned /\ lane.pc = "record"
    BY <1>7 DEF Record
  <2>2. \/ Now(a, c, p, "undo", g, lane.pending, lane.funded)
        \/ \E row \in Row, pc \in {"flush", "answer"} :
             row.order = p /\ Now(Append(a, row), c, p, pc, g, lane.pending + 1, lane.funded)
    BY <1>7, RecordNow DEF a, c, p, g
  <2>3. CASE Now(a, c, p, "undo", g, lane.pending, lane.funded)
    <3>1. BoughtBy(a, c, p, "undo", g, owned)
      BY <1>0, <2>1, BuyMoves
    <3> QED BY <2>1, <2>3, <3>1 DEF Bought, Now
  <2>4. ASSUME NEW row \in Row, NEW pc \in {"flush", "answer"}, row.order = p,
               Now(Append(a, row), c, p, pc, g, lane.pending + 1, lane.funded)
        PROVE  Bought'
    <3>1. BoughtBy(a, c, p, "record", g, owned)
      BY <1>0, <2>1
    <3>2. BoughtBy(Append(a, row), c, p, pc, g, owned)
      BY <1>0, <2>4, <3>1, BuyRecorded
    <3> QED BY <2>1, <2>4, <3>2 DEF Bought, Now
  <2> QED BY <2>2, <2>3, <2>4
<1>8. CASE UndoGrant
  <2>1. Now(a, [c EXCEPT ![p] = "rejected"], None, "open", g, lane.pending, lane.funded)
        /\ owned' = owned \ {p} /\ lane.pc = "undo"
    BY <1>8, LaneNow DEF UndoGrant, a, c, p, g
  <2>2. BoughtBy(a, [c EXCEPT ![p] = "rejected"], None, "open", g, owned \ {p})
    BY <1>0, <1>1, <1>2, <2>1
  <2> QED BY <2>1, <2>2 DEF Bought, Now
<1>9. CASE RecordFlush
  <2>1. Now(a, c, p, "answer", g, 0, lane.funded) /\ owned' = owned /\ lane.pc = "flush"
    BY <1>9, LaneNow DEF RecordFlush, a, c, p, g
  <2>2. BoughtBy(a, c, p, "answer", g, owned)
    BY <1>0, <2>1, BuyMoves
  <2> QED BY <2>1, <2>2 DEF Bought, Now
<1>10. CASE RecordFlushFails
  <2>1. Now(a, [c EXCEPT ![p] = "threw"], None, "open", g, 0, lane.funded)
        /\ owned' = owned /\ lane.pc = "flush"
    BY <1>10, LaneNow DEF RecordFlushFails, a, c, p, g
  <2>2. BoughtBy(a, [c EXCEPT ![p] = "threw"], None, "open", g, owned)
    BY <1>0, <1>1, <1>2, <2>1
  <2> QED BY <2>1, <2>2 DEF Bought, Now
<1>11. CASE Accept
  <2>1. Now(a, [c EXCEPT ![p] = "accepted"], None, "open", g \cup {p}, lane.pending, lane.funded)
        /\ owned' = owned /\ lane.pc = "answer"
    BY <1>11, LaneNow DEF Accept, a, c, p, g
  <2>2. BoughtBy(a, [c EXCEPT ![p] = "accepted"], None, "open", g \cup {p}, owned)
    BY <1>0, <1>1, <1>2, <2>1
  <2> QED BY <2>1, <2>2 DEF Bought, Now
<1>12. CASE LaneSettleFails
  <2>1. Now(a, c, p, lane.pc, g, 0, lane.funded) /\ owned' = owned
    BY <1>12, LaneNow DEF LaneSettleFails, a, c, p, g
  <2> QED BY <1>0, <2>1 DEF Bought, Now
<1> QED BY <1>3, <1>4, <1>5, <1>6, <1>7, <1>8, <1>9, <1>10, <1>11, <1>12 DEF Buying


(* What left memory stays in the journal. *)
LEMMA FlushedMore ==
  ASSUME NettingTyped, lane.pending <= Len(lane.accepted), Flushed, journal' = journal \o Batch,
         lane'.accepted = lane.accepted, lane'.pending = 0, used.failed \subseteq used'.failed
  PROVE  Flushed'
<1> DEFINE n == Len(lane.accepted) - lane.pending
           a == lane.accepted
<1>0. /\ a \in Seq(Row) /\ Len(a) \in Nat /\ lane.pending \in Nat /\ n \in Nat /\ Len(a) = n + lane.pending
      /\ journal \in Seq(Row) /\ Len(journal) \in Nat
  BY ShapesAre, LenProperties
<1>1. /\ Batch \in Seq(Row) /\ Len(Batch) = lane.pending
      /\ \A k \in 1..lane.pending : Batch[k] = a[n + k]
  BY BatchIs
<1>2. /\ journal \o Batch \in Seq(Row) /\ Len(journal \o Batch) = Len(journal) + lane.pending
      /\ DOMAIN journal = 1..Len(journal) /\ DOMAIN journal' = 1..Len(journal) + lane.pending
      /\ \A k \in 1..Len(journal) : journal'[k] = journal[k]
      /\ \A k \in 1..lane.pending : journal'[Len(journal) + k] = Batch[k]
  <2>1. /\ journal \o Batch \in Seq(Row) /\ Len(journal \o Batch) = Len(journal) + Len(Batch)
        /\ \A k \in 1..Len(journal) + Len(Batch) :
             (journal \o Batch)[k] = IF k <= Len(journal) THEN journal[k] ELSE Batch[k - Len(journal)]
    <3> DEFINE t == Batch
    <3>1. journal \in Seq(Row) /\ t \in Seq(Row)
      BY <1>0, <1>1
    <3> HIDE DEF t
    <3>2. /\ journal \o t \in Seq(Row) /\ Len(journal \o t) = Len(journal) + Len(t)
          /\ \A k \in 1..Len(journal) + Len(t) :
               (journal \o t)[k] = IF k <= Len(journal) THEN journal[k] ELSE t[k - Len(journal)]
      BY ONLY <3>1, ConcatProperties
    <3> QED BY <3>2 DEF t
  <2>2. DOMAIN (journal \o Batch) = 1..Len(journal) + lane.pending /\ DOMAIN journal = 1..Len(journal)
    BY <1>0, <1>1, <2>1, LenProperties
  <2>3. ASSUME NEW k \in 1..lane.pending PROVE journal'[Len(journal) + k] = Batch[k]
    <3>1. Len(journal) + k \in 1..Len(journal) + Len(Batch) /\ ~(Len(journal) + k <= Len(journal))
          /\ Len(journal) + k - Len(journal) = k
      BY <1>0, <1>1
    <3> QED BY <2>1, <3>1
  <2>4. ASSUME NEW k \in 1..Len(journal) PROVE journal'[k] = journal[k]
    <3>1. k \in 1..Len(journal) + Len(Batch) /\ k <= Len(journal)
      BY <1>0, <1>1
    <3> QED BY <2>1, <3>1
  <2> QED BY <1>1, <2>1, <2>2, <2>3, <2>4
<1>3. CASE Failed({"flush"})
  BY <1>3 DEF Failed, Flushed
<1>4. CASE \A k \in 1..n : \E m \in DOMAIN journal : journal[m] = a[k]
  <2>1. ASSUME NEW k \in 1..Len(a) PROVE \E m \in DOMAIN journal' : journal'[m] = a[k]
    <3>1. CASE k <= n
      <4>1. k \in 1..n
        BY <1>0, <3>1
      <4>2. PICK m \in DOMAIN journal : journal[m] = a[k]
        BY <1>4, <4>1
      <4>3. m \in DOMAIN journal' /\ journal'[m] = journal[m]
        BY <1>0, <1>2
      <4> QED BY <4>2, <4>3
    <3>2. CASE ~(k <= n)
      <4>1. k - n \in 1..lane.pending /\ n + (k - n) = k
        <5> DEFINE l == Len(a)
                   q == lane.pending
        <5>1. l \in Nat /\ q \in Nat /\ n \in Nat /\ l = n + q /\ k \in 1..l /\ ~(k <= n)
          BY <1>0, <3>2
        <5> HIDE DEF l, q, n
        <5>2. k - n \in 1..q /\ n + (k - n) = k
          BY <5>1
        <5> QED BY <5>2 DEF q
      <4>2. Len(journal) + (k - n) \in DOMAIN journal' /\ journal'[Len(journal) + (k - n)] = a[k]
        <5> DEFINE i == k - n
        <5>1. i \in 1..lane.pending /\ n + i = k /\ Len(journal) \in Nat /\ lane.pending \in Nat
          BY <1>0, <4>1
        <5> HIDE DEF i
        <5>2. journal'[Len(journal) + i] = Batch[i] /\ Batch[i] = a[n + i]
          BY <1>1, <1>2, <5>1
        <5>3. Len(journal) + i \in DOMAIN journal'
          BY <1>2, <5>1
        <5>4. Len(journal) + i \in DOMAIN journal' /\ journal'[Len(journal) + i] = a[k]
          BY <5>1, <5>2, <5>3
        <5> QED BY <5>4 DEF i
      <4> QED BY <4>2
    <3> QED BY <3>1, <3>2
  <2>2. lane'.accepted = a /\ Len(lane'.accepted) - lane'.pending = Len(a)
    BY <1>0
  <2> QED BY <2>1, <2>2 DEF Flushed
<1> QED BY <1>3, <1>4 DEF Flushed

LEMMA FlushedSame ==
  ASSUME Flushed, lane'.accepted = lane.accepted, lane'.pending = lane.pending, journal' = journal,
         used.failed \subseteq used'.failed
  PROVE  Flushed'
<1>1. Failed({"flush"}) => Failed({"flush"})'
  BY DEF Failed
<1> QED BY <1>1 DEF Flushed

LEMMA BuyingFails ==
  ASSUME NettingTyped, NEW o \in Orders, Buying(o)
  PROVE  /\ used.failed \subseteq used'.failed
         /\ RecordFlushFails \/ LaneSettleFails => Failed({"flush"})'
<1>1. used' = used \/ Fault("flush")
  BY DEF Buying, Enqueue, PurchaseRefused, Purchase, GrantItem, Record, UndoGrant, RecordFlush,
     RecordFlushFails, Accept, LaneSettleFails
<1>2. RecordFlushFails \/ LaneSettleFails => Fault("flush")
  BY DEF RecordFlushFails, LaneSettleFails
<1>3. used \in Used /\ "flush" \in Steps
  BY DEF NettingTyped, Memory, Steps
<1>4. used.failed \subseteq used'.failed /\ (Fault("flush") => "flush" \in used'.failed)
  BY <1>1, <1>3, FailedGrows
<1> QED BY <1>2, <1>4 DEF Failed

LEMMA FlushedKept ==
  ASSUME NettingTyped, lane.pending <= Len(lane.accepted), Flushed, NEW o \in Orders, Buying(o)
  PROVE  Flushed'
<1>0. /\ lane.accepted \in Seq(Row) /\ Len(lane.accepted) \in Nat /\ lane.pending \in Nat
      /\ used.failed \subseteq used'.failed
  BY ShapesAre, LenProperties, BuyingFails
<1>1. CASE RecordFlushFails \/ LaneSettleFails
  BY <1>1, BuyingFails DEF Flushed
<1>2. CASE RecordFlush
  <2>1. lane'.accepted = lane.accepted /\ lane'.pending = 0
    BY <1>2, LaneNow DEF Now
  <2> QED BY <1>0, <1>2, <2>1, FlushedMore DEF RecordFlush
<1>3. CASE Enqueue(o) \/ PurchaseRefused(o) \/ Purchase(o) \/ GrantItem \/ UndoGrant \/ Accept
  <2>1. lane'.accepted = lane.accepted /\ lane'.pending = lane.pending
    BY <1>3, LaneNow DEF Now, Stays
  <2>2. journal' = journal
    BY <1>3 DEF Enqueue, PurchaseRefused, Purchase, GrantItem, UndoGrant, Accept
  <2> QED BY <1>0, <2>1, <2>2, FlushedSame
<1>4. CASE Record
  <2>1. journal' = journal
    BY <1>4 DEF Record
  <2>2. CASE Now(lane.accepted, lane.outcome, lane.order, "undo", lane.granted, lane.pending, lane.funded)
    <3>1. lane'.accepted = lane.accepted /\ lane'.pending = lane.pending
      BY <2>2 DEF Now
    <3> QED BY <1>0, <2>1, <3>1, FlushedSame
  <2>3. ASSUME NEW row \in Row, NEW pc \in {"flush", "answer"},
               Now(Append(lane.accepted, row), lane.outcome, lane.order, pc, lane.granted,
                   lane.pending + 1, lane.funded)
        PROVE  Flushed'
    <3> DEFINE a == lane.accepted
               n == Len(a) - lane.pending
    <3>1. /\ lane'.accepted = Append(a, row) /\ lane'.pending = lane.pending + 1
          /\ Len(Append(a, row)) = Len(a) + 1 /\ \A k \in 1..Len(a) : Append(a, row)[k] = a[k]
      BY <1>0, <2>3, AppendProperties DEF Now
    <3>2. Len(lane'.accepted) - lane'.pending = n /\ \A k \in 1..n : lane'.accepted[k] = a[k]
      BY <1>0, <3>1
    <3>3. Failed({"flush"}) => Failed({"flush"})'
      BY <1>0 DEF Failed
    <3> QED BY <2>1, <3>2, <3>3 DEF Flushed
  <2> QED BY <1>4, <2>2, <2>3, RecordNow
<1> QED BY <1>1, <1>2, <1>3, <1>4 DEF Buying

LEMMA MovementsAppend ==
  ASSUME NEW a \in Seq(Row), NEW row \in Row
  PROVE  Movements(Append(a, row)) \subseteq Movements(a) \cup {row.order}
<1>1. /\ Len(a) \in Nat /\ DOMAIN a = 1..Len(a) /\ DOMAIN Append(a, row) = 1..Len(a) + 1
      /\ Append(a, row)[Len(a) + 1] = row /\ \A k \in 1..Len(a) : Append(a, row)[k] = a[k]
  BY AppendProperties, LenProperties
<1>2. ASSUME NEW k \in DOMAIN Append(a, row) PROVE Append(a, row)[k].order \in Movements(a) \cup {row.order}
  <2>1. k = Len(a) + 1 \/ k \in DOMAIN a
    BY <1>1
  <2> QED BY <1>1, <2>1 DEF Movements
<1> QED BY <1>2 DEF Movements

LEMMA FundedKept ==
  ASSUME NettingTyped, Funded, NEW o \in Orders, Buying(o)
  PROVE  Funded'
<1>0. /\ lane.accepted \in Seq(Row) /\ escrow \in [Buyers -> Nat] /\ prefund \in Nat /\ prefund' = prefund
      /\ BuyerOf[o] \in Buyers
  <2>1. prefund' = prefund
    BY DEF Buying, Enqueue, PurchaseRefused, Purchase, GrantItem, Record, UndoGrant, RecordFlush,
       RecordFlushFails, Accept, LaneSettleFails
  <2> QED BY <2>1, ShapesAre, NettingAssumption DEF NettingTyped, Books
<1>1. CASE Purchase(o)
  <2> DEFINE b == BuyerOf[o]
  <2>1. /\ lane'.accepted = lane.accepted /\ lane'.order = o
        /\ lane'.funded = IF prefund > 0 THEN lane.funded \cup {b} ELSE lane.funded
    BY <1>1, LaneNow DEF Now
  <2>2. escrow' = [escrow EXCEPT ![b] = IF prefund > 0 /\ b \notin lane.funded THEN @ + prefund ELSE @]
    BY <1>1 DEF Purchase
  <2>3. \A c \in Buyers \ {b} : escrow'[c] = escrow[c]
    BY <1>0, <2>2
  <2>4. prefund = 0 => escrow' = escrow
    BY <1>0, <2>2
  <2> QED BY <1>0, <2>1, <2>3, <2>4 DEF Funded
<1>2. CASE Enqueue(o) \/ PurchaseRefused(o) \/ GrantItem \/ UndoGrant \/ RecordFlush \/ RecordFlushFails
           \/ Accept \/ LaneSettleFails
  <2>1. /\ lane'.accepted = lane.accepted /\ lane'.funded = lane.funded
        /\ lane'.pc # "open" => lane.pc # "open" /\ lane'.order = lane.order
    <3>1. GrantItem \/ RecordFlush => lane.pc # "open"
      BY DEF GrantItem, RecordFlush
    <3> QED BY <1>2, <3>1, LaneNow DEF Now, Stays
  <2>2. escrow' = escrow
    BY <1>2 DEF Enqueue, PurchaseRefused, GrantItem, UndoGrant, RecordFlush, RecordFlushFails, Accept,
       LaneSettleFails, ledger
  <2> QED BY <1>0, <2>1, <2>2 DEF Funded
<1>3. CASE Record
  <2>1. lane.pc = "record" /\ escrow' = escrow
    BY <1>3 DEF Record, ledger
  <2>2. /\ Movements(lane'.accepted) \subseteq Movements(lane.accepted) \cup {lane.order}
        /\ lane'.order = lane.order /\ lane'.funded = lane.funded
    <3>1. CASE Now(lane.accepted, lane.outcome, lane.order, "undo", lane.granted, lane.pending, lane.funded)
      BY <3>1 DEF Now
    <3>2. ASSUME NEW row \in Row, NEW pc \in {"flush", "answer"}, row.order = lane.order,
                 Now(Append(lane.accepted, row), lane.outcome, lane.order, pc, lane.granted,
                     lane.pending + 1, lane.funded)
          PROVE  /\ Movements(lane'.accepted) \subseteq Movements(lane.accepted) \cup {lane.order}
                 /\ lane'.order = lane.order /\ lane'.funded = lane.funded
      <4>1. Movements(Append(lane.accepted, row)) \subseteq Movements(lane.accepted) \cup {lane.order}
        BY <1>0, <3>2, MovementsAppend
      <4> QED BY <3>2, <4>1 DEF Now
    <3> QED BY <1>3, <3>1, <3>2, RecordNow
  <2>3. \A x \in Movements(lane'.accepted) : x \in Movements(lane.accepted) \/ x = lane.order
    BY <2>2
  <2> QED BY <1>0, <2>1, <2>2, <2>3 DEF Funded
<1> QED BY <1>1, <1>2, <1>3 DEF Buying


(***************************************************************************)
(* A purchase keeps the owner's progress.                                  *)
(***************************************************************************)

(* A step that posts nothing and works on no settlement. *)
LEMMA ProgressSame ==
  ASSUME NettingTyped, Progress(run["lane"]), run'["lane"] = run["lane"],
         lane'.reported = lane.reported, lane'.pc = lane.pc, lane'.pending = lane.pending,
         lane'.granted = lane.granted,
         \A o \in Orders : lane'.outcome[o] = "accepted" => lane.outcome[o] = "accepted",
         UNCHANGED <<txns, clearing, journal, escrow, owned, refused>>
  PROVE  Progress(run["lane"])'
<1> DEFINE r == run["lane"]
           s == run'["lane"]
<1>0. s = r /\ refused \subseteq Orders
  BY DEF NettingTyped, Books
<1>1. \A k, i : OnLedger(k, i)' <=> OnLedger(k, i)
  BY DEF OnLedger
<1>2. /\ NoneStands' <=> NoneStands
      /\ Untouched' <=> Untouched
      /\ ChunkCount(journal)' = ChunkCount(journal) /\ \A i : Effective(i)' <=> Effective(i)
  BY <1>1 DEF NoneStands, Untouched, ChunkCount, Effective
<1>3. CASE lane.reported
  <2>1. Reported(r)
    BY <1>3 DEF Progress
  <2>2. Done(refused)'
    BY <1>1, <1>2, <2>1 DEF Reported, Done
  <2>3. Reported(r)'
    BY <1>0, <1>1, <2>1, <2>2 DEF Reported, Closing
  <2> QED BY <1>0, <1>3, <2>3 DEF Progress
<1>4. CASE ~lane.reported
  <2>1. Unreported(r)
    BY <1>4 DEF Progress
  <2>2. r.pc \in {"claim", "give", "done"} => Done(r.rejected)'
    BY <1>0, <1>1, <1>2, <2>1 DEF Unreported, Stage, Done
  <2>3. r.pc = "chunk" => InChunk(r.i)'
    BY <1>0, <1>1, <1>2, <2>1 DEF Unreported, Stage, InChunk
  <2>4. r.pc = "comp" => InComp(r.i)'
    BY <1>0, <1>1, <1>2, <2>1 DEF Unreported, Stage, InComp
  <2>5. r.pc = "mv" => InReplay(r.i, r.rejected)'
    BY <1>0, <1>1, <1>2, <2>1 DEF Unreported, Stage, InReplay
  <2>6. Unreported(r)'
    BY <1>0, <1>1, <1>2, <2>1, <2>2, <2>3, <2>4, <2>5 DEF Unreported, Stage
  <2> QED BY <1>0, <1>4, <2>6 DEF Progress
<1> QED BY <1>3, <1>4

(* A step of an owner that has not settled yet and posts nothing of a settlement. *)
LEMMA ProgressIdle ==
  ASSUME ~lane.reported, ~lane'.reported, Progress(run["lane"]), run["lane"].pc = "idle",
         run'["lane"] = run["lane"], UNCHANGED <<clearing, refused>>,
         \A i \in Int : /\ <<"net", i>> \in txns' <=> <<"net", i>> \in txns
                        /\ <<"comp", i>> \in txns' <=> <<"comp", i>> \in txns
                        /\ <<"mv", i>> \in txns' <=> <<"mv", i>> \in txns,
         \A b \in Buyers : <<"refund", b>> \in txns' <=> <<"refund", b>> \in txns,
         \A o \in Orders : lane'.outcome[o] = "accepted" => o \in owned'
  PROVE  Progress(run["lane"])'
BY DEF Progress, Unreported, Stage, Untouched, OnLedger

(* The order the lane is serving is owned once it is granted. *)
LEMMA ProgressKept ==
  ASSUME SessionInv, Turns, Good', Bought, Progress(run["lane"]), NEW o \in Orders, Buying(o)
  PROVE  Progress(run["lane"])'
<1>0. /\ NettingTyped /\ Serial /\ lane.outcome \in [Orders -> Outcomes]
      /\ (lane.pc # "open" => lane.order \in Orders)
      /\ BoughtBy(lane.accepted, lane.outcome, lane.order, lane.pc, lane.granted, owned)
  BY DEF SessionInv, NettingTyped, Memory, Lane, Bought
<1>1. run' = run /\ lane'.reported = lane.reported /\ UNCHANGED <<clearing, refused>>
  <2>1. run' = run /\ Flags(lane') = Flags(lane)
    BY <1>0, LaneFlags DEF Buying
  <2>2. UNCHANGED <<clearing, refused>>
    BY DEF Buying, Enqueue, PurchaseRefused, Purchase, GrantItem, Record, UndoGrant, RecordFlush,
       RecordFlushFails, Accept, LaneSettleFails, ledger
  <2> QED BY <2>1, <2>2 DEF Flags
<1>2. CASE Enqueue(o)
  <2>1. Stays
    BY <1>0, <1>2, LaneNow
  <2>2. UNCHANGED <<txns, clearing, journal, escrow, owned, refused>>
    BY <1>2 DEF Enqueue, ledger
  <2> QED BY <1>0, <1>1, <2>1, <2>2, ProgressSame DEF Stays, Now
<1>3. CASE PurchaseRefused(o)
  <2>1. Now(lane.accepted, [lane.outcome EXCEPT ![o] = "rejected"], None, "open",
            lane.granted, lane.pending, lane.funded)
    BY <1>0, <1>3, LaneNow
  <2>2. UNCHANGED <<txns, clearing, journal, escrow, owned, refused>> /\ lane.pc = "open"
    BY <1>3 DEF PurchaseRefused, Turn, ledger
  <2>3. \A x \in Orders : lane'.outcome[x] = "accepted" => lane.outcome[x] = "accepted"
    BY <1>0, <2>1 DEF Now
  <2> QED BY <1>0, <1>1, <2>1, <2>2, <2>3, ProgressSame DEF Now
<1>4. CASE ~Enqueue(o) /\ ~PurchaseRefused(o)
  <2>1. run["lane"].pc = "idle"
    BY <1>0, <1>4 DEF Serial, Buying, Purchase, Turn, GrantItem, Record, UndoGrant, RecordFlush,
       RecordFlushFails, Accept, LaneSettleFails, LaneFree
  <2>2. ~lane.reported
    <3>1. CASE lane.pc # "open"
      BY <3>1 DEF Progress, Reported
    <3>2. CASE Purchase(o)
      <4>1. lane.reported => o \in lane'.late
        BY <1>0, <3>2, LaneNow
      <4> QED BY <4>1 DEF Good
    <3>3. CASE LaneSettleFails
      BY <3>3 DEF LaneSettleFails
    <3> QED BY <1>4, <3>1, <3>2, <3>3 DEF Buying, GrantItem, Record, UndoGrant, RecordFlush,
            RecordFlushFails, Accept
  <2>3. \A x \in Orders : lane.outcome[x] = "accepted" => x \in owned
    BY <2>2 DEF Progress, Unreported
  <2>4. lane.pc \in {"undo", "flush", "answer"} => lane.order \in owned /\ lane.outcome[lane.order] = None
    BY <1>0 DEF BoughtBy
  <2>5. /\ \A i \in Int : /\ <<"net", i>> \in txns' <=> <<"net", i>> \in txns
                          /\ <<"comp", i>> \in txns' <=> <<"comp", i>> \in txns
                          /\ <<"mv", i>> \in txns' <=> <<"mv", i>> \in txns
        /\ \A b \in Buyers : <<"refund", b>> \in txns' <=> <<"refund", b>> \in txns
    <3>1. CASE Purchase(o)
      <4>1. PICK b : txns' = txns \cup {<<"fund", b>>} \/ txns' = txns
        BY <3>1 DEF Purchase
      <4>2. /\ \A i \in Int : <<"fund", b>> # <<"net", i>> /\ <<"fund", b>> # <<"comp", i>>
                              /\ <<"fund", b>> # <<"mv", i>>
            /\ \A c \in Buyers : <<"fund", b>> # <<"refund", c>>
        OBVIOUS
      <4> QED BY <4>1, <4>2
    <3>2. CASE ~Purchase(o)
      <4>1. txns' = txns
        BY <1>4, <3>2 DEF Buying, GrantItem, Record, UndoGrant, RecordFlush, RecordFlushFails, Accept,
           LaneSettleFails, ledger
      <4> QED BY <4>1
    <3> QED BY <3>1, <3>2
  <2>6. \A x \in Orders : lane'.outcome[x] = "accepted" => x \in owned'
    <3>1. CASE Purchase(o) \/ LaneSettleFails \/ RecordFlush
      <4>1. lane'.outcome = lane.outcome
        BY <1>0, <3>1, LaneNow DEF Now
      <4>2. owned' = owned
        BY <3>1 DEF Purchase, LaneSettleFails, RecordFlush
      <4> QED BY <2>3, <4>1, <4>2
    <3>2. CASE GrantItem
      <4>1. lane'.outcome = lane.outcome
        BY <1>0, <3>2, LaneNow DEF Now
      <4> QED BY <2>3, <3>2, <4>1 DEF GrantItem
    <3>3. CASE Record
      <4>1. lane'.outcome = lane.outcome
        BY <1>0, <3>3, RecordNow DEF Now
      <4> QED BY <2>3, <3>3, <4>1 DEF Record
    <3>4. CASE UndoGrant
      <4>1. lane'.outcome = [lane.outcome EXCEPT ![lane.order] = "rejected"] /\ lane.pc = "undo"
            /\ owned' = owned \ {lane.order}
        BY <1>0, <3>4, LaneNow DEF Now, UndoGrant
      <4> QED BY <1>0, <2>3, <2>4, <4>1
    <3>5. CASE RecordFlushFails
      <4>1. lane'.outcome = [lane.outcome EXCEPT ![lane.order] = "threw"] /\ lane.pc = "flush" /\ owned' = owned
        BY <1>0, <3>5, LaneNow DEF Now, RecordFlushFails
      <4> QED BY <1>0, <2>3, <4>1
    <3>6. CASE Accept
      <4>1. lane'.outcome = [lane.outcome EXCEPT ![lane.order] = "accepted"] /\ lane.pc = "answer" /\ owned' = owned
        BY <1>0, <3>6, LaneNow DEF Now, Accept
      <4> QED BY <1>0, <2>3, <2>4, <4>1
    <3> QED BY <1>4, <3>1, <3>2, <3>3, <3>4, <3>5, <3>6 DEF Buying
  <2> QED BY <1>1, <2>1, <2>2, <2>5, <2>6, ProgressIdle
<1> QED BY <1>2, <1>3, <1>4


(***************************************************************************)
(* The owner's settlement, posting by posting.                             *)
(***************************************************************************)

(* Where a step leaves the owner's settle: at pc, with the index and the refusals. *)
Shifted(pc, i, R) ==
  /\ run'["lane"].pc = pc /\ run'["lane"].i = i /\ run'["lane"].rejected = R
  /\ run'["lane"].forced = run["lane"].forced /\ run'["lane"].owes = run["lane"].owes

LEMMA MovedTo ==
  ASSUME NettingTyped, NEW c, NEW n, NEW x
  PROVE  /\ run' = [run EXCEPT !["lane"].pc = c] => Shifted(c, run["lane"].i, run["lane"].rejected)
         /\ run' = [run EXCEPT !["lane"].i = n, !["lane"].pc = c] => Shifted(c, n, run["lane"].rejected)
         /\ run' = [run EXCEPT !["lane"].pc = c, !["lane"].i = n] => Shifted(c, n, run["lane"].rejected)
         /\ run' = [run EXCEPT !["lane"].settled = x, !["lane"].pc = c, !["lane"].i = n] =>
              Shifted(c, n, run["lane"].rejected)
         /\ run' = [run EXCEPT !["lane"].pc = c, !["lane"].i = n, !["lane"].released = x] =>
              Shifted(c, n, run["lane"].rejected)
         /\ run' = [run EXCEPT !["lane"].i = n, !["lane"].released = x, !["lane"].pc = c] =>
              Shifted(c, n, run["lane"].rejected)
         /\ run' = [run EXCEPT !["lane"].i = n] => Shifted(run["lane"].pc, n, run["lane"].rejected)
         /\ run' = [run EXCEPT !["lane"].i = n, !["lane"].rejected = x] => Shifted(run["lane"].pc, n, x)
<1>1. run \in [Procs -> Run] /\ "lane" \in Procs /\ run["lane"] \in Run
  BY ShapesAre DEF Procs
<1> QED BY <1>1 DEF Shifted, Run

(* What the ledger holds of a journal is the lane's. *)
LEMMA MovementsIn ==
  ASSUME NettingTyped, Journaled
  PROVE  Movements(journal) \subseteq Movements(lane.accepted)
<1>1. ASSUME NEW k \in DOMAIN journal PROVE journal[k].order \in Movements(lane.accepted)
  <2>1. /\ journal[k].seq \in Nat /\ journal[k].seq < Len(lane.accepted)
        /\ lane.accepted[journal[k].seq + 1] = journal[k]
    BY JournalRows DEF Journaled
  <2>2. lane.accepted \in Seq(Row) /\ Len(lane.accepted) \in Nat /\ DOMAIN lane.accepted = 1..Len(lane.accepted)
    BY ShapesAre, LenProperties
  <2>3. journal[k].seq + 1 \in DOMAIN lane.accepted
    BY <2>1, <2>2
  <2> QED BY <2>1, <2>3 DEF Movements
<1> QED BY <1>1 DEF Movements

LEMMA DebitsFunded ==
  ASSUME NettingTyped, Journaled, Funded, prefund # 0, NEW b \in Buyers, NEW i, Debits(journal, i)[b] # 0
  PROVE  b \in lane.funded
<1>1. b \in Positions(journal)
  BY DEF Debits, Chunk
<1>2. b # "shop"
  BY NettingAssumption
<1>3. PICK o \in Movements(journal) : b = BuyerOf[o]
  BY <1>1, <1>2 DEF Positions
<1>4. o \in Movements(lane.accepted)
  BY MovementsIn
<1> QED BY <1>3, <1>4 DEF Funded

(* A posting that moves only what funded buyers have or owe. *)
LEMMA FundedTake ==
  ASSUME NettingTyped, Funded, NEW d \in [Buyers -> Int], Take(d), lane' = lane, prefund' = prefund,
         \A b \in Buyers : prefund # 0 /\ d[b] # 0 => b \in lane.funded
  PROVE  Funded'
<1>0. escrow \in [Buyers -> Nat] /\ prefund \in Nat
  BY NettingAssumption DEF NettingTyped, Books
<1>1. CASE prefund = 0
  <2>1. escrow' = escrow
    BY <1>1 DEF Take
  <2> QED BY <1>1, <2>1 DEF Funded
<1>2. CASE prefund # 0
  <2>1. \A b \in Buyers : escrow'[b] = escrow[b] - d[b]
    BY <1>2 DEF Take, Source
  <2>2. \A b \in Buyers : escrow'[b] # 0 => b \in lane.funded
    <3> TAKE b \in Buyers
    <3>1. d[b] \in Int /\ escrow[b] \in Nat /\ escrow'[b] = escrow[b] - d[b]
      BY <1>0, <2>1
    <3>2. CASE d[b] = 0
      BY <1>2, <3>1, <3>2 DEF Funded
    <3>3. CASE d[b] # 0
      BY <1>2, <3>3
    <3> QED BY <3>2, <3>3
  <2> QED BY <1>2, <2>2 DEF Funded
<1> QED BY <1>1, <1>2

LEMMA FundedSame ==
  ASSUME Funded, UNCHANGED <<escrow, prefund>>, lane'.funded = lane.funded,
         lane'.accepted = lane.accepted, lane'.pc = lane.pc, lane'.order = lane.order
  PROVE  Funded'
BY DEF Funded

(* A step of the settlement that the owner has not reported yet. *)
LEMMA StageKept ==
  ASSUME Progress(run["lane"]), ~lane.reported, run["lane"].pc # "idle",
         NEW c, NEW i, NEW R, Shifted(c, i, R), c # "idle",
         UNCHANGED <<lane, owned, refused>>,
         \A b \in Buyers : OnLedger("refund", b)' <=> OnLedger("refund", b),
         Stage(run["lane"])'
  PROVE  Progress(run["lane"])'
BY DEF Progress, Unreported, Shifted

(* What the owner's settle works on is not reported. *)
LEMMA AtWork ==
  ASSUME Progress(run["lane"]), run["lane"].pc \in {"chunk", "comp", "mv", "claim", "give", "done"}
  PROVE  ~lane.reported /\ Unreported(run["lane"]) /\ Stage(run["lane"])
BY DEF Progress, Reported, Closing, Unreported

(* One posting more. *)
LEMMA NewPosting ==
  ASSUME NEW kind \in {"net", "comp", "mv"}, NEW i \in Int, txns' = txns \cup {<<kind, i>>}
  PROVE  /\ \A k : OnLedger(kind, k)' <=> OnLedger(kind, k) \/ k = i
         /\ \A other \in {"net", "comp", "mv", "refund"} \ {kind} :
              \A k : OnLedger(other, k)' <=> OnLedger(other, k)
BY DEF OnLedger


LEMMA PostChunkProgress ==
  ASSUME SessionInv, Funded, Progress(run["lane"]), PostChunk("lane")
  PROVE  Funded' /\ Progress(run["lane"])'
<1> DEFINE i == run["lane"].i
           n == ChunkCount(journal)
           d == Debits(journal, i)
           done == <<"net", i>> \in txns
           fits == \A b \in Buyers : d[b] <= Source[b]
           c == IF i + 1 < n THEN "chunk" ELSE "claim"
           next == [run EXCEPT !["lane"].i = i + 1, !["lane"].pc = c]
<1>0. /\ NettingTyped /\ Journaled /\ journal \in Seq(Row) /\ run["lane"].pc = "chunk"
      /\ UNCHANGED <<lane, journal, owned, refused, prefund>>
  BY ShapesAre DEF SessionInv, PostChunk
<1>1. ~lane.reported /\ Stage(run["lane"])
  BY <1>0, AtWork
<1>2. /\ i \in 0..n - 1 /\ clearing = Cleared(journal, i) /\ run["lane"].rejected = {}
      /\ \A k \in Int : (OnLedger("net", k) <=> k \in 0..i - 1) /\ ~OnLedger("comp", k) /\ ~OnLedger("mv", k)
  BY <1>0, <1>1 DEF Stage, InChunk
<1>3. /\ n \in Nat /\ i \in Nat /\ i + 1 \in Nat /\ ~done
      /\ Cleared(journal, i + 1) = Cleared(journal, i) + Total(d, Buyers) - Credits(journal, i)
      /\ Cleared(journal, n) = 0 /\ d \in [Buyers -> Nat]
  <2>1. n \in Nat
    <3>1. n \in Nat
      BY <1>0, ChunksGrow
    <3> QED BY <3>1
  <2>2. i \in Nat /\ i \in Int /\ i \notin 0..i - 1
    BY <1>2, <2>1
  <2>3. ~OnLedger("net", i)
    BY <1>2, <2>2
  <2>4. ~done
    BY <2>3 DEF OnLedger
  <2>5. /\ Cleared(journal, i + 1) = Cleared(journal, i) + Total(d, Buyers) - Credits(journal, i)
        /\ d \in [Buyers -> Nat] /\ Cleared(journal, n) = 0
    <3>1. i \in Int /\ journal \in Seq(Row)
      BY <1>0, <2>2
    <3> HIDE DEF i
    <3> QED BY ONLY <3>1, ClearedSteps
  <2> QED BY <2>1, <2>2, <2>4, <2>5
<1>4. \/ /\ run' = next /\ txns' = txns \cup {<<"net", i>>} /\ Take(d)
         /\ clearing' = clearing + Total(d, Buyers) - Credits(journal, i)
      \/ /\ run' = [run EXCEPT !["lane"].pc = "comp", !["lane"].i = i - 1]
         /\ UNCHANGED ledger
  BY <1>3 DEF PostChunk
<1> HIDE DEF d, c, next
<1>5. CASE /\ run' = next /\ txns' = txns \cup {<<"net", i>>} /\ Take(d)
           /\ clearing' = clearing + Total(d, Buyers) - Credits(journal, i)
  <2>1. Shifted(c, i + 1, {})
    BY <1>0, <1>2, <1>5, MovedTo DEF next
  <2>2. clearing' = Cleared(journal', i + 1)
    BY <1>0, <1>2, <1>3, <1>5
  <2>3. /\ \A k : OnLedger("net", k)' <=> OnLedger("net", k) \/ k = i
        /\ \A k : OnLedger("comp", k)' <=> OnLedger("comp", k)
        /\ \A k : OnLedger("mv", k)' <=> OnLedger("mv", k)
        /\ \A k : OnLedger("refund", k)' <=> OnLedger("refund", k)
    BY <1>3, <1>5, NewPosting
  <2>4. \A k \in Int : (OnLedger("net", k)' <=> k \in 0..i) /\ ~OnLedger("comp", k)' /\ ~OnLedger("mv", k)'
    BY <1>2, <1>3, <2>3
  <2>9. Funded'
    <3>1. \A b \in Buyers : prefund # 0 /\ d[b] # 0 => b \in lane.funded
      BY <1>0, DebitsFunded DEF d
    <3>2. d \in [Buyers -> Int]
      BY <1>3
    <3> QED BY <1>0, <1>5, <3>1, <3>2, FundedTake
  <2>5. CASE i + 1 < n
    <3>1. c = "chunk" /\ i + 1 \in 0..n - 1 /\ i + 1 - 1 = i
      BY <1>2, <1>3, <2>5 DEF c
    <3>2. ChunkCount(journal') = n
      BY <1>0
    <3>3. InChunk(run["lane"].i)'
      <4>1. run'["lane"].i = i + 1
        BY <2>1 DEF Shifted
      <4>3. run'["lane"].i \in 0..ChunkCount(journal') - 1
        BY <3>1, <3>2, <4>1
      <4>4. clearing' = Cleared(journal', run'["lane"].i)
        BY <2>2, <4>1
      <4>5. \A k \in Int : /\ OnLedger("net", k)' <=> k \in 0..run'["lane"].i - 1
                           /\ ~OnLedger("comp", k)' /\ ~OnLedger("mv", k)'
        <5>1. run'["lane"].i - 1 = i
          BY <1>3, <4>1
        <5> QED BY <2>4, <5>1
      <4> QED BY <4>3, <4>4, <4>5 DEF InChunk
    <3>4. Stage(run["lane"])'
      BY <2>1, <3>1, <3>3 DEF Stage, Shifted
    <3>6. Shifted("chunk", i + 1, {})
      BY <2>1, <3>1
    <3>7. \A b \in Buyers : OnLedger("refund", b)' <=> OnLedger("refund", b)
      BY <2>3
    <3> HIDE DEF i
    <3> QED BY <1>0, <1>1, <2>9, <3>6, <3>7, <3>4, StageKept
  <2>6. CASE ~(i + 1 < n)
    <3>1. c = "claim" /\ i + 1 = n /\ i = n - 1
      BY <1>2, <1>3, <2>6 DEF c
    <3>2. clearing' = 0 /\ ChunkCount(journal') = n
      BY <1>0, <1>3, <2>2, <3>1
    <3>3. \A k \in 0..n - 1 : Effective(k)'
      <4>1. \A k \in 0..n - 1 : k \in Int /\ k \in 0..i
        BY <1>3, <3>1
      <4> QED BY <2>4, <4>1 DEF Effective, OnLedger
    <3>4. Done({})'
      BY <3>2, <3>3 DEF Done
    <3>5. Stage(run["lane"])'
      BY <2>1, <3>1, <3>4 DEF Stage, Shifted
    <3>6. Shifted("claim", i + 1, {})
      BY <2>1, <3>1
    <3>7. \A b \in Buyers : OnLedger("refund", b)' <=> OnLedger("refund", b)
      BY <2>3
    <3> HIDE DEF i
    <3> QED BY <1>0, <1>1, <2>9, <3>6, <3>7, <3>5, StageKept
  <2> QED BY <2>5, <2>6
<1>6. CASE run' = [run EXCEPT !["lane"].pc = "comp", !["lane"].i = i - 1] /\ UNCHANGED ledger
  <2>1. Shifted("comp", i - 1, {})
    BY <1>0, <1>2, <1>6, MovedTo
  <2>2. UNCHANGED <<txns, clearing, escrow>>
    BY <1>6 DEF ledger
  <2>3. \A k, j : OnLedger(k, j)' <=> OnLedger(k, j)
    BY <2>2 DEF OnLedger
  <2>4. InComp(run["lane"].i)'
    <3>0. run'["lane"].i = i - 1
      BY <2>1 DEF Shifted
    <3>1. i - 1 \in -1..n - 1 /\ i - 1 + 1 = i
      BY <1>2, <1>3
    <3>2. \A k \in Int : k \in 0..i - 1 => k >= 0 /\ k <= i - 1
      BY <1>3
    <3>3. \A k \in Int : /\ OnLedger("comp", k)' => k > i - 1
                         /\ OnLedger("net", k)' => k >= 0 /\ (k <= i - 1 \/ OnLedger("comp", k)')
                         /\ ~OnLedger("mv", k)'
      BY <1>2, <2>3, <3>2
    <3>4. clearing' = Cleared(journal', i - 1 + 1) /\ ChunkCount(journal') = n
      BY <1>0, <1>2, <2>2, <3>1
    <3> QED BY <3>0, <3>1, <3>3, <3>4 DEF InComp
  <2>5. Stage(run["lane"])'
    BY <2>1, <2>4 DEF Stage, Shifted
  <2>6. Progress(run["lane"])'
    BY <1>0, <1>1, <2>1, <2>3, <2>5, StageKept
  <2>7. Funded'
    BY <1>0, <2>2, FundedSame
  <2> QED BY <2>6, <2>7
<1> QED BY <1>4, <1>5, <1>6

LEMMA ChunkFailsProgress ==
  ASSUME SessionInv, Funded, Progress(run["lane"]), PostChunkFails("lane")
  PROVE  Funded' /\ Progress(run["lane"])'
<1> DEFINE i == run["lane"].i
           n == ChunkCount(journal)
<1>0. /\ NettingTyped /\ Journaled /\ journal \in Seq(Row) /\ run["lane"].pc = "chunk"
      /\ UNCHANGED <<lane, journal, owned, refused, prefund, txns, clearing, escrow>>
      /\ run' = [run EXCEPT !["lane"].pc = "comp", !["lane"].i = @ - 1]
  BY ShapesAre DEF SessionInv, PostChunkFails, ledger
<1>1. ~lane.reported /\ Stage(run["lane"])
  BY <1>0, AtWork
<1>2. /\ i \in 0..n - 1 /\ clearing = Cleared(journal, i) /\ run["lane"].rejected = {}
      /\ \A k \in Int : (OnLedger("net", k) <=> k \in 0..i - 1) /\ ~OnLedger("comp", k) /\ ~OnLedger("mv", k)
  BY <1>0, <1>1 DEF Stage, InChunk
<1>3. n \in Nat /\ i \in Nat
  <2>1. n \in Nat
    <3>1. n \in Nat
      BY <1>0, ChunksGrow
    <3> QED BY <3>1
  <2> QED BY <1>2, <2>1
<1>4. Shifted("comp", i - 1, {})
  <2>1. run' = [run EXCEPT !["lane"].pc = "comp", !["lane"].i = i - 1]
    BY <1>0
  <2> QED BY <1>0, <1>2, <2>1, MovedTo
<1>5. \A k, j : OnLedger(k, j)' <=> OnLedger(k, j)
  BY <1>0 DEF OnLedger
<1>6. InComp(run["lane"].i)'
  <2>0. run'["lane"].i = i - 1
    BY <1>4 DEF Shifted
  <2>1. i - 1 \in -1..n - 1 /\ i - 1 + 1 = i
    BY <1>2, <1>3
  <2>2. \A k \in Int : k \in 0..i - 1 => k >= 0 /\ k <= i - 1
    BY <1>3
  <2>3. \A k \in Int : /\ OnLedger("comp", k)' => k > i - 1
                       /\ OnLedger("net", k)' => k >= 0 /\ (k <= i - 1 \/ OnLedger("comp", k)')
                       /\ ~OnLedger("mv", k)'
    BY <1>2, <1>5, <2>2
  <2>4. clearing' = Cleared(journal', i - 1 + 1) /\ ChunkCount(journal') = n
    BY <1>0, <1>2, <2>1
  <2> QED BY <2>0, <2>1, <2>3, <2>4 DEF InComp
<1>7. Stage(run["lane"])'
  BY <1>4, <1>6 DEF Stage, Shifted
<1>8. Progress(run["lane"])'
  BY <1>0, <1>1, <1>4, <1>5, <1>7, StageKept
<1>9. Funded'
  BY <1>0, FundedSame
<1> QED BY <1>8, <1>9


LEMMA CompensateProgress ==
  ASSUME SessionInv, Funded, Progress(run["lane"]), Compensate("lane"), ~SettleRetried'
  PROVE  Funded' /\ Progress(run["lane"])'
<1> DEFINE i == run["lane"].i
           n == ChunkCount(journal)
           d == Debits(journal, i)
           e == [b \in Buyers |-> -d[b]]
           done == <<"comp", i>> \in txns
           fits == Credits(journal, i) <= shop
<1>0. /\ NettingTyped /\ Journaled /\ journal \in Seq(Row) /\ run["lane"].pc = "comp"
      /\ UNCHANGED <<lane, journal, owned, refused, prefund>>
  BY ShapesAre DEF SessionInv, Compensate
<1>1. ~lane.reported /\ Stage(run["lane"])
  BY <1>0, AtWork
<1>2. /\ i \in -1..n - 1 /\ clearing = Cleared(journal, i + 1) /\ run["lane"].rejected = {}
      /\ \A k \in Int : /\ OnLedger("comp", k) => k > i
                        /\ OnLedger("net", k) => k >= 0 /\ (k <= i \/ OnLedger("comp", k))
                        /\ ~OnLedger("mv", k)
  BY <1>0, <1>1 DEF Stage, InComp
<1>3. n \in Nat /\ i \in Int /\ i >= -1
  <2>1. n \in Nat
    <3>1. n \in Nat
      BY <1>0, ChunksGrow
    <3> QED BY <3>1
  <2> QED BY <1>2, <2>1
<1>4. /\ Cleared(journal, i + 1) = Cleared(journal, i) + Total(d, Buyers) - Credits(journal, i)
      /\ Cleared(journal, i) \in Int /\ Total(d, Buyers) \in Int /\ Credits(journal, i) \in Nat
      /\ d \in [Buyers -> Nat] /\ Cleared(journal, 0) = 0
  <2>1. i \in Int /\ journal \in Seq(Row)
    BY <1>0, <1>3
  <2> HIDE DEF i
  <2> QED BY ONLY <2>1, ClearedSteps
<1>5. ~done
  <2>1. ~OnLedger("comp", i)
    BY <1>2, <1>3
  <2> QED BY <2>1 DEF OnLedger
<1>6. \/ /\ i < 0 /\ UNCHANGED ledger
         /\ run' = [run EXCEPT !["lane"].settled = TRUE, !["lane"].pc = "mv", !["lane"].i = 1]
      \/ /\ i >= 0 /\ run' = [run EXCEPT !["lane"].i = i - 1]
         /\ txns' = txns \cup {<<"comp", i>>} /\ Take(e)
         /\ clearing' = clearing - Total(d, Buyers) + Credits(journal, i)
      \/ "comp" \in used'.failed
  <2>1. used.failed \in SUBSET Steps /\ used \in Used
    BY <1>0 DEF NettingTyped, Memory, Used
  <2>2. used' = [used EXCEPT !.failed = @ \cup {"comp"}] => "comp" \in used'.failed
    BY <2>1 DEF Used
  <2> QED BY <1>5, <2>2 DEF Compensate
<1>7. "comp" \notin used'.failed
  BY DEF SettleRetried, Failed
<1> HIDE DEF d, e
<1>8. CASE /\ i < 0 /\ UNCHANGED ledger
           /\ run' = [run EXCEPT !["lane"].settled = TRUE, !["lane"].pc = "mv", !["lane"].i = 1]
  <2>1. Shifted("mv", 1, {})
    BY <1>0, <1>2, <1>8, MovedTo
  <2>2. UNCHANGED <<txns, clearing, escrow>>
    BY <1>8 DEF ledger
  <2>3. \A k, j : OnLedger(k, j)' <=> OnLedger(k, j)
    BY <2>2 DEF OnLedger
  <2>4. Funded'
    BY <1>0, <2>2, FundedSame
  <2>5. i = -1 /\ i + 1 = 0
    BY <1>3, <1>8
  <2>6. clearing' = 0
    BY <1>2, <1>4, <2>2, <2>5
  <2>7. NoneStands'
    <3>1. \A k \in Int : OnLedger("net", k) => OnLedger("comp", k)
      BY <1>2, <2>5
    <3> QED BY <2>3, <3>1 DEF NoneStands
  <2>8. \A k \in DOMAIN journal : ~OnLedger("mv", k)' /\ ~(k < 1)
    <3>1. \A k \in DOMAIN journal : k \in Int /\ k >= 1
      BY <1>0, LenProperties
    <3> QED BY <1>2, <2>3, <3>1
  <2>9. InReplay(run["lane"].i, run["lane"].rejected)'
    BY <1>0, <2>1, <2>6, <2>7, <2>8 DEF InReplay, Shifted
  <2>10. Stage(run["lane"])'
    BY <2>1, <2>9 DEF Stage, Shifted
  <2>11. Progress(run["lane"])'
    BY <1>0, <1>1, <2>1, <2>3, <2>10, StageKept
  <2> QED BY <2>4, <2>11
<1>9. CASE /\ i >= 0 /\ run' = [run EXCEPT !["lane"].i = i - 1]
           /\ txns' = txns \cup {<<"comp", i>>} /\ Take(e)
           /\ clearing' = clearing - Total(d, Buyers) + Credits(journal, i)
  <2>1. Shifted("comp", i - 1, {})
    BY <1>0, <1>2, <1>9, MovedTo
  <2>2. run'["lane"].i = i - 1 /\ i - 1 \in -1..ChunkCount(journal') - 1 /\ i - 1 + 1 = i
    <3>1. i \in -1..n - 1 /\ n \in Nat /\ i >= 0 /\ ChunkCount(journal') = n
      BY <1>0, <1>2, <1>3, <1>9
    <3>2. i - 1 \in -1..n - 1 /\ i - 1 + 1 = i
      BY <1>3, <3>1
    <3> QED BY <2>1, <3>1, <3>2 DEF Shifted
  <2>3. clearing' = Cleared(journal', i)
    <3> DEFINE x == Cleared(journal, i)
               t == Total(d, Buyers)
               u == Credits(journal, i)
    <3>1. clearing = x + t - u /\ x \in Int /\ t \in Int /\ u \in Nat /\ clearing' = clearing - t + u
      BY <1>2, <1>4, <1>9
    <3> HIDE DEF x, t, u
    <3>2. clearing' = x
      BY <3>1
    <3> QED BY <1>0, <3>2 DEF x
  <2>4. /\ \A k : OnLedger("comp", k)' <=> OnLedger("comp", k) \/ k = i
        /\ \A k : OnLedger("net", k)' <=> OnLedger("net", k)
        /\ \A k : OnLedger("mv", k)' <=> OnLedger("mv", k)
        /\ \A b \in Buyers : OnLedger("refund", b)' <=> OnLedger("refund", b)
    BY <1>3, <1>9, NewPosting
  <2>5. \A k \in Int : /\ OnLedger("comp", k)' => k > i - 1
                       /\ OnLedger("net", k)' => k >= 0 /\ (k <= i - 1 \/ OnLedger("comp", k)')
                       /\ ~OnLedger("mv", k)'
    <3> SUFFICES ASSUME NEW k \in Int
                 PROVE  /\ OnLedger("comp", k)' => k > i - 1
                        /\ OnLedger("net", k)' => k >= 0 /\ (k <= i - 1 \/ OnLedger("comp", k)')
                        /\ ~OnLedger("mv", k)'
      OBVIOUS
    <3>1. CASE k = i
      <4>1. OnLedger("comp", k)' /\ ~OnLedger("mv", k)' /\ k > i - 1 /\ k >= 0
        BY <1>2, <1>3, <1>9, <2>4, <3>1
      <4> QED BY <4>1
    <3>2. CASE k # i
      <4>1. k > i => k > i - 1
        BY <1>3
      <4>2. k <= i => k <= i - 1
        BY <1>3, <3>2
      <4> QED BY <1>2, <2>4, <3>2, <4>1, <4>2
    <3> QED BY <3>1, <3>2
  <2>6. InComp(run["lane"].i)'
    <3>1. clearing' = Cleared(journal', run'["lane"].i + 1)
      BY <2>2, <2>3
    <3>2. run'["lane"].i \in -1..ChunkCount(journal') - 1
      BY <2>2
    <3> QED BY <2>2, <2>5, <3>1, <3>2 DEF InComp
  <2>7. Stage(run["lane"])'
    BY <2>1, <2>6 DEF Stage, Shifted
  <2>8. Progress(run["lane"])'
    BY <1>0, <1>1, <2>1, <2>4, <2>7, StageKept
  <2>9. Funded'
    <3>1. e \in [Buyers -> Int] /\ \A b \in Buyers : e[b] # 0 => d[b] # 0
      BY <1>4 DEF e
    <3>2. \A b \in Buyers : prefund # 0 /\ d[b] # 0 => b \in lane.funded
      BY <1>0, DebitsFunded DEF d
    <3> QED BY <1>0, <1>9, <3>1, <3>2, FundedTake
  <2> QED BY <2>8, <2>9
<1> QED BY <1>6, <1>7, <1>8, <1>9

(* The orders of a journal are distinct. *)
LEMMA JournalDistinct ==
  ASSUME NettingTyped, Journaled, Bought
  PROVE  \A k, m \in DOMAIN journal : journal[k].order = journal[m].order => k = m
<1> SUFFICES ASSUME NEW k \in DOMAIN journal, NEW m \in DOMAIN journal, journal[k].order = journal[m].order
             PROVE  k = m
  OBVIOUS
<1>1. lane.accepted \in Seq(Row) /\ Len(lane.accepted) \in Nat /\ DOMAIN lane.accepted = 1..Len(lane.accepted)
      /\ journal \in Seq(Row) /\ k \in Int /\ m \in Int
  BY ShapesAre, LenProperties
<1> DEFINE x == journal[k].seq + 1
           y == journal[m].seq + 1
<1>2. /\ x \in DOMAIN lane.accepted /\ y \in DOMAIN lane.accepted
      /\ lane.accepted[x] = journal[k] /\ lane.accepted[y] = journal[m]
      /\ journal[k].seq \in Nat /\ journal[m].seq \in Nat
  BY <1>1, JournalRows DEF Journaled
<1>3. x = y
  BY <1>2 DEF Bought, BoughtBy
<1>4. journal[k].seq = journal[m].seq
  BY <1>2, <1>3
<1>5. ~(k < m) /\ ~(m < k)
  BY <1>2, <1>4 DEF Journaled
<1> QED BY <1>1, <1>5

LEMMA ReplayProgress ==
  ASSUME SessionInv, Bought, Funded, Progress(run["lane"]), Replay("lane") \/ ReplayFails("lane")
  PROVE  Funded' /\ Progress(run["lane"])'
<1> DEFINE r == run["lane"]
           i == run["lane"].i
           o == journal[i].order
           d == [b \in Buyers |-> IF b = BuyerOf[o] THEN 1 ELSE 0]
<1>0. /\ NettingTyped /\ Journaled /\ journal \in Seq(Row) /\ r.pc = "mv" /\ i <= Len(journal)
      /\ UNCHANGED <<lane, journal, owned, refused, prefund>> /\ i \in Int /\ i >= 1
  BY ShapesAre DEF SessionInv, NettingTyped, Memory, Run, Procs, Replay, ReplayFails
<1>1. ~lane.reported /\ Stage(r)
  BY <1>0, AtWork
<1>2. InReplay(i, r.rejected)
  BY <1>0, <1>1 DEF Stage
<1>3. /\ i \in DOMAIN journal /\ o \in Movements(journal) /\ DOMAIN journal \subseteq Int
      /\ BuyerOf[o] \in Buyers
  <2>1. i \in DOMAIN journal /\ DOMAIN journal = 1..Len(journal) /\ Len(journal) \in Nat
    BY <1>0, LenProperties
  <2>2. journal[i] \in Row
    BY <1>0, <2>1
  <2> QED BY <2>1, <2>2, NettingAssumption DEF Movements, Row
<1>4. ~OnLedger("mv", i) /\ i \notin {k \in Int : k < i}
  BY <1>0, <1>2, <1>3 DEF InReplay
<1>5. \A k \in DOMAIN journal : (k < i + 1 <=> k < i \/ k = i)
  BY <1>0, <1>3
<1>6. \A k \in DOMAIN journal : k # i => journal[k].order # o
  BY <1>0, <1>3, JournalDistinct
<1>7. o \notin r.rejected
  BY <1>2, <1>4, <1>3, <1>6 DEF InReplay
<1>8. \/ /\ run' = [run EXCEPT !["lane"].i = i + 1] /\ txns' = txns \cup {<<"mv", i>>}
         /\ Take(d) /\ clearing' = clearing
      \/ /\ run' = [run EXCEPT !["lane"].i = i + 1, !["lane"].rejected = r.rejected \cup {o}]
         /\ UNCHANGED <<txns, clearing, escrow>>
  <2>1. <<"mv", i>> \notin txns
    BY <1>4 DEF OnLedger
  <2>2. run \in [Procs -> Run] /\ "lane" \in Procs /\ run["lane"] \in Run
    BY <1>0, ShapesAre DEF Procs
  <2>3. CASE Replay("lane")
    BY <2>1, <2>2, <2>3 DEF Replay, ledger, Run
  <2>4. CASE ReplayFails("lane")
    BY <2>2, <2>4 DEF ReplayFails, ledger, Run
  <2> QED BY <2>3, <2>4
<1> HIDE DEF d, o
<1>9. CASE /\ run' = [run EXCEPT !["lane"].i = i + 1] /\ txns' = txns \cup {<<"mv", i>>}
           /\ Take(d) /\ clearing' = clearing
  <2>1. Shifted("mv", i + 1, r.rejected)
    BY <1>0, <1>9, MovedTo
  <2>2. /\ \A k : OnLedger("mv", k)' <=> OnLedger("mv", k) \/ k = i
        /\ \A k : OnLedger("net", k)' <=> OnLedger("net", k)
        /\ \A k : OnLedger("comp", k)' <=> OnLedger("comp", k)
        /\ \A b \in Buyers : OnLedger("refund", b)' <=> OnLedger("refund", b)
    BY <1>0, <1>9, NewPosting
  <2>3. \A k \in DOMAIN journal : OnLedger("mv", k)' <=> (k < i + 1 /\ journal[k].order \notin r.rejected)
    <3> TAKE k \in DOMAIN journal
    <3>1. OnLedger("mv", k) <=> (k < i /\ journal[k].order \notin r.rejected)
      BY <1>2 DEF InReplay
    <3>2. k = i => journal[k].order \notin r.rejected
      BY <1>7 DEF o
    <3> QED BY <1>5, <2>2, <3>1, <3>2
  <2>4. \A x \in r.rejected : \E k \in DOMAIN journal : k < i + 1 /\ journal[k].order = x
    BY <1>2, <1>5 DEF InReplay
  <2>5. clearing' = 0 /\ NoneStands'
    BY <1>2, <1>9, <2>2 DEF InReplay, NoneStands
  <2>6. InReplay(r.i, r.rejected)'
    BY <1>0, <2>1, <2>3, <2>4, <2>5 DEF InReplay, Shifted
  <2>7. Stage(r)'
    BY <2>1, <2>6 DEF Stage, Shifted
  <2>8. Progress(r)'
    BY <1>0, <1>1, <2>1, <2>2, <2>7, StageKept
  <2>9. Funded'
    <3>1. d \in [Buyers -> Int] /\ \A b \in Buyers : d[b] # 0 => b = BuyerOf[o]
      BY DEF d
    <3>2. prefund # 0 => BuyerOf[o] \in lane.funded
      BY <1>0, <1>3, MovementsIn DEF Funded
    <3> QED BY <1>0, <1>9, <3>1, <3>2, FundedTake
  <2> QED BY <2>8, <2>9
<1>10. CASE /\ run' = [run EXCEPT !["lane"].i = i + 1, !["lane"].rejected = r.rejected \cup {o}]
            /\ UNCHANGED <<txns, clearing, escrow>>
  <2>1. Shifted("mv", i + 1, r.rejected \cup {o})
    BY <1>0, <1>10, MovedTo
  <2>2. \A k, j : OnLedger(k, j)' <=> OnLedger(k, j)
    BY <1>10 DEF OnLedger
  <2>3. \A k \in DOMAIN journal : OnLedger("mv", k)' <=> (k < i + 1 /\ journal[k].order \notin r.rejected \cup {o})
    <3> TAKE k \in DOMAIN journal
    <3>1. OnLedger("mv", k) <=> (k < i /\ journal[k].order \notin r.rejected)
      BY <1>2 DEF InReplay
    <3>2. k = i <=> journal[k].order = o
      BY <1>6 DEF o
    <3>3. k = i => ~(k < i)
      BY <1>0
    <3> QED BY <1>5, <2>2, <3>1, <3>2, <3>3
  <2>4. \A x \in r.rejected \cup {o} : \E k \in DOMAIN journal : k < i + 1 /\ journal[k].order = x
    <3>1. i \in DOMAIN journal /\ i < i + 1 /\ journal[i].order = o
      BY <1>0, <1>3 DEF o
    <3>2. \A x \in r.rejected : \E k \in DOMAIN journal : k < i + 1 /\ journal[k].order = x
      BY <1>2, <1>5 DEF InReplay
    <3> QED BY <3>1, <3>2
  <2>5. clearing' = 0 /\ NoneStands'
    BY <1>2, <1>10, <2>2 DEF InReplay, NoneStands
  <2>6. InReplay(r.i, r.rejected)'
    BY <1>0, <2>1, <2>3, <2>4, <2>5 DEF InReplay, Shifted
  <2>7. Stage(r)'
    BY <2>1, <2>6 DEF Stage, Shifted
  <2>8. Progress(r)'
    BY <1>0, <1>1, <2>1, <2>2, <2>7, StageKept
  <2>9. Funded'
    BY <1>0, <1>10, FundedSame
  <2> QED BY <2>8, <2>9
<1> QED BY <1>8, <1>9, <1>10


LEMMA ReleaseProgress ==
  ASSUME SessionInv, Funded, Progress(run["lane"]), ReleaseClaim("lane") \/ GiveBack("lane")
  PROVE  Funded' /\ Progress(run["lane"])'
<1> DEFINE r == run["lane"]
<1>0. /\ NettingTyped /\ journal \in Seq(Row) /\ r.pc \in {"mv", "claim", "give"}
      /\ (r.pc = "mv" => r.i > Len(journal)) /\ r.i \in Int /\ r.rejected \subseteq Orders
      /\ UNCHANGED <<lane, journal, owned, refused, prefund, txns, clearing, escrow>>
  BY ShapesAre DEF SessionInv, Run, Procs, ReleaseClaim, GiveBack, AtClaim, ledger
<1>1. ~lane.reported /\ Stage(r)
  BY <1>0, AtWork
<1>2. Done(r.rejected)
  <2>1. CASE r.pc = "mv"
    <3>1. \A k \in DOMAIN journal : k < r.i
      BY <1>0, <2>1, LenProperties
    <3>2. InReplay(r.i, r.rejected)
      BY <1>1, <2>1 DEF Stage
    <3> QED BY <3>1, <3>2 DEF InReplay, Done
  <2>2. CASE r.pc # "mv"
    BY <1>0, <1>1, <2>2 DEF Stage
  <2> QED BY <2>1, <2>2
<1>3. \E c \in {"give", "done"}, n \in Int : Shifted(c, n, r.rejected)
  <2>1. CASE ReleaseClaim("lane")
    <3> DEFINE wins == ~r.released /\ ~claimed
               c == IF wins THEN "give" ELSE "done"
               x == ~wins
    <3>1. run' = [run EXCEPT !["lane"].pc = c, !["lane"].i = 1, !["lane"].released = x]
          /\ c \in {"give", "done"}
      BY <2>1 DEF ReleaseClaim
    <3> HIDE DEF c, x
    <3>2. Shifted(c, 1, r.rejected)
      BY <1>0, <3>1, MovedTo
    <3> QED BY <3>1, <3>2
  <2>2. CASE GiveBack("lane")
    <3> DEFINE last == r.i = Len(Reserved("lane"))
               c == IF last THEN "done" ELSE "give"
               n == r.i + 1
    <3>1. run' = [run EXCEPT !["lane"].i = n, !["lane"].released = last, !["lane"].pc = c]
          /\ c \in {"give", "done"} /\ n \in Int
      BY <1>0, <2>2 DEF GiveBack
    <3> HIDE DEF c, last, n
    <3>2. Shifted(c, n, r.rejected)
      BY <1>0, <3>1, MovedTo
    <3> QED BY <3>1, <3>2
  <2> QED BY <2>1, <2>2
<1>4. PICK c \in {"give", "done"}, n \in Int : Shifted(c, n, r.rejected)
  BY <1>3
<1>5. \A k, j : OnLedger(k, j)' <=> OnLedger(k, j)
  BY <1>0 DEF OnLedger
<1>6. Done(r.rejected)'
  <2>1. NoneStands' <=> NoneStands
    BY <1>5 DEF NoneStands
  <2>2. \A k : Effective(k)' <=> Effective(k)
    BY <1>0 DEF Effective
  <2>3. ChunkCount(journal)' = ChunkCount(journal)
    BY <1>0
  <2> QED BY <1>0, <1>2, <1>4, <1>5, <2>1, <2>2, <2>3 DEF Done, Shifted
<1>7. Stage(r)'
  BY <1>4, <1>6 DEF Stage, Shifted
<1>8. Progress(r)'
  BY <1>0, <1>1, <1>4, <1>5, <1>7, StageKept
<1>9. Funded'
  BY <1>0, FundedSame
<1> QED BY <1>8, <1>9

(***************************************************************************)
(* The backstops.                                                          *)
(***************************************************************************)

(* What a step of a reported settle leaves alone. *)
LEMMA ReportedKept ==
  ASSUME Progress(run["lane"]), lane.reported, run'["lane"].forced = run["lane"].forced,
         lane'.reported = lane.reported, lane'.pc = lane.pc, lane'.pending = lane.pending,
         UNCHANGED <<refused, clearing, journal>>,
         \A k \in {"net", "comp", "mv"} : \A i : OnLedger(k, i)' <=> OnLedger(k, i),
         Closing(run["lane"])'
  PROVE  Progress(run["lane"])'
<1>1. Reported(run["lane"]) /\ ~run["lane"].forced
  BY DEF Progress
<1>2. NoneStands' <=> NoneStands
  BY DEF NoneStands
<1>3. \A k : Effective(k)' <=> Effective(k)
  <2>1. \A k : Effective(k) <=> OnLedger("net", k) /\ ~OnLedger("comp", k)
    BY DEF Effective, OnLedger
  <2>2. \A k : Effective(k)' <=> OnLedger("net", k)' /\ ~OnLedger("comp", k)'
    BY DEF Effective, OnLedger
  <2> QED BY <2>1, <2>2
<1>4. Done(refused)'
  <2>1. ChunkCount(journal)' = ChunkCount(journal)
    OBVIOUS
  <2> QED BY <1>1, <1>2, <1>3, <2>1 DEF Reported, Done
<1> QED BY <1>1, <1>4 DEF Progress, Reported

(* The owner gave up: it keeps its report for the next try. *)
LEMMA ThrownProgress ==
  ASSUME SessionInv, Progress(run["lane"]), lane.reported, run' = [run EXCEPT !["lane"] = Thrown("lane")],
         UNCHANGED <<lane, refused, journal, owned, ledger>>
  PROVE  Progress(run["lane"])'
<1>1. run \in [Procs -> Run] /\ "lane" \in Procs /\ run["lane"] \in Run
  BY ShapesAre DEF SessionInv, Procs
<1>2. run'["lane"].pc = "idle" /\ run'["lane"].forced = run["lane"].forced
  BY <1>1 DEF Thrown, Run
<1>3. UNCHANGED <<txns, clearing, escrow>>
  BY DEF ledger
<1>4. \A k, i : OnLedger(k, i)' <=> OnLedger(k, i)
  BY <1>3 DEF OnLedger
<1>5. Closing(run["lane"])
  BY DEF Progress, Reported
<1>6. Closing(run["lane"])'
  BY <1>2, <1>3, <1>4, <1>5 DEF Closing
<1> QED BY <1>2, <1>3, <1>4, <1>6, ReportedKept

LEMMA FailsProgress ==
  ASSUME SessionInv, Turns, Progress(run["lane"]), SettleStepFails("lane"), ~SettleRetried'
  PROVE  Progress(run["lane"])'
<1> DEFINE step == IF AtClaim("lane") THEN "claim" ELSE
                   IF run["lane"].pc = "post" THEN "refund" ELSE run["lane"].pc
<1>0. used.failed \in SUBSET Steps /\ used \in Used
  BY DEF SessionInv, NettingTyped, Memory, Used
<1>1. /\ step \in {"comp", "claim", "give", "revoke", "refund", "emit"} /\ Fault(step)
      /\ run' = [run EXCEPT !["lane"] = Thrown("lane")] /\ UNCHANGED <<lane, refused, journal, owned, ledger>>
  BY DEF SettleStepFails
<1>2. step \notin {"comp", "claim", "give"}
  <2> HIDE DEF step
  <2>1. step \in used'.failed
    BY <1>0, <1>1 DEF Fault, Used
  <2> QED BY <2>1 DEF SettleRetried, Failed
<1>3. run["lane"].pc \in {"revoke", "refund", "post", "emit"}
  BY <1>1, <1>2
<1>4. lane.reported
  BY <1>3 DEF Turns
<1> HIDE DEF step
<1> QED BY <1>1, <1>4, ThrownProgress

LEMMA ReportProgress ==
  ASSUME SessionInv, Progress(run["lane"]), Report("lane")
  PROVE  /\ Progress(run["lane"])'
         /\ lane'.accepted = lane.accepted /\ lane'.outcome = lane.outcome /\ lane'.order = lane.order
         /\ lane'.pc = lane.pc /\ lane'.granted = lane.granted /\ lane'.pending = lane.pending
         /\ lane'.funded = lane.funded
<1> DEFINE r == run["lane"]
           s == [r EXCEPT !.settled = TRUE]
           R == r.rejected
           t == [s EXCEPT !.pc = "revoke", !.owes = s.rejected \cap lane.granted]
<1>0. /\ r \in Run /\ run \in [Procs -> Run] /\ "lane" \in Procs /\ lane \in Lane /\ Serial
      /\ r.pc = "done" /\ R \subseteq Orders
  BY ShapesAre DEF SessionInv, Procs, Run, Report
<1>1. ~lane.reported /\ Stage(r) /\ Unreported(r) /\ ~r.forced
  BY <1>0, AtWork DEF Progress
<1>2. /\ refused' = refused \cup R /\ run' = [run EXCEPT !["lane"] = t]
      /\ UNCHANGED <<journal, owned, txns, clearing, escrow>>
      /\ lane' = [lane EXCEPT !.reported = TRUE]
  <2>1. lane' = [lane EXCEPT !.reported = TRUE]
    <3> DEFINE x == lane.reported \/ "lane" = "lane"
    <3>1. lane' = [lane EXCEPT !.reported = x] /\ x = TRUE
      BY <1>0 DEF Report, Lane
    <3> QED BY <3>1
  <2>2. run' = [run EXCEPT !["lane"] = t] /\ refused' = refused \cup R
    BY <1>0 DEF Report
  <2>3. UNCHANGED <<journal, owned, txns, clearing, escrow>>
    BY DEF Report, ledger
  <2> QED BY <2>1, <2>2, <2>3
<1>3. /\ lane'.accepted = lane.accepted /\ lane'.outcome = lane.outcome /\ lane'.order = lane.order
      /\ lane'.pc = lane.pc /\ lane'.granted = lane.granted /\ lane'.pending = lane.pending
      /\ lane'.funded = lane.funded /\ lane'.reported
  BY <1>0, <1>2 DEF Lane
<1>4. run'["lane"].pc = "revoke" /\ run'["lane"].owes = R \cap lane.granted /\ run'["lane"].forced = r.forced
  BY <1>0, <1>2 DEF Run
<1>5. refused = {} /\ refused' = R /\ lane.pc = "open" /\ lane.pending = 0
  BY <1>0, <1>1, <1>2 DEF Unreported, Serial
<1>6. \A k, i : OnLedger(k, i)' <=> OnLedger(k, i)
  BY <1>2 DEF OnLedger
<1>7. Done(refused)'
  <2>1. Done(R)
    BY <1>0, <1>1 DEF Stage
  <2>2. NoneStands' <=> NoneStands
    BY <1>6 DEF NoneStands
  <2>3. \A k : Effective(k)' <=> Effective(k)
    BY <1>2 DEF Effective
  <2>4. ChunkCount(journal)' = ChunkCount(journal)
    BY <1>2
  <2> QED BY <1>2, <1>5, <1>6, <2>1, <2>2, <2>3, <2>4 DEF Done
<1>8. Closing(r)'
  <2>1. /\ \A b \in Buyers : ~OnLedger("refund", b)'
        /\ \A o \in Orders : lane'.outcome[o] = "accepted" => o \in owned'
    BY <1>1, <1>2, <1>3, <1>6 DEF Unreported
  <2>2. R \cap lane.granted \subseteq refused'
    BY <1>5
  <2> QED BY <1>3, <1>4, <1>5, <2>1, <2>2 DEF Closing
<1>9. Progress(r)'
  BY <1>1, <1>3, <1>4, <1>5, <1>7, <1>8 DEF Progress, Reported
<1> QED BY <1>3, <1>9


(* The lane keeps in memory what the promises read. *)
MemoryKept ==
  /\ lane'.accepted = lane.accepted /\ lane'.outcome = lane.outcome /\ lane'.order = lane.order
  /\ lane'.pc = lane.pc /\ lane'.granted = lane.granted /\ lane'.pending = lane.pending
  /\ lane'.funded = lane.funded

LEMMA RevokeProgress ==
  ASSUME SessionInv, Turns, Bought, Funded, Progress(run["lane"]), RevokeRefused
  PROVE  MemoryKept /\ Bought' /\ Funded' /\ Progress(run["lane"])'
<1> DEFINE r == run["lane"]
<1>0. /\ r.pc = "revoke" /\ UNCHANGED <<lane, journal, refused, prefund, txns, clearing, escrow>>
      /\ run \in [Procs -> Run] /\ "lane" \in Procs /\ r \in Run /\ Serial
  BY ShapesAre DEF SessionInv, Procs, RevokeRefused, ledger
<1>1. lane.reported /\ Reported(r) /\ Closing(r) /\ lane.pc = "open"
  BY <1>0 DEF Turns, Progress, Reported
<1>2. \A k, i : OnLedger(k, i)' <=> OnLedger(k, i)
  BY <1>0 DEF OnLedger
<1>3. Funded' /\ MemoryKept
  BY <1>0, FundedSame DEF MemoryKept
<1>4. owned' \subseteq owned
  BY DEF RevokeRefused
<1>5. Bought'
  BY <1>0, <1>1, <1>4 DEF Bought, BoughtBy
<1>6. CASE \E o \in r.owes : /\ owned' = owned \ {o}
                             /\ run' = [run EXCEPT !["lane"].owes = @ \ {o}]
  <2>1. PICK o \in r.owes : owned' = owned \ {o} /\ run' = [run EXCEPT !["lane"].owes = @ \ {o}]
    BY <1>6
  <2>2. run'["lane"].pc = "revoke" /\ run'["lane"].owes = r.owes \ {o} /\ run'["lane"].forced = r.forced
    BY <1>0, <2>1 DEF Run
  <2>3. o \in refused
    BY <1>0, <1>1, <2>1 DEF Closing
  <2>4. Closing(r)'
    <3>1. \A x \in Orders : lane'.outcome[x] = "accepted" /\ x \notin refused' => x \in owned'
      BY <1>0, <1>1, <2>1, <2>3 DEF Closing
    <3>2. run'["lane"].owes \subseteq refused'
      BY <1>0, <1>1, <2>2 DEF Closing
    <3>3. \A x \in refused' \cap lane'.granted : x \in owned' => x \in run'["lane"].owes
      BY <1>0, <1>1, <2>1, <2>2 DEF Closing
    <3>4. \A b \in Buyers : OnLedger("refund", b)' => escrow'[b] = 0
      BY <1>0, <1>1, <1>2 DEF Closing
    <3> QED BY <2>2, <3>1, <3>2, <3>3, <3>4 DEF Closing
  <2>5. Progress(r)'
    BY <1>0, <1>1, <1>2, <2>2, <2>4, ReportedKept
  <2> QED BY <1>3, <1>5, <2>5
<1>7. CASE r.owes = {} /\ run' = [run EXCEPT !["lane"].pc = "holds"] /\ UNCHANGED owned
  <2>1. run'["lane"].pc = "holds" /\ run'["lane"].forced = r.forced
    BY <1>0, <1>7 DEF Run
  <2>2. Closing(r)'
    BY <1>0, <1>1, <1>2, <1>7, <2>1 DEF Closing
  <2>3. Progress(r)'
    BY <1>0, <1>1, <1>2, <2>1, <2>2, ReportedKept
  <2> QED BY <1>3, <1>5, <2>3
<1> QED BY <1>6, <1>7 DEF RevokeRefused

LEMMA HoldsProgress ==
  ASSUME SessionInv, Turns, Funded, Progress(run["lane"]), ReleaseHolds
  PROVE  MemoryKept /\ Funded' /\ Progress(run["lane"])'
<1> DEFINE r == run["lane"]
<1>0. /\ r.pc = "holds" /\ UNCHANGED <<journal, refused, prefund, txns, clearing, escrow, owned>>
      /\ run \in [Procs -> Run] /\ "lane" \in Procs /\ r \in Run /\ lane \in Lane
  BY ShapesAre DEF SessionInv, Procs, ReleaseHolds, ledger
<1>1. lane.reported /\ Closing(r)
  BY <1>0 DEF Turns, Progress, Reported
<1>2. \A k, i : OnLedger(k, i)' <=> OnLedger(k, i)
  BY <1>0 DEF OnLedger
<1>3. MemoryKept /\ lane'.reported = lane.reported
  BY <1>0 DEF ReleaseHolds, MemoryKept, Lane
<1>4. Funded'
  BY <1>0, <1>3, FundedSame DEF MemoryKept
<1>5. CASE run' = run
  <2>1. Closing(r)'
    BY <1>0, <1>1, <1>2, <1>3, <1>5 DEF Closing, MemoryKept
  <2>2. Progress(r)'
    BY <1>0, <1>1, <1>2, <1>3, <1>5, <2>1, ReportedKept DEF MemoryKept
  <2> QED BY <1>3, <1>4, <2>2
<1>6. CASE run' = [run EXCEPT !["lane"].pc = "refund", !["lane"].owes = lane.funded]
  <2>1. run'["lane"].pc = "refund" /\ run'["lane"].owes = lane.funded /\ run'["lane"].forced = r.forced
    BY <1>0, <1>6 DEF Run
  <2>2. \A b \in Buyers : escrow'[b] = 0 \/ b \in lane.funded
    BY <1>0 DEF Funded
  <2>3. Closing(r)'
    BY <1>0, <1>1, <1>2, <1>3, <2>1, <2>2 DEF Closing, MemoryKept
  <2>4. Progress(r)'
    BY <1>0, <1>1, <1>2, <1>3, <2>1, <2>3, ReportedKept DEF MemoryKept
  <2> QED BY <1>3, <1>4, <2>4
<1> QED BY <1>5, <1>6 DEF ReleaseHolds

LEMMA RefundReadProgress ==
  ASSUME SessionInv, Turns, Progress(run["lane"]), RefundRead("lane") \/ EmitSettled
  PROVE  Progress(run["lane"])'
<1> DEFINE r == run["lane"]
<1>0. /\ r.pc = "refund" /\ UNCHANGED <<lane, journal, refused, prefund, txns, clearing, escrow, owned>>
      /\ run \in [Procs -> Run] /\ "lane" \in Procs /\ r \in Run
      /\ r.owes \subseteq Buyers /\ escrow \in [Buyers -> Nat]
  BY ShapesAre DEF SessionInv, NettingTyped, Memory, Books, Procs, RefundRead, EmitSettled, ledger
<1>1. lane.reported /\ Closing(r)
  BY <1>0 DEF Turns, Progress, Reported
<1>2. \A k, i : OnLedger(k, i)' <=> OnLedger(k, i)
  BY <1>0 DEF OnLedger
<1>3. \A x \in refused \cap lane.granted : x \notin owned
  BY <1>0, <1>1 DEF Closing
<1>4. \A b \in Buyers : escrow[b] = 0 \/ b \in r.owes
  BY <1>0, <1>1 DEF Closing
<1>5. ASSUME run'["lane"].forced = r.forced, run'["lane"].pc \in {"refund", "post", "emit"},
             \A b \in Buyers : escrow[b] = 0 \/ (b \in run'["lane"].owes /\ run'["lane"].pc # "emit"),
             run'["lane"].pc = "post" => run'["lane"].amount = escrow[run'["lane"].buyer]
      PROVE  Progress(r)'
  <2>1. Closing(r)'
    BY <1>0, <1>1, <1>2, <1>3, <1>5 DEF Closing
  <2> QED BY <1>0, <1>1, <1>2, <1>5, <2>1, ReportedKept
<1>6. CASE EmitSettled
  <2>1. r.owes = {} /\ run' = [run EXCEPT !["lane"].pc = "emit"]
    BY <1>6 DEF EmitSettled
  <2>2. run'["lane"].pc = "emit" /\ run'["lane"].forced = r.forced
    BY <1>0, <2>1 DEF Run
  <2> QED BY <1>4, <1>5, <2>1, <2>2
<1>7. CASE RefundRead("lane")
  <2>1. PICK b \in r.owes :
          run' = IF escrow[b] = 0 \/ <<"refund", b>> \in txns
                 THEN [run EXCEPT !["lane"].owes = @ \ {b}]
                 ELSE [run EXCEPT !["lane"].pc = "post", !["lane"].buyer = b, !["lane"].amount = escrow[b]]
    BY <1>7 DEF RefundRead
  <2>2. CASE escrow[b] = 0 \/ <<"refund", b>> \in txns
    <3>1. escrow[b] = 0
      BY <1>0, <1>1, <2>1, <2>2 DEF Closing, OnLedger
    <3>2. run'["lane"].pc = "refund" /\ run'["lane"].owes = r.owes \ {b} /\ run'["lane"].forced = r.forced
      BY <1>0, <2>1, <2>2 DEF Run
    <3> QED BY <1>4, <1>5, <3>1, <3>2
  <2>3. CASE ~(escrow[b] = 0 \/ <<"refund", b>> \in txns)
    <3>1. /\ run'["lane"].pc = "post" /\ run'["lane"].owes = r.owes /\ run'["lane"].forced = r.forced
          /\ run'["lane"].buyer = b /\ run'["lane"].amount = escrow[b]
      BY <1>0, <2>1, <2>3 DEF Run
    <3> QED BY <1>4, <1>5, <3>1
  <2> QED BY <2>2, <2>3
<1> QED BY <1>6, <1>7

LEMMA RefundPostProgress ==
  ASSUME SessionInv, Turns, Funded, Progress(run["lane"]), RefundPost("lane")
  PROVE  Funded' /\ Progress(run["lane"])'
<1> DEFINE r == run["lane"]
           b == r.buyer
<1>0. /\ r.pc = "post" /\ UNCHANGED <<lane, journal, refused, prefund, owned>>
      /\ run \in [Procs -> Run] /\ "lane" \in Procs /\ r \in Run
      /\ b \in Buyers /\ r.owes \subseteq Buyers /\ escrow \in [Buyers -> Nat]
  BY ShapesAre DEF SessionInv, NettingTyped, Memory, Books, Procs, RefundPost
<1>1. lane.reported /\ Closing(r)
  BY <1>0 DEF Turns, Progress, Reported
<1>2. CASE run' = [run EXCEPT !["lane"] = Thrown("lane")] /\ UNCHANGED ledger
  <2>1. Progress(r)'
    BY <1>0, <1>1, <1>2, ThrownProgress
  <2>2. Funded'
    BY <1>0, <1>2, FundedSame DEF ledger
  <2> QED BY <2>1, <2>2
<1>3. CASE /\ txns' = txns \cup {<<"refund", b>>}
           /\ escrow' = [escrow EXCEPT ![b] = @ - r.amount]
           /\ run' = [run EXCEPT !["lane"].pc = "refund", !["lane"].owes = @ \ {b},
                                 !["lane"].buyer = None, !["lane"].amount = 0]
           /\ UNCHANGED clearing
  <2>1. /\ run'["lane"].pc = "refund" /\ run'["lane"].owes = r.owes \ {b} /\ run'["lane"].forced = r.forced
    BY <1>0, <1>3 DEF Run
  <2>2. escrow'[b] = 0 /\ \A c \in Buyers \ {b} : escrow'[c] = escrow[c]
    <3>1. r.amount = escrow[b] /\ escrow[b] \in Nat
      BY <1>0, <1>1 DEF Closing
    <3> QED BY <1>0, <1>3, <3>1
  <2>3. \A k, i : OnLedger(k, i)' <=> OnLedger(k, i) \/ (k = "refund" /\ i = b)
    BY <1>3 DEF OnLedger
  <2>4. Closing(r)'
    <3>1. \A c \in Buyers : OnLedger("refund", c)' => escrow'[c] = 0
      <4> TAKE c \in Buyers
      <4>1. CASE c = b
        BY <2>2, <4>1
      <4>2. CASE c # b
        BY <1>1, <2>2, <2>3, <4>2 DEF Closing
      <4> QED BY <4>1, <4>2
    <3>2. \A c \in Buyers : escrow'[c] = 0 \/ c \in run'["lane"].owes
      <4> TAKE c \in Buyers
      <4>1. CASE c = b
        BY <2>2, <4>1
      <4>2. CASE c # b
        BY <1>0, <1>1, <2>1, <2>2, <4>2 DEF Closing
      <4> QED BY <4>1, <4>2
    <3>3. \A x \in refused \cap lane.granted : x \notin owned
      BY <1>0, <1>1 DEF Closing
    <3> QED BY <1>0, <1>1, <2>1, <3>1, <3>2, <3>3 DEF Closing
  <2>5. \A k \in {"net", "comp", "mv"} : \A i : OnLedger(k, i)' <=> OnLedger(k, i)
    BY <2>3
  <2>6. Progress(r)'
    BY <1>0, <1>1, <1>3, <2>1, <2>4, <2>5, ReportedKept
  <2>7. Funded'
    BY <1>0, <2>2 DEF Funded
  <2> QED BY <2>6, <2>7
<1> QED BY <1>2, <1>3 DEF RefundPost


LEMMA LaneSettleProgress ==
  ASSUME SessionInv, Turns, Bought, Flushed, Funded, Progress(run["lane"]), LaneSettle
  PROVE  Bought' /\ Flushed' /\ Funded' /\ Progress(run["lane"])'
<1> DEFINE r == run["lane"]
           j == journal \o Batch
<1>0. /\ NettingTyped /\ Journaled /\ lane \in Lane /\ run \in [Procs -> Run] /\ "lane" \in Procs /\ r \in Run
      /\ journal \in Seq(Row) /\ j \in Seq(Row) /\ lane.pending <= Len(lane.accepted) /\ r.pc = "idle"
      /\ lane.pc = "open" /\ UNCHANGED <<refused, prefund, owned, used, txns, clearing, escrow>>
  <2>1. NettingTyped /\ Journaled /\ lane.pending <= Len(lane.accepted)
    BY DEF SessionInv, Journaled
  <2>2. journal \in Seq(Row) /\ Batch \in Seq(Row)
    BY <2>1, ShapesAre, RowsTyped
  <2>3. j \in Seq(Row)
    <3> DEFINE t == Batch
    <3>1. t \in Seq(Row)
      BY <2>2
    <3> HIDE DEF t
    <3>2. journal \o t \in Seq(Row)
      BY <2>2, <3>1, ConcatProperties
    <3> QED BY <3>2 DEF t
  <2>4. r.pc = "idle" /\ lane.pc = "open" /\ UNCHANGED <<refused, prefund, owned, used, txns, clearing, escrow>>
    BY DEF LaneSettle, LaneFree, ledger
  <2> QED BY <2>1, <2>2, <2>3, <2>4, ShapesAre DEF Procs
<1>1. \A k, i : OnLedger(k, i)' <=> OnLedger(k, i)
  BY <1>0 DEF OnLedger
<1>2. CASE lane.reported
  <2>1. /\ run' = [run EXCEPT !["lane"].pc = "revoke", !["lane"].owes = refused \cap lane.granted]
        /\ UNCHANGED <<journal, lane>>
    BY <1>2 DEF LaneSettle
  <2>2. /\ run'["lane"].pc = "revoke" /\ run'["lane"].owes = refused \cap lane.granted
        /\ run'["lane"].forced = r.forced
    BY <1>0, <2>1 DEF Run
  <2>3. Closing(r)
    BY <1>2 DEF Progress, Reported
  <2>4. Closing(r)'
    BY <1>0, <1>1, <2>1, <2>2, <2>3 DEF Closing
  <2>5. Progress(r)'
    BY <1>0, <1>1, <1>2, <2>1, <2>2, <2>4, ReportedKept
  <2>6. Bought' /\ Funded' /\ Flushed'
    BY <1>0, <2>1, FlushedSame, FundedSame DEF Bought
  <2> QED BY <2>5, <2>6
<1>3. CASE ~lane.reported
  <2> DEFINE x == j = << >>
  <2>1. /\ journal' = j /\ lane' = [lane EXCEPT !.pending = 0, !.reported = x] /\ x \in BOOLEAN
        /\ run' = IF x THEN [run EXCEPT !["lane"].pc = "revoke"]
                       ELSE [run EXCEPT !["lane"] = Started(r)]
    BY <1>3 DEF LaneSettle
  <2>2. ~r.forced /\ Unreported(r)
    BY <1>3 DEF Progress
  <2>3. /\ refused = {} /\ r.owes = {} /\ Untouched /\ clearing = 0 /\ r.rejected = {}
        /\ \A b \in Buyers : ~OnLedger("refund", b)
        /\ \A o \in Orders : lane.outcome[o] = "accepted" => o \in owned
    BY <1>0, <2>2 DEF Unreported, Stage
  <2> HIDE DEF x, j
  <2>4. MemoryKept \/ (/\ lane'.accepted = lane.accepted /\ lane'.outcome = lane.outcome
                       /\ lane'.order = lane.order /\ lane'.pc = lane.pc
                       /\ lane'.granted = lane.granted /\ lane'.pending = 0
                       /\ lane'.funded = lane.funded)
    BY <1>0, <2>1 DEF Lane
  <2>5. /\ lane'.accepted = lane.accepted /\ lane'.outcome = lane.outcome /\ lane'.order = lane.order
        /\ lane'.pc = "open" /\ lane'.granted = lane.granted /\ lane'.pending = 0
        /\ lane'.funded = lane.funded /\ lane'.reported = x
    BY <1>0, <2>1 DEF Lane
  <2>6. Bought'
    BY <1>0, <2>5 DEF Bought
  <2>7. Funded'
    BY <1>0, <2>5, FundedSame
  <2>8. Flushed'
    BY <1>0, <2>1, <2>5, FlushedMore DEF j
  <2>9. \A k \in Int : ~OnLedger("net", k)' /\ ~OnLedger("comp", k)' /\ ~OnLedger("mv", k)'
    BY <1>1, <2>3 DEF Untouched
  <2>10. CASE x
    <3>1. journal' = << >> /\ run'["lane"].pc = "revoke" /\ run'["lane"].owes = {} /\ run'["lane"].forced = r.forced
      BY <1>0, <2>1, <2>3, <2>10 DEF Run, x
    <3>2. Done(refused)'
      <4>1. DOMAIN journal' = {}
        BY <3>1
      <4>2. NoneStands'
        BY <2>9 DEF NoneStands
      <4> QED BY <1>0, <2>3, <4>1, <4>2 DEF Done
    <3>3. Closing(r)'
      BY <1>0, <1>1, <2>3, <2>5, <3>1 DEF Closing
    <3>4. Progress(r)'
      BY <2>2, <2>5, <2>10, <3>1, <3>2, <3>3 DEF Progress, Reported
    <3> QED BY <2>6, <2>7, <2>8, <3>4
  <2>11. CASE ~x
    <3>1. /\ run'["lane"].pc = "chunk" /\ run'["lane"].i = 0 /\ run'["lane"].owes = {}
          /\ run'["lane"].forced = r.forced /\ run'["lane"].rejected = {}
      <4>1. run' = [run EXCEPT !["lane"] = [r EXCEPT !.pc = "chunk", !.i = 0]]
        BY <2>1, <2>2, <2>11 DEF Started
      <4> QED BY <1>0, <2>3, <4>1 DEF Run
    <3>2. ChunkCount(journal') \in Nat /\ ChunkCount(journal') >= 1 /\ journal' \in Seq(Row)
      <4>1. j # << >> /\ journal' = j
        BY <2>1, <2>11 DEF x
      <4>2. ChunkCount(j) \in Nat /\ ChunkCount(j) >= 1
        BY <1>0, <4>1, ChunksGrow
      <4> QED BY <1>0, <4>1, <4>2
    <3>3. Cleared(journal', 0) = 0
      <4> DEFINE t == journal'
      <4>1. t \in Seq(Row)
        BY <3>2
      <4> HIDE DEF t
      <4>2. Cleared(t, 0) = 0
        BY <4>1, ClearedSteps
      <4> QED BY <4>2 DEF t
    <3>4. InChunk(r.i)'
      <4>1. run'["lane"].i \in 0..ChunkCount(journal') - 1
        BY <3>1, <3>2
      <4>2. clearing' = Cleared(journal', run'["lane"].i)
        BY <1>0, <2>3, <3>1, <3>3
      <4>3. \A k \in Int : /\ OnLedger("net", k)' <=> k \in 0..run'["lane"].i - 1
                           /\ ~OnLedger("comp", k)' /\ ~OnLedger("mv", k)'
        BY <2>9, <3>1
      <4> QED BY <4>1, <4>2, <4>3 DEF InChunk
    <3>5. Stage(r)'
      BY <3>1, <3>4 DEF Stage
    <3>6. Unreported(r)'
      BY <1>0, <1>1, <2>3, <2>5, <3>1, <3>5 DEF Unreported
    <3>7. Progress(r)'
      BY <2>2, <2>5, <2>11, <3>1, <3>6 DEF Progress
    <3> QED BY <2>6, <2>7, <2>8, <3>7
  <2> QED BY <2>10, <2>11
<1> QED BY <1>2, <1>3

(***************************************************************************)
(* The owner's promise holds at every step.                                *)
(***************************************************************************)

(* A lane that is up was up, an open one was open, and who came late stays so. *)
LEMMA LaneGrows ==
  ASSUME NettingTyped, NettingNext
  PROVE  /\ lane'.up => lane.up
         /\ lane.closed => lane'.closed
         /\ lane.late \subseteq lane'.late
<1> DEFINE Kept == lane'.up = lane.up /\ lane'.closed = lane.closed /\ lane'.late = lane.late
<1>0. lane \in Lane /\ (lane.pc # "open" => lane.order \in Orders)
  BY DEF NettingTyped, Memory
<1>1. ASSUME NEW o \in Orders, Buying(o)
      PROVE  lane'.up = lane.up /\ lane'.closed = lane.closed /\ lane.late \subseteq lane'.late
  BY <1>1, LaneNow, RecordNow DEF Buying, Now, Stays
<1>2. CASE \E o \in Orders : Buying(o)
  BY <1>1, <1>2
<1>3. CASE RecordThrows
  <2>1. lane.order \in Orders /\ lane' = Answer(lane.order, "threw") /\ "threw" \in Outcomes
    BY <1>0, <1>3 DEF RecordThrows, Outcomes
  <2>2. /\ Answer(lane.order, "threw").up = lane.up /\ Answer(lane.order, "threw").closed = lane.closed
        /\ Answer(lane.order, "threw").late = lane.late
    BY <1>0, <2>1, AnswerIs
  <2> QED BY <2>1, <2>2
<1>4. CASE LaneSettle
  <2> DEFINE x == journal \o Batch = << >>
  <2>1. lane' = lane \/ lane' = [lane EXCEPT !.pending = 0, !.reported = x]
    BY <1>4 DEF LaneSettle
  <2> HIDE DEF x
  <2>2. Kept
    BY <1>0, <2>1 DEF Lane
  <2> QED BY <2>2
<1>5. CASE ReleaseHolds
  BY <1>0, <1>5 DEF ReleaseHolds, Lane
<1>6. CASE CloseLane
  BY <1>0, <1>6 DEF CloseLane, Lane
<1>7. ASSUME NEW p \in Procs, SettleStep(p)
      PROVE  (lane'.up => lane.up) /\ (lane.closed => lane'.closed) /\ lane.late \subseteq lane'.late
  <2>1. CASE Report(p)
    <3> DEFINE x == lane.reported \/ p = "lane"
    <3>1. lane' = [lane EXCEPT !.reported = x]
      BY <1>0, <2>1 DEF Report, Lane
    <3> HIDE DEF x
    <3>2. Kept
      BY <1>0, <3>1 DEF Lane
    <3> QED BY <3>2
  <2>2. CASE Crash(p)
    <3>1. lane' = lane \/ lane' = [lane EXCEPT !.up = FALSE, !.pc = "open", !.order = None, !.queued = None]
      BY <2>2 DEF Crash
    <3> QED BY <1>0, <3>1 DEF Lane
  <2>3. CASE ~Report(p) /\ ~Crash(p)
    <3>1. lane' = lane
      BY <1>7, <2>3 DEF SettleStep, PostChunk, PostChunkFails, Compensate, Replay, ReplayFails,
         ReleaseClaim, GiveBack, SettleStepFails, RefundRead, RefundPost
    <3> QED BY <3>1
  <2> QED BY <2>1, <2>2, <2>3
<1>8. CASE \E p \in Procs : SettleStep(p)
  BY <1>7, <1>8
<1>9. CASE RevokeRefused \/ EmitSettled \/ SweepOrphan \/ Failover \/ PruneSettled \/ RefundsDone
           \/ MainLaneSpend \/ MainLaneTopUp
  <2>1. lane' = lane
    BY <1>9 DEF RevokeRefused, EmitSettled, SweepOrphan, Failover, PruneSettled, RefundsDone,
       MainLaneSpend, MainLaneTopUp
  <2> QED BY <2>1
<1>10. Orders # {} \/ ~(GrantItem \/ Record \/ UndoGrant \/ RecordFlush \/ RecordFlushFails \/ Accept)
  BY <1>0 DEF GrantItem, Record, UndoGrant, RecordFlush, RecordFlushFails, Accept
<1>11. CASE LaneSettleFails
  BY <1>0, <1>11 DEF LaneSettleFails, Lane
<1> QED BY <1>2, <1>3, <1>4, <1>5, <1>6, <1>8, <1>9, <1>10, <1>11 DEF NettingNext, Buying

(* What a settle failed at once stays on the record. *)
LEMMA FailuresStay ==
  ASSUME NettingTyped, NettingNext
  PROVE  used.failed \subseteq used'.failed
<1>0. used \in Used /\ \A step : Fault(step) => used.failed \subseteq used'.failed
  <2>1. used \in Used
    BY DEF NettingTyped, Memory
  <2> QED BY <2>1 DEF Fault, Used
<1>1. ASSUME NEW p \in Procs, SettleStep(p) PROVE used.failed \subseteq used'.failed
  <2>1. CASE PostChunkFails(p) \/ ReplayFails(p) \/ SettleStepFails(p)
    BY <1>0, <2>1 DEF PostChunkFails, ReplayFails, SettleStepFails
  <2>2. CASE Compensate(p)
    <3>1. used' = used \/ used' = [used EXCEPT !.failed = @ \cup {"comp"}]
      BY <2>2 DEF Compensate
    <3> QED BY <1>0, <3>1 DEF Used
  <2>3. CASE Crash(p)
    BY <1>0, <2>3 DEF Crash, Used
  <2>4. CASE PostChunk(p) \/ Replay(p) \/ ReleaseClaim(p) \/ GiveBack(p) \/ Report(p) \/ RefundRead(p) \/ RefundPost(p)
    <3>1. used' = used
      BY <2>4 DEF PostChunk, Replay, ReleaseClaim, GiveBack, Report, RefundRead, RefundPost
    <3> QED BY <3>1
  <2> QED BY <1>1, <2>1, <2>2, <2>3, <2>4 DEF SettleStep
<1>2. CASE RecordFlushFails \/ LaneSettleFails
  BY <1>0, <1>2 DEF RecordFlushFails, LaneSettleFails
<1>3. CASE MainLaneSpend \/ MainLaneTopUp
  BY <1>0, <1>3 DEF MainLaneSpend, MainLaneTopUp, Used
<1>4. CASE \/ \E o \in Orders : Enqueue(o) \/ PurchaseRefused(o) \/ Purchase(o)
           \/ GrantItem \/ RecordThrows \/ Record \/ UndoGrant \/ RecordFlush \/ Accept
           \/ LaneSettle \/ RevokeRefused \/ ReleaseHolds \/ EmitSettled \/ CloseLane
           \/ SweepOrphan \/ Failover \/ PruneSettled \/ RefundsDone
  <2>1. used' = used
    BY <1>4 DEF Enqueue, PurchaseRefused, Purchase, GrantItem, RecordThrows, Record, UndoGrant, RecordFlush,
       Accept, LaneSettle, RevokeRefused, ReleaseHolds, EmitSettled, CloseLane, SweepOrphan, Failover,
       PruneSettled, RefundsDone
  <2> QED BY <2>1
<1> QED BY <1>1, <1>2, <1>3, <1>4 DEF NettingNext

(* While its owner works no recovery does. *)
LEMMA RecoveryRests ==
  ASSUME ~Overlap, Turns, lane.up, ~lane.closed
  PROVE  ~SettleStep("rec") /\ ~SweepOrphan /\ ~Failover /\ ~PruneSettled /\ ~RefundsDone
<1>1. run["rec"].pc = "idle"
  BY DEF Turns
<1>2. ~CanRecover
  BY DEF CanRecover
<1> QED BY <1>1, <1>2 DEF SettleStep, PostChunk, PostChunkFails, Compensate, Replay, ReplayFails,
       ReleaseClaim, GiveBack, AtClaim, Report, SettleStepFails, RefundRead, RefundPost, Crash,
       SweepOrphan, Failover, PruneSettled, RefundsDone


LEMMA MemorySame ==
  ASSUME Bought, Flushed, MemoryKept, UNCHANGED <<owned, journal>>, used.failed \subseteq used'.failed
  PROVE  Bought' /\ Flushed'
<1>1. Bought'
  BY DEF Bought, MemoryKept
<1>2. Flushed'
  BY FlushedSame DEF MemoryKept
<1> QED BY <1>1, <1>2

EventNow == Bought /\ Flushed /\ Funded /\ Progress(run["lane"])

LEMMA SettleEvent ==
  ASSUME SessionInv, Turns, EventNow, SettleStep("lane"), Good', used.failed \subseteq used'.failed
  PROVE  EventNow'
<1>0. Bought /\ Flushed /\ Funded /\ Progress(run["lane"]) /\ ~SettleRetried'
  BY DEF EventNow, Good
<1>1. CASE Crash("lane")
  <2>1. lane \in Lane
    BY ShapesAre DEF SessionInv
  <2>2. ~lane'.up
    BY <1>1, <2>1 DEF Crash, Lane
  <2> QED BY <2>2 DEF Good
<1>2. CASE Report("lane")
  <2>1. Progress(run["lane"])' /\ MemoryKept
    BY <1>0, <1>2, ReportProgress DEF MemoryKept
  <2>2. UNCHANGED <<owned, journal, escrow, prefund>>
    BY <1>2 DEF Report, ledger
  <2>3. Bought' /\ Flushed' /\ Funded'
    BY <1>0, <2>1, <2>2, MemorySame, FundedSame DEF MemoryKept
  <2> QED BY <2>1, <2>3 DEF EventNow
<1>3. CASE ~Crash("lane") /\ ~Report("lane")
  <2>1. UNCHANGED <<lane, owned, journal, prefund>>
    BY <1>3 DEF SettleStep, PostChunk, PostChunkFails, Compensate, Replay, ReplayFails,
       ReleaseClaim, GiveBack, SettleStepFails, RefundRead, RefundPost
  <2>2. Bought' /\ Flushed'
    BY <1>0, <2>1, MemorySame DEF MemoryKept
  <2>3. CASE SettleStepFails("lane") \/ RefundRead("lane")
    <3>1. escrow' = escrow
      BY <2>3 DEF SettleStepFails, RefundRead, ledger
    <3>2. Funded'
      BY <1>0, <2>1, <3>1, FundedSame
    <3>3. Progress(run["lane"])'
      BY <1>0, <2>3, FailsProgress, RefundReadProgress
    <3> QED BY <2>2, <3>2, <3>3 DEF EventNow
  <2>4. CASE ~(SettleStepFails("lane") \/ RefundRead("lane"))
    <3>1. Funded' /\ Progress(run["lane"])'
      BY <1>0, <1>3, <2>4, PostChunkProgress, ChunkFailsProgress, CompensateProgress, ReplayProgress,
         ReleaseProgress, RefundPostProgress DEF SettleStep
    <3> QED BY <2>2, <3>1 DEF EventNow
  <2> QED BY <2>3, <2>4
<1> QED BY <1>1, <1>2, <1>3

LEMMA EventNext ==
  ASSUME ~Overlap
  PROVE  OnceInv /\ EventInv /\ [NettingNext]_nettingVars => EventInv'
<1> SUFFICES ASSUME OnceInv, EventInv, [NettingNext]_nettingVars, Good' PROVE EventNow'
  BY DEF EventInv, EventNow
<1>0. SessionInv /\ Turns /\ NettingTyped /\ Journaled /\ Serial
  BY DEF OnceInv, SessionInv
<1>1. CASE UNCHANGED nettingVars
  <2>1. UNCHANGED <<lane, run, used, journal, owned, txns, clearing, escrow, refused, prefund>>
    BY <1>1 DEF nettingVars, ledger
  <2>2. Good
    BY <2>1 DEF Good, SettleRetried, Failed
  <2>3. Bought /\ Flushed /\ Funded /\ Progress(run["lane"])
    BY <2>2 DEF EventInv
  <2>4. Progress(run["lane"])'
    BY <1>0, <2>1, <2>3, ProgressSame
  <2>5. Bought' /\ Flushed' /\ Funded'
    BY <2>1, <2>3, FundedSame, MemorySame DEF MemoryKept
  <2> QED BY <2>4, <2>5 DEF EventNow
<1>2. CASE NettingNext
  <2>1. used.failed \subseteq used'.failed
    BY <1>0, <1>2, FailuresStay
  <2>2. Good
    <3>1. SettleRetried => SettleRetried'
      BY <2>1 DEF SettleRetried, Failed
    <3> QED BY <1>0, <1>2, <3>1, LaneGrows DEF Good
  <2>3. Bought /\ Flushed /\ Funded /\ Progress(run["lane"]) /\ EventNow
    BY <2>2 DEF EventInv, EventNow
  <2>4. ASSUME NEW o \in Orders, Buying(o) PROVE EventNow'
    <3>1. lane.pending <= Len(lane.accepted)
      BY <1>0 DEF Journaled
    <3> QED BY <1>0, <2>3, <2>4, <3>1, BoughtKept, FlushedKept, FundedKept, ProgressKept DEF EventNow
  <2>5. CASE RecordThrows
    <3>1. lane.pc = "record" /\ run["lane"].settled
      BY <2>5 DEF RecordThrows
    <3>2. ~lane.reported
      BY <2>3, <3>1 DEF Progress, Reported
    <3>3. run["lane"].pc = "idle"
      BY <1>0, <3>1 DEF Serial
    <3>4. ~run["lane"].settled
      BY <2>3, <3>2, <3>3 DEF Progress, Unreported
    <3> QED BY <3>1, <3>4
  <2>6. CASE LaneSettle
    BY <1>0, <2>3, <2>6, LaneSettleProgress DEF EventNow
  <2>7. CASE RevokeRefused
    <3>1. MemoryKept /\ Bought' /\ Funded' /\ Progress(run["lane"])'
      BY <1>0, <2>3, <2>7, RevokeProgress
    <3>2. journal' = journal
      BY <2>7 DEF RevokeRefused
    <3>3. Flushed'
      BY <2>1, <2>3, <3>1, <3>2, FlushedSame DEF MemoryKept
    <3> QED BY <3>1, <3>3 DEF EventNow
  <2>8. CASE ReleaseHolds
    <3>1. MemoryKept /\ Funded' /\ Progress(run["lane"])'
      BY <1>0, <2>3, <2>8, HoldsProgress
    <3>2. UNCHANGED <<owned, journal>>
      BY <2>8 DEF ReleaseHolds
    <3> QED BY <2>1, <2>3, <3>1, <3>2, MemorySame DEF EventNow
  <2>9. CASE EmitSettled
    <3>1. UNCHANGED <<lane, owned, journal, escrow, prefund>>
      BY <2>9 DEF EmitSettled, ledger
    <3>2. Progress(run["lane"])'
      BY <1>0, <2>3, <2>9, RefundReadProgress
    <3>3. Bought' /\ Flushed' /\ Funded'
      BY <2>1, <2>3, <3>1, FundedSame, MemorySame DEF MemoryKept
    <3> QED BY <3>2, <3>3 DEF EventNow
  <2>10. CASE CloseLane
    <3>1. lane \in Lane
      BY <1>0, ShapesAre
    <3>2. lane'.closed
      BY <2>10, <3>1 DEF CloseLane, Lane
    <3> QED BY <3>2 DEF Good
  <2>11. CASE \E p \in Procs : SettleStep(p)
    <3>1. ~SettleStep("rec")
      BY <1>0, <2>2, RecoveryRests DEF Good
    <3>2. SettleStep("lane")
      BY <2>11, <3>1 DEF Procs
    <3> QED BY <1>0, <2>1, <2>3, <3>2, SettleEvent
  <2>12. CASE SweepOrphan \/ Failover \/ PruneSettled \/ RefundsDone
    BY <1>0, <2>2, <2>12, RecoveryRests DEF Good
  <2>13. CASE MainLaneSpend \/ MainLaneTopUp
    <3>1. UNCHANGED <<lane, run, journal, owned, txns, clearing, escrow, refused, prefund>>
      BY <2>13 DEF MainLaneSpend, MainLaneTopUp
    <3>2. Progress(run["lane"])'
      BY <1>0, <2>3, <3>1, ProgressSame
    <3>3. Bought' /\ Flushed' /\ Funded'
      BY <2>1, <2>3, <3>1, FundedSame, MemorySame DEF MemoryKept
    <3> QED BY <3>2, <3>3 DEF EventNow
  <2>14. ASSUME GrantItem \/ Record \/ UndoGrant \/ RecordFlush \/ RecordFlushFails \/ Accept
         PROVE  \E o \in Orders : Buying(o)
    <3>1. lane.order \in Orders
      BY <1>0, <2>14 DEF NettingTyped, Memory, GrantItem, Record, UndoGrant, RecordFlush, RecordFlushFails, Accept
    <3> QED BY <2>14, <3>1 DEF Buying
  <2>15. CASE LaneSettleFails
    <3>1. CASE Orders = {}
      <4>1. lane.accepted \in Seq(Row) /\ lane.pending > 0 /\ lane.pending <= Len(lane.accepted)
            /\ lane.pending \in Nat
        BY <1>0, <2>15, ShapesAre DEF Journaled, LaneSettleFails
      <4>2. 1 \in DOMAIN lane.accepted /\ lane.accepted[1] \in Row
        BY <4>1, LenProperties
      <4> QED BY <3>1, <4>2 DEF Row
    <3>2. CASE Orders # {}
      BY <2>4, <2>15, <3>2 DEF Buying
    <3> QED BY <3>1, <3>2
  <2> QED BY <1>2, <2>4, <2>5, <2>6, <2>7, <2>8, <2>9, <2>10, <2>11, <2>12, <2>13, <2>14, <2>15
          DEF NettingNext, Buying
<1> QED BY <1>1, <1>2

LEMMA EventInit == NettingInit => EventInv
<1> SUFFICES ASSUME NettingInit PROVE EventNow
  BY DEF EventInv, EventNow
<1>1. /\ lane = FreshLane /\ run = [p \in Procs |-> FreshRun] /\ "lane" \in Procs
      /\ owned = {} /\ txns = {} /\ clearing = 0 /\ refused = {}
      /\ escrow = [b \in Buyers |-> 0] /\ journal = << >>
  BY DEF NettingInit, Procs
<1>2. run["lane"] = FreshRun
  BY <1>1
<1>3. /\ lane.accepted = << >> /\ lane.pending = 0 /\ lane.pc = "open" /\ ~lane.reported
      /\ \A o \in Orders : lane.outcome[o] = None
  BY <1>1 DEF FreshLane
<1>4. /\ DOMAIN lane.accepted = {} /\ Len(lane.accepted) = 0 /\ Movements(lane.accepted) = {}
  BY <1>3 DEF Movements
<1>5. /\ FreshRun.pc = "idle" /\ FreshRun.owes = {} /\ FreshRun.rejected = {} /\ ~FreshRun.forced
      /\ ~FreshRun.settled
  BY DEF FreshRun
<1>6. Bought
  BY <1>1, <1>3, <1>4 DEF Bought, BoughtBy, None
<1>7. Flushed
  <2>1. 1..Len(lane.accepted) - lane.pending = {}
    BY <1>3, <1>4
  <2> QED BY <2>1 DEF Flushed
<1>8. Funded
  BY <1>1, <1>3, <1>4 DEF Funded
<1>9. \A k, i : ~OnLedger(k, i)
  BY <1>1 DEF OnLedger
<1>10. Progress(run["lane"])
  BY <1>1, <1>2, <1>3, <1>5, <1>9 DEF Progress, Unreported, Stage, Untouched, None
<1> QED BY <1>6, <1>7, <1>8, <1>10 DEF EventNow

(* What the owner's settled event says is so: settle() of src/src/netting.ts and   *)
(* runSettle of src/src/instance.ts return every escrow, leave clearing flat and   *)
(* let a buyer keep exactly what was paid for, for any orders, buyers, funds and    *)
(* chunks and any crashes, failed calls and main-lane debits on the way, when no    *)
(* settle had to be run again and nobody was served after the report.               *)
THEOREM SettledEvent ==
  ASSUME ~Overlap
  PROVE  NettingSpec => []SettledEventIsTrue
<1>1. OnceInv /\ EventInv => SettledEventIsTrue
  <2> SUFFICES ASSUME OnceInv, EventInv, run["lane"].pc = "emit", lane.late = {}, ~SettleRetried
               PROVE  /\ clearing = 0
                      /\ \A b \in Buyers : escrow[b] = 0
                      /\ \A o \in Orders :
                           /\ lane.outcome[o] = "accepted" => (o \in owned <=> Paid(o)) \/ Failed({"flush"})
                           /\ lane.outcome[o] = "rejected" => o \notin owned
    BY DEF SettledEventIsTrue
  <2> DEFINE r == run["lane"]
  <2>0. SessionInv /\ Turns /\ journal \in Seq(Row) /\ lane.accepted \in Seq(Row)
    BY ShapesAre DEF OnceInv, SessionInv
  <2>1. Good /\ lane.reported
    BY <2>0 DEF Turns, Good
  <2>2. Bought /\ Flushed /\ Progress(r) /\ Reported(r) /\ Closing(r) /\ Done(refused) /\ lane.pc = "open"
        /\ lane.pending = 0
    BY <2>1 DEF EventInv, Progress, Reported
  <2>3. clearing = 0 /\ \A b \in Buyers : escrow[b] = 0
    BY <2>2 DEF Done, Closing
  <2>4. ASSUME NEW o \in Orders, lane.outcome[o] = "rejected" PROVE o \notin owned
    BY <2>2, <2>4 DEF Bought, BoughtBy
  <2>5. ASSUME NEW o \in Orders, lane.outcome[o] = "accepted", ~Failed({"flush"})
        PROVE  o \in owned <=> Paid(o)
    <3>1. o \in lane.granted /\ o \in Movements(lane.accepted)
      BY <2>2, <2>5 DEF Bought, BoughtBy
    <3>2. PICK m \in DOMAIN journal : journal[m].order = o
      <4>1. PICK k \in DOMAIN lane.accepted : lane.accepted[k].order = o
        BY <3>1 DEF Movements
      <4>2. k \in 1..Len(lane.accepted) - lane.pending
        BY <2>0, <2>2, LenProperties
      <4>3. \E m \in DOMAIN journal : journal[m] = lane.accepted[k]
        BY <2>2, <2>5, <4>2 DEF Flushed
      <4> QED BY <4>1, <4>3
    <3>3. 0 \in 0..ChunkCount(journal) - 1 /\ journal # << >>
      <4>1. journal # << >>
        BY <3>2
      <4>2. ChunkCount(journal) \in Nat /\ ChunkCount(journal) >= 1
        BY <2>0, <4>1, ChunksGrow
      <4> QED BY <4>1, <4>2
    <3>4. o \in owned <=> o \notin refused
      BY <2>2, <2>5, <3>1 DEF Closing
    <3>5. CASE refused = {} /\ \A k \in 0..ChunkCount(journal) - 1 : Effective(k)
      BY <3>2, <3>3, <3>4, <3>5 DEF Paid, Netted
    <3>6. CASE /\ NoneStands
               /\ \A k \in DOMAIN journal : OnLedger("mv", k) <=> journal[k].order \notin refused
      <4>1. ~Effective(0)
        BY <3>6 DEF NoneStands, OnLedger, Effective
      <4>2. ~Netted
        BY <3>3, <4>1 DEF Netted
      <4>3. Paid(o) <=> o \notin refused
        BY <3>2, <3>6, <4>2 DEF Paid, OnLedger
      <4> QED BY <3>4, <4>3
    <3> QED BY <2>2, <3>5, <3>6 DEF Done
  <2> QED BY <2>3, <2>4, <2>5
<1>2. NettingSpec => []OnceInv
  BY OnceInit, OnceNext, PTL DEF NettingSpec
<1>3. NettingSpec => []EventInv
  BY <1>2, EventInit, EventNext, PTL DEF NettingSpec
<1> QED BY <1>1, <1>2, <1>3, PTL



=============================================================================
