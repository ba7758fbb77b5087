------------------------------ MODULE Treasury ------------------------------
(***************************************************************************)
(* Credit maturity (src/src/maturity.ts), the backing of users' credits by *)
(* cash in trust (src/src/integrity.ts) and the fee sweep that takes the   *)
(* platform's share of that cash (src/src/worker/treasury.ts), among the   *)
(* operations and the netting sessions that move the accounts they read.   *)
(*                                                                         *)
(* An operation is one step: it holds its locks from before its reads to   *)
(* its commit, and it waits while a fee sweep holds one of them.  A fee    *)
(* sweep is many steps, one for every row it reads: it reads committed     *)
(* rows, most of them without a lock.  Several sweeps may run at once.     *)
(*                                                                         *)
(* The entries of one transaction are one element of postings.  Platform   *)
(* accounts have one row per shard, shard 0 being the bare row.  Amounts   *)
(* are credits, those of trust rows USD; accounts no one here reads        *)
(* (clearing, stored value, equity, receivable) are left out.  So are the  *)
(* clawback and the charge of a subscription, which only lower a wallet.   *)
(*                                                                         *)
(* Users are owed what is in their wallets and in the escrows of their     *)
(* sessions.  Of a session (src/src/instance.ts, src/src/netting.ts) there *)
(* is what it posts: Netting has its journal, its crashes and its retries. *)
(***************************************************************************)
EXTENDS Integers, Sequences, FiniteSets, FiniteSetsExt, SequencesExt, Sums

CONSTANTS
    Users,
    Shards,               \* 0..platformShards - 1
    Sources,              \* the funding sources of top-ups
    HorizonOf,            \* maturityHorizonMs, with one for "unknown"
    Sessions,
    EscrowSessions,       \* those whose lane prefunds an escrow
    EscrowAmount,         \* prefund.amountMinor
    NetWidth,             \* chunkWidth
    RankOf,               \* [Accounts -> Int]: the order of the account ids
    TopUpAmount, Price, Fee, PayoutAmount, Correction,
    ParNum, ParDen,       \* USD per credit at par
    PayNum, PayDen,       \* and at the payout rate
    ArchiveAge,           \* checkpointOlderThanMs
    Sweeps,
    MaxPostings, MaxTopUps, MaxSales, MaxAdjusts, MaxBuys, MaxSweeps, MaxTime \* bounds of the run

ASSUME TreasuryAssumption ==
    /\ IsFiniteSet(Users)
    /\ IsFiniteSet(Shards) /\ Shards \subseteq Nat /\ 0 \in Shards
    /\ Sources \cup {"unknown"} \subseteq DOMAIN HorizonOf
    /\ \A source \in DOMAIN HorizonOf : HorizonOf[source] \in Nat
    /\ {TopUpAmount, Price, PayoutAmount, Correction, EscrowAmount, NetWidth} \subseteq Nat \ {0}
    /\ IsFiniteSet(Sessions) /\ EscrowSessions \subseteq Sessions
    /\ Fee \in 0..Price
    /\ {ParNum, ParDen, PayNum, PayDen} \subseteq Nat \ {0}
    /\ PayNum * ParDen <= ParNum * PayDen
    /\ ArchiveAge \in Nat
    /\ {MaxPostings, MaxTopUps, MaxSales, MaxAdjusts, MaxBuys, MaxSweeps, MaxTime} \subseteq Nat

VARIABLES
    postings,   \* Seq([at, source, kind, delta]): every transaction committed
    balance,    \* [Accounts -> Int]: the account_balances rows
    pruned,     \* how many of them the archive has deleted
    undone,     \* the postings refunded or reversed, by index: reversed:<txn>
    payout,     \* {the USD quoted for the payout under way}, or {}
    epoch,      \* [Sessions -> [pc, bought, chunks]]: where its settle is, the
                \* purchases to settle by buyer, its net postings that stand
    asks,       \* the moves to or from an escrow read and not yet posted
    keys,       \* run times whose fees:<time> key is recorded
    job,        \* [Sweeps -> the fee sweep under way]
    sweeps,
    now

vars ==
    <<postings, balance, pruned, undone, payout, epoch, asks, keys, job, sweeps, now>>

Wallet(u) == <<"spendable", u>>
Escrow(u, n) == <<"escrow", u, n>>
Earned == <<"earned", 0>>
Reserve == <<"payout_reserve", 0>>
Revenue(s) == <<"revenue", s>>
Trust(s) == <<"trust_cash", s>>
Wallets == {Wallet(u) : u \in Users}
Escrows == {Escrow(u, n) : u \in Users, n \in EscrowSessions}
Custodial == Wallets \cup Escrows
RevenueRows == {Revenue(s) : s \in Shards}
TrustRows == {Trust(s) : s \in Shards}
Accounts == Custodial \cup {Earned, Reserve} \cup RevenueRows \cup TrustRows

-----------------------------------------------------------------------------
(* Balances and rates. *)

(* The postings of an account among those numbered in S. *)
Of(S, a) == {i \in S : a \in DOMAIN postings[i].delta}
Hot == {i \in DOMAIN postings : i > pruned}

(* heads() walks the chain links still in hot storage. *)
Heads == {a \in Accounts : Of(Hot, a) # {}}

ParFloor(n) == (n * ParNum) \div ParDen
ParCeil(n) == (n * ParNum + ParDen - 1) \div ParDen
UsdToCredit(usd) == (usd * ParDen) \div ParNum
Quote(n) == (n * PayNum) \div PayDen

-----------------------------------------------------------------------------
(* Maturity: an account's balance is the newest run of its lots. *)

(* The entries that raised the account, as far as they are stored. *)
Lots(a) == {i \in Of(Hot, a) : postings[i].delta[a] > 0}
MaturesAt(i) == postings[i].at + HorizonOf[postings[i].source]

(* Mutant: the wait has to have passed, not to have ended. *)
IsMatured_strictly(i) == MaturesAt(i) < now

IsMatured(i) == MaturesAt(i) <= now

(* x, kept within 0..n. *)
Within(x, n) == Max({0, Min({n, x})})

(* What the postings S, all of them the account's, moved it by. *)
Moved(a, S) == Total([i \in S |-> postings[i].delta[a]], S)

(* Mutant: the walk starts at the oldest lot. *)
Slice_of_oldest(a, i) ==
    Within(balance[a] - Moved(a, {j \in Lots(a) : j < i}), postings[i].delta[a])

(* What lot i still covers of the live balance: the newest lots come first. *)
Slice(a, i) ==
    Within(balance[a] - Moved(a, {j \in Lots(a) : j > i}), postings[i].delta[a])

MaturedBalance(a) ==
    LET matured == {i \in Lots(a) : IsMatured(i)}
    IN  IF balance[a] <= 0 THEN 0
        ELSE Total([i \in matured |-> Slice(a, i)], matured)

(* maturedBalanceFullScan, the reference: drain what was spent from the    *)
(* oldest lots, keep the rest (fifoTail), add up what has matured of it.   *)
FullScan(a) ==
    LET lots == Lots(a)
        lot(i) == postings[i].delta[a]
        toDrain[i \in 0..Len(postings)] ==
            IF i = 0 THEN Moved(a, lots) - balance[a]
            ELSE LET before == toDrain[i - 1] IN
                 IF i \in lots /\ before > 0 THEN Max({0, before - lot(i)})
                                             ELSE before
        matured == {i \in lots : IsMatured(i)}
        tail == [i \in matured |-> Max({0, lot(i) - Max({0, toDrain[i - 1]})})]
    IN  IF balance[a] <= 0 THEN 0 ELSE Total(tail, matured)

-----------------------------------------------------------------------------
(* The operations. *)

(* The rows a fee sweep holds from its lock to its end. *)
Locked == UNION {job[w].locks : w \in Sweeps}

(* The rows of a posting: its legs and the balances they move. *)
Post(kind, source, delta) ==
    /\ postings' = Append(postings, [at |-> now, source |-> source,
                                     kind |-> kind, delta |-> delta])
    /\ balance' = [a \in Accounts |->
                    balance[a] + (IF a \in DOMAIN delta THEN delta[a] ELSE 0)]

Commit(kind, source, delta) ==
    /\ Len(postings) < MaxPostings
    /\ DOMAIN delta \cap Locked = {}
    /\ Post(kind, source, delta)

Made(kind) == Cardinality({i \in DOMAIN postings : postings[i].kind = kind})

(* What the walk of a fee sweep misses: a raise of a user's row a, or a    *)
(* fall of a trust row a, that is not, or no longer, to be read, while the *)
(* rows from still are: the trust row that got cash for the raise, or the  *)
(* row the credits came from.                                              *)
Missed(j, a, from) ==
    /\ j.locks # {}
    /\ a \notin j.todo
    /\ from \subseteq j.todo

Mark(rows, from) ==
    job' = [w \in Sweeps |->
                [job[w] EXCEPT !.unseen = @ \/ \E a \in rows : Missed(job[w], a, from)]]

(* A top-up locks its shard of the trust cash, which backs it rounded up. *)
TopUp(u, s, source) ==
    /\ Made("topUp") < MaxTopUps
    /\ Commit("topUp", source,
              [a \in {Wallet(u), Trust(s)} |->
                IF a = Wallet(u) THEN TopUpAmount ELSE ParCeil(TopUpAmount)])
    /\ Mark({Wallet(u)}, {Trust(s)})
    /\ UNCHANGED <<pruned, undone, payout, epoch, asks, keys, sweeps, now>>

SaleDelta(row, s) ==
    [a \in {row, Earned, Revenue(s)} |->
        CASE a = row        -> -Price
          [] a = Earned     -> Price - Fee
          [] a = Revenue(s) -> Fee]

(* A spend needs the price in the wallet and matured. *)
Spend(u, s) ==
    /\ Made("spend") < MaxSales
    /\ balance[Wallet(u)] >= Price
    /\ MaturedBalance(Wallet(u)) >= Price
    /\ Commit("spend", "unknown", SaleDelta(Wallet(u), s))
    /\ UNCHANGED <<pruned, undone, payout, epoch, asks, keys, job, sweeps, now>>

(* A refund needs the sale's posting in hot storage; what an account it    *)
(* takes from does not hold becomes a receivable.  It locks the bare       *)
(* revenue row first.                                                      *)
Refund(i) ==
    /\ i \in Hot \ undone
    /\ postings[i].kind = "spend"
    /\ Revenue(0) \notin Locked
    /\ Commit("refund", "unknown",
              [a \in DOMAIN postings[i].delta |->
                IF a \in Wallets THEN Price
                ELSE -Max({0, Min({balance[a], postings[i].delta[a]})})])
    /\ undone' = undone \cup {i}
    /\ UNCHANGED <<pruned, payout, epoch, asks, keys, job, sweeps, now>>

(* The payout reserves matured earnings and prices them once. *)
RequestPayout ==
    /\ payout = {}
    /\ balance[Earned] >= PayoutAmount
    /\ MaturedBalance(Earned) >= PayoutAmount
    /\ Commit("reserve", "unknown",
              [a \in {Earned, Reserve} |->
                IF a = Earned THEN -PayoutAmount ELSE PayoutAmount])
    /\ payout' = {Quote(PayoutAmount)}
    /\ UNCHANGED <<pruned, undone, epoch, asks, keys, job, sweeps, now>>

(* The reserve clears into revenue and the quoted USD leaves trust, both   *)
(* on the bare rows.                                                       *)
SettlePayout ==
    /\ \E usd \in payout :
        Commit("settle", "unknown",
               [a \in {Reserve, Revenue(0), Trust(0)} |->
                 CASE a = Reserve    -> -PayoutAmount
                   [] a = Revenue(0) -> PayoutAmount
                   [] a = Trust(0)   -> -usd])
    /\ payout' = {}
    /\ UNCHANGED <<pruned, undone, epoch, asks, keys, job, sweeps, now>>

(* An operator adds to a wallet or an escrow against opening equity. *)
Adjust(row) ==
    /\ Made("adjust") + Made("reverse") < MaxAdjusts
    /\ Commit("adjust", "unknown", [a \in {row} |-> Correction])
    /\ Mark({row}, {})
    /\ UNCHANGED <<pruned, undone, payout, epoch, asks, keys, sweeps, now>>

(* A posting again, every sign flipped; no user goes below zero. *)
Flip(kind, i) ==
    LET delta   == postings[i].delta
        raised  == {a \in DOMAIN delta \cap Custodial : delta[a] < 0}
        lowered == {a \in DOMAIN delta \cap TrustRows : delta[a] > 0}
    IN  /\ \A a \in DOMAIN delta \cap (Custodial \cup {Earned}) : balance[a] >= delta[a]
        /\ Commit(kind, "unknown", [a \in DOMAIN delta |-> -delta[a]])
        /\ Mark(raised \cup lowered, {})

(* An operator undoes a posting once, but no reversal.  Those of a payout  *)
(* are left out.                                                           *)
ReversePosting(i) ==
    /\ Made("adjust") + Made("reverse") < MaxAdjusts
    /\ i \in Hot \ undone
    /\ postings[i].kind # "reverse" /\ Reserve \notin DOMAIN postings[i].delta
    /\ Flip("reverse", i)
    /\ undone' = undone \cup {i}
    /\ UNCHANGED <<pruned, payout, epoch, asks, keys, sweeps, now>>

(* The archive deletes the oldest postings once they are old enough. *)
Archive ==
    /\ pruned < Len(postings)
    /\ postings[pruned + 1].at + ArchiveAge <= now
    /\ pruned' = pruned + 1
    /\ UNCHANGED <<postings, balance, undone, payout, epoch, asks, keys, job, sweeps, now>>

Tick ==
    /\ now < MaxTime
    /\ now' = now + 1
    /\ UNCHANGED <<postings, balance, pruned, undone, payout, epoch, asks, keys, job, sweeps>>

-----------------------------------------------------------------------------
(* Netting sessions.  A purchase waits for the settle, which posts the net *)
(* of them all, in chunks, against clearing.                               *)

LaneRow(u, n) == IF n \in EscrowSessions THEN Escrow(u, n) ELSE Wallet(u)

Ask(kind, u, n, amount) ==
    [kind |-> kind, user |-> u, session |-> n, amount |-> amount]

Giver(ask) == IF ask.kind = "fund" THEN Wallet(ask.user) ELSE Escrow(ask.user, ask.session)
Taker(ask) == IF ask.kind = "fund" THEN Escrow(ask.user, ask.session) ELSE Wallet(ask.user)

(* One transaction id for each fund and each return of an escrow. *)
Posted(ask) ==
    \E i \in Hot : /\ postings[i].kind = ask.kind
                   /\ {Giver(ask), Taker(ask)} = DOMAIN postings[i].delta

(* ensurePrefunded: the wallet's matured funds are read before, and not    *)
(* in, the transaction that moves them.                                    *)
FundRead(u, n) ==
    /\ n \in EscrowSessions /\ epoch[n].pc = "open"
    /\ ~Posted(Ask("fund", u, n, EscrowAmount))
    /\ MaturedBalance(Wallet(u)) >= EscrowAmount
    /\ asks' = asks \cup {Ask("fund", u, n, EscrowAmount)}
    /\ UNCHANGED <<postings, balance, pruned, undone, payout, epoch, keys, job, sweeps, now>>

(* The transaction, at once or late: one already there under its id or a   *)
(* row short of the amount undoes it.                                      *)
EscrowPost(ask) ==
    /\ asks' = asks \ {ask}
    /\ IF Posted(ask) \/ balance[Giver(ask)] < ask.amount
       THEN UNCHANGED <<postings, balance, job>>
       ELSE /\ Commit(ask.kind, "unknown",
                      [a \in {Giver(ask), Taker(ask)} |->
                        IF a = Taker(ask) THEN ask.amount ELSE -ask.amount])
            /\ Mark({Taker(ask)}, {Giver(ask)})
    /\ UNCHANGED <<pruned, undone, payout, epoch, keys, sweeps, now>>

(* runPurchase, k times: what a lane accepts from a buyer fits the balance *)
(* it read at their first purchase, in a wallet the matured part of it.    *)
SessionBuy(u, n, k) ==
    /\ epoch[n].pc = "open" /\ epoch[n].bought[u] = 0
    /\ k * Price <= IF n \in EscrowSessions THEN balance[Escrow(u, n)]
                                            ELSE MaturedBalance(Wallet(u))
    /\ epoch' = [epoch EXCEPT ![n].bought[u] = k]
    /\ UNCHANGED <<postings, balance, pruned, undone, payout, asks, keys, job, sweeps, now>>

SessionSettle(n) ==
    /\ epoch[n].pc = "open"
    /\ epoch' = [epoch EXCEPT ![n].pc = "net"]
    /\ UNCHANGED <<postings, balance, pruned, undone, payout, asks, keys, job, sweeps, now>>

Net(n) ==
    LET all == Total(epoch[n].bought, Users)
    IN  [a \in {LaneRow(u, n) : u \in Users} \cup {Earned, Revenue(0)} |->
            CASE a = Earned     -> all * (Price - Fee)
              [] a = Revenue(0) -> all * Fee
              [] OTHER          -> -(epoch[n].bought[a[2]] * Price)]

(* The positions no chunk has posted. *)
Unposted(n) ==
    {a \in DOMAIN Net(n) : Net(n)[a] # 0}
        \ UNION {DOMAIN postings[i].delta : i \in epoch[n].chunks}

(* postChunk: the next chunkWidth of them. *)
NetPost(n) ==
    /\ epoch[n].pc = "net"
    /\ Unposted(n) # {}
    /\ \E C \in SUBSET Unposted(n) :
        /\ Cardinality(C) = Min({NetWidth, Cardinality(Unposted(n))})
        /\ \A a \in C \cap Custodial : balance[a] + Net(n)[a] >= 0
        /\ Commit("net", "unknown", [a \in C |-> Net(n)[a]])
    /\ epoch' = [epoch EXCEPT ![n].chunks = @ \cup {Len(postings) + 1}]
    /\ UNCHANGED <<pruned, undone, payout, asks, keys, job, sweeps, now>>

(* A chunk is refused, or its statement fails. *)
NetFails(n) ==
    /\ epoch[n].pc = "net"
    /\ Unposted(n) # {}
    /\ epoch' = [epoch EXCEPT ![n].pc = "replay"]
    /\ UNCHANGED <<postings, balance, pruned, undone, payout, asks, keys, job, sweeps, now>>

(* The chunks that posted are undone, the last one first. *)
NetUndo(n) ==
    /\ epoch[n].pc = "replay"
    /\ \E i \in epoch[n].chunks :
        /\ \A k \in epoch[n].chunks : k <= i
        /\ Flip("netUndo", i)
        /\ epoch' = [epoch EXCEPT ![n].chunks = @ \ {i}]
    /\ UNCHANGED <<pruned, undone, payout, asks, keys, sweeps, now>>

(* replay: then each movement is posted alone, or refused. *)
ReplayBuy(u, n) ==
    /\ epoch[n].pc = "replay" /\ epoch[n].chunks = {}
    /\ epoch[n].bought[u] > 0
    /\ epoch' = [epoch EXCEPT ![n].bought[u] = @ - 1]
    /\ IF balance[LaneRow(u, n)] < Price THEN UNCHANGED <<postings, balance>>
       ELSE Commit("movement", "unknown", SaleDelta(LaneRow(u, n), 0))
    /\ UNCHANGED <<pruned, undone, payout, asks, keys, job, sweeps, now>>

(* The settle is over: the net is posted, or every movement was replayed. *)
EpochDone(n) ==
    \/ epoch[n].pc = "net" /\ Unposted(n) = {}
    \/ epoch[n].pc = "replay" /\ \A u \in Users : epoch[n].bought[u] = 0

(* refundEscrowRemainder: what is left of an escrow is read outside the    *)
(* transaction too.                                                        *)
ReturnRead(u, n) ==
    /\ n \in EscrowSessions /\ EpochDone(n)
    /\ balance[Escrow(u, n)] > 0
    /\ LET ask == Ask("return", u, n, balance[Escrow(u, n)])
       IN  /\ ~Posted(ask)
           /\ asks' = asks \cup {ask}
    /\ UNCHANGED <<postings, balance, pruned, undone, payout, epoch, keys, job, sweeps, now>>

-----------------------------------------------------------------------------
(* The fee sweep. *)

Resting == [pc |-> "idle", todo |-> {}, trust |-> 0, owed |-> 0,
            amount |-> 0, key |-> 0, locks |-> {}, unseen |-> FALSE]

MaturedRevenue == Total([r \in RevenueRows |-> MaturedBalance(r)], RevenueRows)

(* Mutant: the platform may take all its matured revenue. *)
Sweepable_matured_only(trust, owed) == MaturedRevenue

(* The smaller of the cash surplus and the matured revenue. *)
Sweepable(trust, owed) ==
    Max({0, Min({UsdToCredit(trust) - owed, MaturedRevenue})})

(* realizeFees: a first measure, in a transaction that locks nothing.  It  *)
(* is one step here: what could commit between its reads only changes the  *)
(* amount, which is measured again.                                        *)
Estimate == Sweepable(Total(balance, TrustRows \cap Heads),
                      Total(balance, Custodial \cap Heads))

SweepStart(w) ==
    /\ job[w].pc = "idle"
    /\ sweeps < MaxSweeps
    /\ Estimate > 0
    /\ sweeps' = sweeps + 1
    /\ job' = [job EXCEPT ![w] =
                [Resting EXCEPT !.pc = "lock", !.amount = Estimate, !.key = now]]
    /\ UNCHANGED <<postings, balance, pruned, undone, payout, epoch, asks, keys, now>>

Ends(w) == job' = [job EXCEPT ![w] = Resting]

(* The rows locked, of those modelled: the bare trust row, every revenue   *)
(* shard.                                                                  *)
LockSet == {Trust(0)} \cup RevenueRows

(* The rows the backing counts, among the heads. *)
Walk == (Custodial \cup TrustRows) \cap Heads

(* A wallet or an escrow in funds, or a trust row overdrawn, with no       *)
(* posting left in hot storage.                                            *)
Unlisted ==
    \/ \E a \in Custodial \ Heads : balance[a] > 0
    \/ \E a \in TrustRows \ Heads : balance[a] < 0

(* sweepFees: claim the run's key, then lock and measure again. *)
SweepLock(w) ==
    /\ job[w].pc = "lock"
    /\ Locked = {}
    /\ IF job[w].key \in keys THEN Ends(w)
       ELSE job' = [job EXCEPT ![w] =
                [@ EXCEPT !.pc = "check", !.todo = Walk, !.locks = LockSet,
                          !.unseen = Unlisted]]
    /\ UNCHANGED <<postings, balance, pruned, undone, payout, epoch, asks, keys, sweeps, now>>

(* One row of backingTotals, in the order of the ids. *)
SweepRead(w) ==
    /\ job[w].pc = "check"
    /\ \E a \in job[w].todo :
        /\ \A b \in job[w].todo : RankOf[a] <= RankOf[b]
        /\ LET cash == IF a \in TrustRows THEN balance[a] ELSE 0
               owed == IF a \in Custodial THEN balance[a] ELSE 0
           IN  job' = [job EXCEPT ![w].todo = @ \ {a}, ![w].trust = @ + cash,
                                  ![w].owed = @ + owed]
    /\ UNCHANGED <<postings, balance, pruned, undone, payout, epoch, asks, keys, sweeps, now>>

(* The revenue is read.  More than can be taken: COMMINGLING, and the      *)
(* transaction is undone.                                                  *)
SweepChecked(w) ==
    /\ job[w].pc = "check"
    /\ job[w].todo = {}
    /\ IF job[w].amount > Sweepable(job[w].trust, job[w].owed) THEN Ends(w)
       ELSE job' = [job EXCEPT ![w].pc = "post"]
    /\ UNCHANGED <<postings, balance, pruned, undone, payout, epoch, asks, keys, sweeps, now>>

(* revenueDrainLegs: what each shard gives, the bare row first. *)
Drained(s, amount) ==
    LET matured == [r \in Shards |-> MaturedBalance(Revenue(r))]
    IN  Within(amount - Total(matured, {r \in Shards : r < s}), matured[s])

DrainedAll(amount) == Total([s \in Shards |-> Drained(s, amount)], Shards)

(* The draw and its cash, and the key recorded; legs that do not cover the *)
(* draw would not balance, and the posting is refused.                     *)
SweepPost(w) ==
    /\ job[w].pc = "post"
    /\ LET amount == job[w].amount
           drawn  == [a \in RevenueRows |-> -Drained(a[2], amount)]
           legs   == [a \in {r \in RevenueRows : drawn[r] # 0} \cup {Trust(0)} |->
                        IF a = Trust(0) THEN -ParFloor(amount) ELSE drawn[a]]
       IN  IF DrainedAll(amount) # amount
           THEN UNCHANGED <<postings, balance, keys>>
           ELSE /\ Post("sweep", "unknown", legs)
                /\ keys' = keys \cup {job[w].key}
    /\ Ends(w)
    /\ UNCHANGED <<pruned, undone, payout, epoch, asks, sweeps, now>>

(* The sweep dies or a statement fails: its transaction is undone. *)
SweepDies(w) ==
    /\ job[w].pc # "idle"
    /\ Ends(w)
    /\ UNCHANGED <<postings, balance, pruned, undone, payout, epoch, asks, keys, sweeps, now>>

-----------------------------------------------------------------------------
Init ==
    /\ postings = <<>>
    /\ balance = [a \in Accounts |-> 0]
    /\ pruned = 0
    /\ undone = {}
    /\ payout = {}
    /\ epoch = [n \in Sessions |->
                [pc |-> "open", bought |-> [u \in Users |-> 0], chunks |-> {}]]
    /\ asks = {}
    /\ keys = {}
    /\ job = [w \in Sweeps |-> Resting]
    /\ sweeps = 0
    /\ now = 0

Operation ==
    \/ \E u \in Users, s \in Shards : Spend(u, s)
    \/ \E u \in Users, s \in Shards, source \in Sources : TopUp(u, s, source)
    \/ \E i \in DOMAIN postings : Refund(i) \/ ReversePosting(i)
    \/ \E row \in Custodial : Adjust(row)
    \/ RequestPayout \/ SettlePayout

Session(n) ==
    \/ \E u \in Users : FundRead(u, n) \/ ReplayBuy(u, n) \/ ReturnRead(u, n)
    \/ \E u \in Users, k \in 1..MaxBuys : SessionBuy(u, n, k)
    \/ SessionSettle(n) \/ NetPost(n) \/ NetFails(n) \/ NetUndo(n)

FeeSweep(w) ==
    \/ SweepStart(w) \/ SweepLock(w) \/ SweepRead(w) \/ SweepChecked(w)
    \/ SweepPost(w) \/ SweepDies(w)

Next ==
    \/ Operation \/ Archive \/ Tick
    \/ \E n \in Sessions : Session(n)
    \/ \E ask \in asks : EscrowPost(ask)
    \/ \E w \in Sweeps : FeeSweep(w)

Spec == Init /\ [][Next]_vars

-----------------------------------------------------------------------------
(* Properties. *)

(* Types; user accounts and the payout reserve are never overdrawn. *)
TypeOK ==
    /\ \A i \in DOMAIN postings :
        /\ postings[i].at \in 0..now
        /\ postings[i].source \in DOMAIN HorizonOf
        /\ DOMAIN postings[i].delta \subseteq Accounts
    /\ \A a \in Custodial \cup {Earned, Reserve} : balance[a] >= 0
    /\ \A n \in Sessions : \A i \in epoch[n].chunks : postings[i].kind = "net"
    /\ \A ask \in asks : ask.amount \in Nat \ {0}
    /\ pruned \in 0..Len(postings)
    /\ \A i \in undone : postings[i].kind # "reverse"
    /\ payout \in SUBSET Nat
    /\ keys \subseteq 0..now
    /\ \A w \in Sweeps : /\ job[w].locks \subseteq LockSet
                         /\ job[w].key \in 0..now
                         /\ job[w].amount \in Nat
    /\ sweeps \in 0..MaxSweeps /\ now \in 0..MaxTime

Owed == Total(balance, Custodial)
TrustCash == Total(balance, TrustRows)
Backed == TrustCash >= ParFloor(Owed)

Swept == \E w \in Sweeps :
            job[w].pc = "post" /\ job'[w].pc = "idle" /\ postings' # postings

(* The platform takes surplus only: after the draw of a fee sweep the      *)
(* trust cash covers every wallet and every escrow at par.                 *)
SweepKeepsBacking == [][Swept => Backed']_vars

(* The same, given what the sweep's walk of heads() cannot miss (unseen).  *)
(* When it took its locks, no wallet or escrow in funds and no overdrawn   *)
(* trust row was archived whole.  While it held them, of the wallets and   *)
(* escrows it was not to read, or not any more, none was raised by an      *)
(* operator's adjustment or reverse, by the compensation of a session's    *)
(* chunk, by a top-up on a shard it was still to read, or by a prefund or  *)
(* the return of an escrow from a row it was still to read; and no trust   *)
(* row it was done with was lowered by the reverse of a top-up.            *)
SweepKeepsBackingUnlessUnseen ==
    [][Swept /\ (\A w \in Sweeps : ~job[w].unseen) => Backed']_vars

(* A sweep that passed its check finds matured revenue for its whole draw, *)
(* shard by shard, when it builds its legs.                                *)
DrainCovers ==
    \A w \in Sweeps : job[w].pc = "post" => DrainedAll(job[w].amount) = job[w].amount

(* The bounded walk from the newest lot and the full scan agree on every   *)
(* account, with lots drained, undone or archived.                       *)
MaturityAgrees ==
    \A a \in Accounts \ (TrustRows \cup {Reserve}) :
        MaturedBalance(a) = FullScan(a)

Immature(a) == {i \in Lots(a) : ~IsMatured(i)}

(* Money still in its wait is not spent: the wallet holds every top-up     *)
(* that could yet be charged back.                                         *)
ImmatureUntouched ==
    \A a \in Wallets :
        balance[a] >= Moved(a, Immature(a))

(* Waits end: once the last of its lots is as old as its horizon, all of a *)
(* balance can be drawn.                                                   *)
OldFundsClear ==
    \A a \in Wallets \cup {Earned} :
        (\A i \in Lots(a) : now - postings[i].at >= HorizonOf[postings[i].source])
            => MaturedBalance(a) = balance[a]

(* The same for an account none of whose lots is archived. *)
OldFundsClearUnlessArchived ==
    \A a \in Wallets \cup {Earned} :
        /\ \A i \in Of(DOMAIN postings, a) : i > pruned
        /\ \A i \in Lots(a) : now - postings[i].at >= HorizonOf[postings[i].source]
        => MaturedBalance(a) = balance[a]
=============================================================================
