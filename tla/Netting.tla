------------------------------ MODULE Netting ------------------------------
(***************************************************************************)
(* One netting session of the instance fast lane: the lane that owns it    *)
(* (src/src/instance.ts), the session (src/src/netting.ts), the orphan     *)
(* sweep and the failover host that finish a dead node's session           *)
(* (src/src/worker/orphans.ts, src/src/cluster.ts) and the retention lane  *)
(* that prunes its journal (src/src/worker/retention.ts).                  *)
(*                                                                         *)
(* Every purchase costs one credit, debits its buyer's source (the         *)
(* spendable wallet, or the session's escrow in a prefund lane) and        *)
(* credits one seller.  Each order buys its own sku.  The registry is the  *)
(* shared one.  The journal's hash chain is kept as the movements' seq     *)
(* numbers: it re-derives exactly when no movement is missing.             *)
(*                                                                         *)
(* A transaction is one step; a process may die between any two steps.     *)
(***************************************************************************)
EXTENDS Integers, FiniteSets, Sequences, Sums

CONSTANTS
    Orders,      \* the purchases the game servers may offer, in any order
    Buyers,
    BuyerOf,     \* [Orders -> Buyers]
    Funds,       \* [Buyers -> Nat]: the wallets before the epoch
    Unmatured,   \* [Buyers -> Nat]: the part of them still maturing
    Prefunds,    \* the lanes to consider: 0 a plain lane, n > 0 a prefund of n
    Cap,         \* perUserCapMinor
    MaxBatch,    \* accepted movements per journal batch
    ChunkWidth,  \* accounts per settlement chunk
    FaultSteps,  \* the steps whose store call may fail
    MaxFaults, MaxCrashes, MaxSpends, MaxMainTopUps,  \* bounds of the run
    LateOrders,  \* the orders that may reach the lane while it settles
    Overlap      \* TRUE: a recovery may start while the owner is up

ASSUME NettingAssumption ==
    /\ IsFiniteSet(Orders) /\ IsFiniteSet(Buyers) /\ "shop" \notin Buyers
    /\ BuyerOf \in [Orders -> Buyers]
    /\ Funds \in [Buyers -> Nat]
    /\ Unmatured \in [Buyers -> Nat] /\ \A b \in Buyers : Unmatured[b] <= Funds[b]
    /\ Prefunds \subseteq Nat /\ Cap \in Nat
    /\ MaxBatch \in Nat \ {0} /\ ChunkWidth \in Nat \ {0}
    /\ FaultSteps \subseteq {"flush", "chunk", "comp", "mv", "claim", "give",
                             "revoke", "refund", "emit"}
    /\ {MaxFaults, MaxCrashes, MaxSpends, MaxMainTopUps} \subseteq Nat
    /\ Overlap \in BOOLEAN /\ LateOrders \subseteq Orders

VARIABLES
    prefund,   \* this lane's escrow amount, fixed when it opens
    wallet,    \* [Buyers -> Nat]: spendable
    escrow,    \* [Buyers -> Nat]: the (user, session) escrow
    shop,      \* the seller's earned credits
    clearing,  \* SYSTEM.NETTING_CLEARING
    txns,      \* the ids of the postings on the ledger
    journal,   \* Seq([order, seq]): the movement rows
    expired,   \* retention deleted the journal
    owned,     \* the entitlement rows, by order
    registry,  \* [Buyers -> Int]: the shared reservation counter
    claimed,   \* the durable resv_release claim
    lane,      \* the owner's memory
    run,       \* [{"lane", "rec"} -> a settle under way]
    used,      \* the budgets spent: faults, crashes, spends, topUps
    refused    \* history: the orders a finished settle reported refused
ledger == <<wallet, escrow, shop, clearing, txns>>
nettingVars == <<ledger, journal, expired, owned, registry, claimed, lane, run,
                 used, refused, prefund>>

Procs == {"lane", "rec"}
None == "none"
Outcomes == {None, "accepted", "rejected", "threw"}

(***************************************************************************)
(* The journal and its net.                                                *)
(***************************************************************************)

\* journal(): a journal with a missing row does not re-derive.
ChainOK(j) == \A k \in DOMAIN j : j[k].seq = k - 1

Movements(j) == {j[k].order : k \in DOMAIN j}

\* The accounts a journal touches: each movement its buyer, then the seller.
\* Every net position is nonzero here.
Positions(j) ==
    IF j = << >> THEN {} ELSE {"shop"} \cup {BuyerOf[o] : o \in Movements(j)}

\* The accounts touched before a: the seller comes right after the first buyer.
Buys(j, b) == {k \in DOMAIN j : BuyerOf[j[k].order] = b}
Earlier(j, b) ==
    {c \in Buyers : \E k \in Buys(j, c) : \A n \in Buys(j, b) : k < n}
Place(j, a) ==
    CASE a = "shop" -> 1
      [] a # "shop" /\ Earlier(j, a) = {} -> 0
      [] OTHER -> Cardinality(Earlier(j, a)) + 1

ChunkCount(j) == (Cardinality(Positions(j)) + ChunkWidth - 1) \div ChunkWidth

\* The accounts of chunk i (from 0).
Chunk(j, i) == {a \in Positions(j) : Place(j, a) \div ChunkWidth = i}

Spent(j, b) == Cardinality(Buys(j, b))

\* What chunk i moves: each of its buyers pays, the seller receives.
Debits(j, i) == [b \in Buyers |-> IF b \in Chunk(j, i) THEN Spent(j, b) ELSE 0]
Credits(j, i) == IF "shop" \in Chunk(j, i) THEN Len(j) ELSE 0

\* The account a movement of b debits, and the ledger after taking d[b] from it.
Source == IF prefund = 0 THEN wallet ELSE escrow
Take(d) ==
    LET left == [b \in Buyers |-> Source[b] - d[b]] IN
    IF prefund = 0 THEN wallet' = left /\ UNCHANGED escrow
                   ELSE escrow' = left /\ UNCHANGED wallet

(***************************************************************************)
(* The initial state.                                                      *)
(***************************************************************************)

FreshRun == [pc |-> "idle", i |-> 0, forced |-> FALSE, settled |-> FALSE,
             rejected |-> {}, released |-> FALSE, owes |-> {}, amount |-> 0,
             kind |-> "owner", buyer |-> None]

FreshLane == [up |-> TRUE, closed |-> FALSE, pc |-> "open", order |-> None,
              accepted |-> << >>, pending |-> 0,
              opening |-> [b \in Buyers |-> -1], funded |-> {},
              held |-> [b \in Buyers |-> -1], granted |-> {},
              outcome |-> [o \in Orders |-> None],
              reported |-> FALSE,
              queued |-> None, late |-> {}]

NettingInit ==
    /\ wallet = Funds /\ escrow = [b \in Buyers |-> 0] /\ shop = 0
    /\ clearing = 0 /\ txns = {} /\ journal = << >> /\ expired = FALSE
    /\ owned = {} /\ registry = [b \in Buyers |-> 0] /\ claimed = FALSE
    /\ lane = FreshLane /\ run = [p \in Procs |-> FreshRun]
    /\ used = [faults |-> 0, failed |-> {}, crashes |-> 0, spends |-> 0, topUps |-> 0]
    /\ refused = {} /\ prefund \in Prefunds


(***************************************************************************)
(* A purchase: hold or fund, grant, record, and take the grant back when   *)
(* the session refuses it.  The lane's writer queue lets one entry point   *)
(* run at a time.                                                          *)
(***************************************************************************)

LaneFree == lane.queued = None /\ lane.up /\ ~lane.closed /\ lane.pc = "open" /\ run["lane"].pc = "idle"

\* The manager drops a lane only after its settle returned, so laneFor still
\* hands it out: the purchase waits in the lane's queue and runs after.
Enqueue(o) ==
    /\ lane.up /\ run["lane"].pc # "idle"
    /\ o \in LateOrders /\ lane.queued = None /\ lane.outcome[o] = None
    /\ lane' = [lane EXCEPT !.queued = o]
    /\ UNCHANGED <<ledger, journal, expired, owned, registry, claimed, run, used,
                   refused, prefund>>

Turn(o) == /\ lane.up /\ lane.pc = "open" /\ run["lane"].pc = "idle"
           /\ lane.outcome[o] = None
           /\ lane.queued = o \/ (lane.queued = None /\ ~lane.closed)

Smaller(m, n) == IF m < n THEN m ELSE n
ImmaturePart(b) == Smaller(wallet[b], Unmatured[b])
AcceptedOf(b) == Spent(lane.accepted, b)

Answer(o, outcome) == [lane EXCEPT !.outcome[o] = outcome, !.pc = "open",
                                   !.order = None, !.queued = None]

\* ensurePrefunded: a buyer without the matured funds is refused.
CannotFund(b) == /\ prefund > 0 /\ b \notin lane.funded
                 /\ wallet[b] - ImmaturePart(b) < prefund

PurchaseRefused(o) ==
    /\ Turn(o)
    /\ CannotFund(BuyerOf[o]) \/ AcceptedOf(BuyerOf[o]) + 1 > Cap
    /\ lane' = Answer(o, "rejected")
    /\ UNCHANGED <<ledger, journal, expired, owned, registry, claimed, run, used,
                   refused, prefund>>

\* The first touch of a buyer funds the escrow, or parks the immature slice.
Purchase(o) ==
    LET b == BuyerOf[o]
        funds == prefund > 0 /\ b \notin lane.funded
        holds == prefund = 0 /\ lane.held[b] = -1
        slice == ImmaturePart(b)
    IN
    /\ Turn(o)
    /\ ~CannotFund(b) /\ AcceptedOf(b) + 1 <= Cap
    /\ lane' = [lane EXCEPT !.pc = "grant", !.order = o,
                            !.funded = IF funds THEN @ \cup {b} ELSE @,
                            !.held[b] = IF holds THEN slice ELSE @,
                            !.late = IF lane.reported THEN @ \cup {o} ELSE @]
    /\ wallet' = [wallet EXCEPT ![b] = IF funds THEN @ - prefund ELSE @]
    /\ escrow' = [escrow EXCEPT ![b] = IF funds THEN @ + prefund ELSE @]
    /\ txns' = IF funds THEN txns \cup {<<"fund", b>>} ELSE txns
    /\ registry' = [registry EXCEPT ![b] = IF holds THEN @ - slice ELSE @]
    /\ UNCHANGED <<shop, clearing, journal, expired, owned, claimed, run, used,
                   refused, prefund>>

GrantItem ==
    /\ lane.pc = "grant"
    /\ owned' = owned \cup {lane.order}
    /\ lane' = [lane EXCEPT !.pc = "record"]
    /\ UNCHANGED <<ledger, journal, expired, registry, claimed, run, used,
                   refused, prefund>>

\* A settled session throws, and the grant stays where it is.
RecordThrows ==
    /\ lane.pc = "record" /\ run["lane"].settled
    /\ lane' = Answer(lane.order, "threw")
    /\ UNCHANGED <<ledger, journal, expired, owned, registry, claimed, run, used,
                   refused, prefund>>

\* record: reserve against the first-touch balance plus everything pending.
Record ==
    LET o == lane.order
        b == BuyerOf[o]
        opening == IF lane.opening[b] = -1 THEN Source[b] ELSE lane.opening[b]
        seen == [lane EXCEPT !.opening[b] = opening]
        row == [order |-> o, seq |-> Len(lane.accepted)]
    IN
    /\ lane.pc = "record" /\ ~run["lane"].settled
    /\ \/ /\ opening + registry[b] - 1 < 0
          /\ lane' = [seen EXCEPT !.pc = "undo"]
          /\ UNCHANGED registry
       \/ /\ opening + registry[b] - 1 >= 0
          /\ registry' = [registry EXCEPT ![b] = @ - 1]
          /\ lane' = [seen EXCEPT !.accepted = Append(@, row),
                                  !.pending = @ + 1,
                                  !.pc = IF lane.pending + 1 >= MaxBatch
                                         THEN "flush" ELSE "answer"]
    /\ UNCHANGED <<ledger, journal, expired, owned, claimed, run, used, refused,
                   prefund>>

UndoGrant ==
    /\ lane.pc = "undo"
    /\ owned' = owned \ {lane.order}
    /\ lane' = Answer(lane.order, "rejected")
    /\ UNCHANGED <<ledger, journal, expired, registry, claimed, run, used,
                   refused, prefund>>

\* The batch leaves memory before the append is tried: a failed append loses it.
Batch == SubSeq(lane.accepted, Len(lane.accepted) - lane.pending + 1,
                Len(lane.accepted))

RecordFlush ==
    /\ lane.pc = "flush"
    /\ journal' = journal \o Batch
    /\ lane' = [lane EXCEPT !.pending = 0, !.pc = "answer"]
    /\ UNCHANGED <<ledger, expired, owned, registry, claimed, run, used, refused,
                   prefund>>

CanFail(step) == step \in FaultSteps /\ used.faults < MaxFaults
Fault(step) == used' = [used EXCEPT !.faults = @ + 1, !.failed = @ \cup {step}]

RecordFlushFails ==
    /\ lane.pc = "flush" /\ CanFail("flush")
    /\ lane' = [Answer(lane.order, "threw") EXCEPT !.pending = 0]
    /\ Fault("flush")
    /\ UNCHANGED <<ledger, journal, expired, owned, registry, claimed, run,
                   refused, prefund>>

Accept ==
    /\ lane.pc = "answer"
    /\ lane' = [Answer(lane.order, "accepted") EXCEPT
                    !.granted = @ \cup {lane.order}]
    /\ UNCHANGED <<ledger, journal, expired, owned, registry, claimed, run, used,
                   refused, prefund>>

(***************************************************************************)
(* settle(), by the owner (p = "lane") or by a recovered session ("rec").  *)
(***************************************************************************)

\* Where a settle with the frame r starts.
Started(r) ==
    IF r.forced THEN [r EXCEPT !.settled = TRUE, !.pc = "mv", !.i = 1]
                ELSE [r EXCEPT !.pc = "chunk", !.i = 0]

\* An exception out of settle: the owner keeps its lane for the next sweep of
\* the manager, a recovery is over.
Thrown(p) ==
    IF p = "rec" THEN FreshRun
    ELSE [run[p] EXCEPT !.pc = "idle", !.owes = {}, !.rejected = {}]

\* The owner's settle: its report is kept, so a retry redoes only the rest.
LaneSettle ==
    LET j == journal \o Batch IN
    /\ LaneFree
    /\ IF lane.reported
       THEN /\ run' = [run EXCEPT !["lane"].pc = "revoke",
                                  !["lane"].owes = refused \cap lane.granted]
            /\ UNCHANGED <<journal, lane>>
       ELSE /\ ChainOK(j)
            /\ journal' = j
            /\ lane' = [lane EXCEPT !.pending = 0, !.reported = (j = << >>)]
            /\ run' = IF j = << >> THEN [run EXCEPT !["lane"].pc = "revoke"]
                       ELSE [run EXCEPT !["lane"] = Started(run["lane"])]
    /\ UNCHANGED <<ledger, expired, owned, registry, claimed, used, refused,
                   prefund>>

LaneSettleFails ==
    /\ LaneFree /\ ~lane.reported /\ lane.pending > 0 /\ CanFail("flush")
    /\ lane' = [lane EXCEPT !.pending = 0]
    /\ Fault("flush")
    /\ UNCHANGED <<ledger, journal, expired, owned, registry, claimed, run,
                   refused, prefund>>

\* A chunk is skipped when its posting exists and refused when an account
\* cannot cover it; a refusal sends the settle to undo what it has posted.
PostChunk(p) ==
    LET i == run[p].i
        done == <<"net", i>> \in txns
        d == Debits(journal, i)
        fits == \A b \in Buyers : d[b] <= Source[b]
        next == [run EXCEPT ![p].i = i + 1,
                     ![p].pc = IF i + 1 < ChunkCount(journal) THEN "chunk"
                                                              ELSE "claim"]
    IN
    /\ run[p].pc = "chunk"
    /\ \/ /\ done
          /\ run' = next
          /\ UNCHANGED ledger
       \/ /\ ~done /\ fits
          /\ run' = next
          /\ txns' = txns \cup {<<"net", i>>}
          /\ Take(d)
          /\ shop' = shop + Credits(journal, i)
          /\ clearing' = clearing + Total(d, Buyers) - Credits(journal, i)
       \/ /\ ~done /\ ~fits
          /\ run' = [run EXCEPT ![p].pc = "comp", ![p].i = i - 1]
          /\ UNCHANGED ledger
    /\ UNCHANGED <<journal, expired, owned, registry, claimed, lane, used,
                   refused, prefund>>

PostChunkFails(p) ==
    /\ run[p].pc = "chunk" /\ CanFail("chunk")
    /\ run' = [run EXCEPT ![p].pc = "comp", ![p].i = @ - 1]
    /\ Fault(IF <<"net", run[p].i>> \in txns THEN "again" ELSE "chunk")
    /\ UNCHANGED <<ledger, journal, expired, owned, registry, claimed, lane,
                   refused, prefund>>

\* posted.reverse(): the newest posted chunk first; then the replay.
Compensate(p) ==
    LET i == run[p].i
        done == <<"comp", i>> \in txns
        d == Debits(journal, i)
        fits == Credits(journal, i) <= shop
    IN
    /\ run[p].pc = "comp"
    /\ \/ /\ i < 0
          /\ run' = [run EXCEPT ![p].settled = TRUE, ![p].pc = "mv", ![p].i = 1]
          /\ UNCHANGED <<ledger, used>>
       \/ /\ i >= 0 /\ done
          /\ run' = [run EXCEPT ![p].i = i - 1]
          /\ UNCHANGED <<ledger, used>>
       \/ /\ i >= 0 /\ ~done /\ fits
          /\ run' = [run EXCEPT ![p].i = i - 1]
          /\ txns' = txns \cup {<<"comp", i>>}
          /\ Take([b \in Buyers |-> -d[b]])
          /\ shop' = shop - Credits(journal, i)
          /\ clearing' = clearing - Total(d, Buyers) + Credits(journal, i)
          /\ UNCHANGED used
       \/ /\ i >= 0 /\ ~done /\ ~fits
          /\ run' = [run EXCEPT ![p] = Thrown(p)]
          /\ used' = [used EXCEPT !.failed = @ \cup {"comp"}]
          /\ UNCHANGED ledger
    /\ UNCHANGED <<journal, expired, owned, registry, claimed, lane,
                   refused, prefund>>

\* replay: each movement is its own posting; what the ledger refuses is
\* rejected.
Replay(p) ==
    LET i == run[p].i
        b == BuyerOf[journal[i].order]
        done == <<"mv", i>> \in txns
        next == [run EXCEPT ![p].i = i + 1]
    IN
    /\ run[p].pc = "mv" /\ i <= Len(journal)
    /\ \/ /\ done
          /\ run' = next
          /\ UNCHANGED ledger
       \/ /\ ~done /\ Source[b] > 0
          /\ run' = next
          /\ txns' = txns \cup {<<"mv", i>>}
          /\ Take([c \in Buyers |-> IF c = b THEN 1 ELSE 0])
          /\ shop' = shop + 1
          /\ UNCHANGED clearing
       \/ /\ ~done /\ Source[b] = 0
          /\ run' = [next EXCEPT ![p].rejected = @ \cup {journal[i].order}]
          /\ UNCHANGED ledger
    /\ UNCHANGED <<journal, expired, owned, registry, claimed, lane, used,
                   refused, prefund>>

ReplayFails(p) ==
    /\ run[p].pc = "mv" /\ run[p].i <= Len(journal) /\ CanFail("mv")
    /\ <<"mv", run[p].i>> \notin txns
    /\ run' = [run EXCEPT ![p].i = @ + 1,
                          ![p].rejected = @ \cup {journal[run[p].i].order}]
    /\ Fault("mv")
    /\ UNCHANGED <<ledger, journal, expired, owned, registry, claimed, lane,
                   refused, prefund>>

\* releaseReservations: one process ever wins the durable claim, then gives
\* back movement by movement.
Reserved(p) == IF p = "lane" THEN lane.accepted ELSE journal
AtClaim(p) == \/ run[p].pc = "claim"
              \/ run[p].pc = "mv" /\ run[p].i > Len(journal)

(* Mutant: only the process's own flag guards the release. *)
ReleaseClaim_no_claim(p) ==
    /\ AtClaim(p)
    /\ claimed' = TRUE
    /\ run' = [run EXCEPT ![p].pc = IF run[p].released THEN "done" ELSE "give",
                          ![p].i = 1]
    /\ UNCHANGED <<ledger, journal, expired, owned, registry, lane, used,
                   refused, prefund>>

ReleaseClaim(p) ==
    LET wins == ~run[p].released /\ ~claimed IN
    /\ AtClaim(p)
    /\ claimed' = TRUE
    /\ run' = [run EXCEPT ![p].pc = IF wins THEN "give" ELSE "done",
                          ![p].i = 1, ![p].released = ~wins]
    /\ UNCHANGED <<ledger, journal, expired, owned, registry, lane, used,
                   refused, prefund>>

GiveBack(p) ==
    LET i == run[p].i
        b == BuyerOf[Reserved(p)[i].order]
        last == i = Len(Reserved(p))
    IN
    /\ run[p].pc = "give"
    /\ registry' = [registry EXCEPT ![b] = @ + 1]
    /\ run' = [run EXCEPT ![p].i = i + 1, ![p].released = last,
                          ![p].pc = IF last THEN "done" ELSE "give"]
    /\ UNCHANGED <<ledger, journal, expired, owned, claimed, lane, used, refused,
                   prefund>>

\* The session's report: the owner revokes and closes, the orphan sweep
\* returns escrows, a failover host is finished.
Escrowed(j) ==
    IF prefund = 0 THEN {} ELSE {BuyerOf[o] : o \in Movements(j)}

Report(p) ==
    LET r == [run[p] EXCEPT !.settled = TRUE] IN
    /\ run[p].pc = "done"
    /\ refused' = refused \cup run[p].rejected
    /\ lane' = [lane EXCEPT !.reported = @ \/ p = "lane"]
    /\ run' = [run EXCEPT ![p] =
                 IF p = "lane" THEN [r EXCEPT !.pc = "revoke",
                                     !.owes = r.rejected \cap lane.granted]
                 ELSE IF r.kind = "sweep"
                      THEN [r EXCEPT !.pc = "refund", !.owes = Escrowed(journal)]
                      ELSE FreshRun]
    /\ UNCHANGED <<ledger, journal, expired, owned, registry, claimed, used,
                   prefund>>

\* A comp, claim, give-back, revoke, refund or emit that fails throws.
SettleStepFails(p) ==
    LET step == IF AtClaim(p) THEN "claim" ELSE
                IF run[p].pc = "post" THEN "refund" ELSE run[p].pc
    IN
    /\ step \in {"comp", "claim", "give", "revoke", "refund", "emit"}
    /\ CanFail(step)
    /\ step = "comp" => run[p].i >= 0
    /\ step \in {"revoke", "refund"} => run[p].owes # {}
    /\ run' = [run EXCEPT ![p] = Thrown(p)]
    /\ Fault(step)
    /\ UNCHANGED <<ledger, journal, expired, owned, registry, claimed, lane,
                   refused, prefund>>

(***************************************************************************)
(* runSettle's backstops: revoke what was refused, release the immature    *)
(* holds, return the escrows, emit once, and let the manager drop the lane.*)
(***************************************************************************)

(* Mutant: the grants of refused movements stand. *)
RevokeRefused_none ==
    /\ run["lane"].pc = "revoke"
    /\ run' = [run EXCEPT !["lane"].pc = "holds"]
    /\ UNCHANGED <<ledger, journal, expired, owned, registry, claimed, lane, used,
                   refused, prefund>>

RevokeRefused ==
    /\ run["lane"].pc = "revoke"
    /\ \/ \E o \in run["lane"].owes :
            /\ owned' = owned \ {o}
            /\ run' = [run EXCEPT !["lane"].owes = @ \ {o}]
       \/ /\ run["lane"].owes = {}
          /\ run' = [run EXCEPT !["lane"].pc = "holds"]
          /\ UNCHANGED owned
    /\ UNCHANGED <<ledger, journal, expired, registry, claimed, lane, used,
                   refused, prefund>>

\* Each hold leaves the map as it returns.
ReleaseHolds ==
    /\ run["lane"].pc = "holds"
    /\ \/ \E b \in Buyers :
            /\ lane.held[b] > 0
            /\ registry' = [registry EXCEPT ![b] = @ + lane.held[b]]
            /\ lane' = [lane EXCEPT !.held[b] = -1]
            /\ UNCHANGED run
       \/ /\ \A b \in Buyers : lane.held[b] <= 0
          /\ run' = [run EXCEPT !["lane"].pc = "refund",
                                !["lane"].owes = lane.funded]
          /\ UNCHANGED <<registry, lane>>
    /\ UNCHANGED <<ledger, journal, expired, owned, claimed, used, refused,
                   prefund>>

\* refundEscrowRemainder reads the remainder first and posts it later.
RefundRead(p) ==
    /\ run[p].pc = "refund"
    /\ \E b \in run[p].owes :
         run' = IF escrow[b] = 0 \/ <<"refund", b>> \in txns
                THEN [run EXCEPT ![p].owes = @ \ {b}]
                ELSE [run EXCEPT ![p].pc = "post", ![p].buyer = b,
                                 ![p].amount = escrow[b]]
    /\ UNCHANGED <<ledger, journal, expired, owned, registry, claimed, lane,
                   used, refused, prefund>>

RefundPost(p) ==
    LET b == run[p].buyer IN
    /\ run[p].pc = "post"
    /\ IF <<"refund", b>> \in txns \/ escrow[b] < run[p].amount
       THEN run' = [run EXCEPT ![p] = Thrown(p)] /\ UNCHANGED ledger
       ELSE /\ txns' = txns \cup {<<"refund", b>>}
            /\ escrow' = [escrow EXCEPT ![b] = @ - run[p].amount]
            /\ wallet' = [wallet EXCEPT ![b] = @ + run[p].amount]
            /\ run' = [run EXCEPT ![p].pc = "refund", ![p].owes = @ \ {b},
                                  ![p].buyer = None, ![p].amount = 0]
            /\ UNCHANGED <<shop, clearing>>
    /\ UNCHANGED <<journal, expired, owned, registry, claimed, lane, used,
                   refused, prefund>>

EmitSettled ==
    /\ run["lane"].pc = "refund" /\ run["lane"].owes = {}
    /\ run' = [run EXCEPT !["lane"].pc = "emit"]
    /\ UNCHANGED <<ledger, journal, expired, owned, registry, claimed, lane,
                   used, refused, prefund>>

CloseLane ==
    /\ run["lane"].pc = "emit"
    /\ lane' = [lane EXCEPT !.closed = TRUE]
    /\ run' = [run EXCEPT !["lane"].pc = "idle"]
    /\ UNCHANGED <<ledger, journal, expired, owned, registry, claimed, used,
                   refused, prefund>>

(***************************************************************************)
(* Recovery: __recover's probes, then what its caller does with it.        *)
(***************************************************************************)

(* Mutant: recovery probes the first compensation only, not the movements. *)
FailedOver_no_movements == <<"comp", 0>> \in txns

FailedOver ==
    \/ \E i \in 0..ChunkCount(journal) - 1 : <<"comp", i>> \in txns
    \/ \E i \in DOMAIN journal : <<"mv", i>> \in txns
WasSettled == FailedOver \/ <<"net", 0>> \in txns

\* The sweep's age bound stands for the owner being dead or done.
CanRecover == /\ run["rec"].pc = "idle" /\ ~expired
              /\ journal # << >> /\ ChainOK(journal)
              /\ Overlap \/ ~lane.up \/ lane.closed

Recovered(kind) == [FreshRun EXCEPT !.kind = kind, !.settled = WasSettled,
                                    !.forced = FailedOver]
Refunding(kind) == [Recovered(kind) EXCEPT !.pc = "refund",
                                           !.owes = Escrowed(journal)]

\* The orphan sweep leaves a session with evidence of a settlement alone,
\* but for its escrows.
SweepOrphan ==
    /\ CanRecover
    /\ run' = [run EXCEPT !["rec"] =
                 IF WasSettled THEN Refunding("sweep")
                               ELSE Started(Recovered("sweep"))]
    /\ UNCHANGED <<ledger, journal, expired, owned, registry, claimed, lane,
                   used, refused, prefund>>

\* node.recover(sessionId), then settle().
Failover ==
    /\ CanRecover
    /\ run' = [run EXCEPT !["rec"] = Started(Recovered("failover"))]
    /\ UNCHANGED <<ledger, journal, expired, owned, registry, claimed, lane,
                   used, refused, prefund>>

PruneSettled ==
    /\ CanRecover /\ WasSettled
    /\ run' = [run EXCEPT !["rec"] = Refunding("retention")]
    /\ UNCHANGED <<ledger, journal, expired, owned, registry, claimed, lane,
                   used, refused, prefund>>

RefundsDone ==
    /\ run["rec"].pc = "refund" /\ run["rec"].owes = {}
    /\ expired' = (expired \/ run["rec"].kind = "retention")
    /\ run' = [run EXCEPT !["rec"] = FreshRun]
    /\ UNCHANGED <<ledger, journal, owned, registry, claimed, lane, used,
                   refused, prefund>>

(***************************************************************************)
(* Crashes and the main lane.                                              *)
(***************************************************************************)

Crash(p) ==
    /\ used.crashes < MaxCrashes
    /\ p = "lane" => lane.up /\ ~lane.closed
    /\ p = "rec" => run[p].pc # "idle"
    /\ lane' = IF p = "lane" THEN [lane EXCEPT !.up = FALSE, !.pc = "open",
                                               !.order = None, !.queued = None]
                             ELSE lane
    /\ run' = [run EXCEPT ![p] = FreshRun]
    /\ used' = [used EXCEPT !.crashes = @ + 1]
    /\ UNCHANGED <<ledger, journal, expired, owned, registry, claimed, refused,
                   prefund>>

\* A main-lane debit of a buyer or of the seller, and a main-lane top-up.
MainLaneSpend ==
    /\ used.spends < MaxSpends
    /\ \/ /\ \E b \in Buyers : wallet[b] > 0 /\ wallet' = [wallet EXCEPT ![b] = @ - 1]
          /\ UNCHANGED shop
       \/ shop > 0 /\ shop' = shop - 1 /\ UNCHANGED wallet
    /\ used' = [used EXCEPT !.spends = @ + 1]
    /\ UNCHANGED <<escrow, clearing, txns, journal, expired, owned, registry,
                   claimed, lane, run, refused, prefund>>

MainLaneTopUp ==
    /\ used.topUps < MaxMainTopUps
    /\ \E b \in Buyers : wallet' = [wallet EXCEPT ![b] = @ + 1]
    /\ used' = [used EXCEPT !.topUps = @ + 1]
    /\ UNCHANGED <<escrow, shop, clearing, txns, journal, expired, owned,
                   registry, claimed, lane, run, refused, prefund>>

SettleStep(p) ==
    \/ PostChunk(p) \/ PostChunkFails(p) \/ Compensate(p)
    \/ Replay(p) \/ ReplayFails(p) \/ ReleaseClaim(p) \/ GiveBack(p)
    \/ Report(p) \/ SettleStepFails(p) \/ RefundRead(p) \/ RefundPost(p)
    \/ Crash(p)

NettingNext ==
    \/ \E o \in Orders : Enqueue(o) \/ PurchaseRefused(o) \/ Purchase(o)
    \/ GrantItem \/ RecordThrows \/ Record \/ UndoGrant
    \/ RecordFlush \/ RecordFlushFails \/ Accept
    \/ LaneSettle \/ LaneSettleFails
    \/ RevokeRefused \/ ReleaseHolds \/ EmitSettled \/ CloseLane
    \/ \E p \in Procs : SettleStep(p)
    \/ SweepOrphan \/ Failover \/ PruneSettled \/ RefundsDone
    \/ MainLaneSpend \/ MainLaneTopUp

NettingSpec == NettingInit /\ [][NettingNext]_nettingVars

(***************************************************************************)
(* Properties.                                                             *)
(***************************************************************************)

Effective(i) == <<"net", i>> \in txns /\ <<"comp", i>> \notin txns
Netted == /\ journal # << >>
          /\ \A i \in 0..ChunkCount(journal) - 1 : Effective(i)
Paid(o) == \E k \in DOMAIN journal :
              journal[k].order = o /\ (Netted \/ <<"mv", k>> \in txns)

NettingTypeOK ==
    /\ wallet \in [Buyers -> Nat] /\ escrow \in [Buyers -> Nat]
    /\ shop \in Nat /\ clearing \in Int
    /\ Movements(journal) \subseteq Orders /\ owned \subseteq Orders
    /\ registry \in [Buyers -> Int]
    /\ lane.outcome \in [Orders -> Outcomes]
    /\ prefund \in Prefunds

\* A settle whose own calls failed is run again from the start by the manager
\* or by a recovery.  After such a retry the promises below do not hold: the
\* hazards say how.  A crash, a refused chunk and the other failures keep them.
Failed(steps) == used.failed \cap steps # {}
SettleRetried == Failed({"again", "comp", "claim", "give"})

\* settle's promise: the net is on the ledger or its movements are, never
\* both, whoever finishes the session and wherever it was left.
FinalOnce ==
    ~ /\ \E i \in 0..ChunkCount(journal) - 1 : Effective(i)
      /\ \E k \in DOMAIN journal : <<"mv", k>> \in txns

\* The same but for retries, and for nets of three chunks and more: a crash
\* between two compensations leaves a chunk effective that recovery replays.
FinalOnceUnlessRetried == SettleRetried \/ ChunkCount(journal) > 2 \/ FinalOnce

\* A movement a finished settle reported refused, so that its grant was
\* revoked, is never charged afterwards.
RefusedIsFinal == \A o \in refused : ~Paid(o)

\* The shared counter never over-grants: it holds every accepted movement
\* until the one durable release, and is never given back twice.
NeverOverGrants ==
    \A b \in Buyers :
      /\ registry[b] <= 0
      /\ ~claimed => -registry[b] >= AcceptedOf(b)

\* When the lane has closed and works no more, an accepted item is owned
\* exactly if its money moved, and a refused one is not owned.
OwnedIsPaid ==
    (lane.closed /\ lane.pc = "open") => \A o \in Orders :
      /\ lane.outcome[o] = "accepted" => (o \in owned <=> Paid(o))
      /\ lane.outcome[o] = "rejected" => o \notin owned

\* What holds when the lane emits its settled event, unless it served someone
\* late: an accepted item is owned exactly if its money moved, clearing is flat
\* and every escrow is back with its owner.
SettledEventIsTrue ==
    (run["lane"].pc = "emit" /\ lane.late = {}) =>
      \/ SettleRetried
      \/ /\ clearing = 0
         /\ \A b \in Buyers : escrow[b] = 0
         /\ \A o \in Orders :
              /\ lane.outcome[o] = "accepted" =>
                   (o \in owned <=> Paid(o)) \/ Failed({"flush"})
              /\ lane.outcome[o] = "rejected" => o \notin owned

=============================================================================
