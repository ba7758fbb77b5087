--------------------------- MODULE SubmitPipeline ---------------------------
(***************************************************************************)
(* economy.submit: one database transaction per call, which claims the      *)
(* operation's idempotency key, screens the buyer's spend velocity, locks   *)
(* the accounts in one global order, runs the handler and records the       *)
(* result.  The handlers here are spend and refund, the two that meet on an *)
(* order id besides their own keys.                                         *)
(*                                                                          *)
(* A call is a process.  Its uncommitted writes live in its own record and  *)
(* reach the tables at Commit, because the engines run at READ COMMITTED;   *)
(* what others see before that are its locks: the placeholder of a claimed  *)
(* key, the subject lock of the velocity record and the account locks.      *)
(* Callers submit any operation any number of times: a retry, a second      *)
(* device and a redelivery are all another call with the same key.          *)
(***************************************************************************)
EXTENDS Integers, FiniteSetsExt, Sums

CONSTANTS
  Calls,      \* concurrent submits
  Ops,        \* operations, each the meaning of one idempotency key
  Orders, Buyers,
  Accounts,   \* lockable accounts, numbered in the global lock order
  Kind,       \* "spend" or "refund", per operation
  OrderOf, BuyerOf, PriceOf,
  LockSet,    \* the accounts lockAccounts locks for the operation
  FundsAtStart,
  Limit,      \* the buyer's outflow limit
  Window,     \* velocityWindowMs, in ticks
  MaxFaults,  \* bound: conflicts, faults and crashes
  MaxPurges   \* bound: keys deleted by the retention sweep

ASSUME PipelineAssumption ==
  /\ Kind \in [Ops -> {"spend", "refund"}]
  /\ OrderOf \in [Ops -> Orders]
  /\ BuyerOf \in [Ops -> Buyers]
  /\ PriceOf \in [Ops -> Nat \ {0}]
  /\ Accounts \subseteq Nat
  /\ LockSet \in [Ops -> (SUBSET Accounts) \ {{}}]
  /\ FundsAtStart \in Nat /\ Limit \in Nat /\ Window \in Nat \ {0}
  /\ MaxFaults \in Nat /\ MaxPurges \in Nat
  /\ Ops \cap Orders = {}

(* Only finitely many operations are ever submitted. *)
ASSUME FinitelyManyOps == IsFiniteSet(Ops)

VARIABLES
  idem,     \* idempotency rows: of operations, and reversed:<order> of orders
  sale,     \* the order's row in sales: the operations that wrote one
  posts,    \* postings made under each operation, each with its outbox event
  funds,    \* each buyer's spendable balance
  counted,  \* operations with a row in trust_attempts
  age,      \* ticks since that row's at
  call,     \* the calls
  told,     \* history: what callers were answered, per operation
  faults, purges

vars == <<idem, sale, posts, funds, counted, age, call, told, faults, purges>>

-----------------------------------------------------------------------------
Spends == {op \in Ops : Kind[op] = "spend"}
Keys == Ops \cup Orders
Row == {"free", "null", "recorded"}
Answer == {"committed", "duplicate", "refused", "rejected", "denied"}

Idle == [pc |-> "idle"]
InTransaction == {"claim", "preClaim", "risk", "lock", "handle", "extend", "undoKey",
                  "commit", "duplicate"}
CallStep == InTransaction \cup {"rejected", "denied", "fault"}
Call == [pc : CallStep, op : Ops, sold : SUBSET Ops, keys : SUBSET Keys,
         subject : BOOLEAN, held : SUBSET Accounts, staged : BOOLEAN, age : 0..Window]

(* Every variable has its type; in particular no buyer's balance is negative *)
(* (screenFunds, whose answer the posting relies on).                        *)
TypeOK ==
  /\ idem \in [Keys -> Row]
  /\ sale \in [Orders -> SUBSET Ops]
  /\ posts \in [Ops -> Nat]
  /\ funds \in [Buyers -> Nat]
  /\ counted \subseteq Ops /\ age \in [Ops -> 0..Window]
  /\ call \in [Calls -> {Idle} \cup Call]
  /\ told \in [Ops -> SUBSET Answer]
  /\ faults \in 0..MaxFaults /\ purges \in 0..MaxPurges

Init ==
  /\ idem = [k \in Keys |-> "free"]
  /\ sale = [o \in Orders |-> {}]
  /\ posts = [op \in Ops |-> 0]
  /\ funds = [b \in Buyers |-> FundsAtStart]
  /\ counted = {} /\ age = [op \in Ops |-> 0]
  /\ call = [c \in Calls |-> Idle]
  /\ told = [op \in Ops |-> {}]
  /\ faults = 0 /\ purges = 0

-----------------------------------------------------------------------------
(* The call's own record *)

Goto(c, pc) == call' = [call EXCEPT ![c].pc = pc]
Tell(c, answer) == told' = [told EXCEPT ![call[c].op] = @ \cup {answer}]
End(c) == call' = [call EXCEPT ![c] = Idle]

(* A rollback drops the call's locks and writes; the staged attempt lives in *)
(* the submit function, outside the transaction.                            *)
RolledBack(item, pc) ==
  [item EXCEPT !.pc = pc, !.sold = {}, !.keys = {}, !.subject = FALSE, !.held = {}]
Rollback(c, pc) == call' = [call EXCEPT ![c] = RolledBack(@, pc)]

(* A rejection rolls back too.  Before any screening it is answered at once, *)
(* "refused"; after one the attempt is recorded again first, see Rebump.     *)
Reject(c) ==
  \/ call[c].staged /\ Rollback(c, "rejected") /\ UNCHANGED told
  \/ ~call[c].staged /\ End(c) /\ Tell(c, "refused")

Others(c) == {d \in Calls \ {c} : call[d].pc # "idle"}

(* An uncommitted placeholder blocks every other claim of its key. *)
KeyFree(c, k) == \A d \in Others(c) : k \notin call[d].keys

(* trust_record takes a lock per subject, held to the end of the transaction. *)
SubjectFree(c) ==
  \A d \in Others(c) : ~(call[d].subject /\ BuyerOf[call[d].op] = BuyerOf[call[c].op])

(* The attempt's key is unique: an insert waits for an uncommitted one. *)
AttemptFree(c) ==
  \A d \in Others(c) : ~(call[d].subject /\ call[d].op = call[c].op)

AccountFree(c, a) == \A d \in Others(c) : a \notin call[d].held

-----------------------------------------------------------------------------
(* submit: validation, authorization and the pause gate refuse without a trace. *)
Begin(c, op) ==
  /\ call[c] = Idle
  /\ call' = [call EXCEPT ![c] =
       [pc |-> "claim", op |-> op, sold |-> {}, keys |-> {}, subject |-> FALSE,
        held |-> {}, staged |-> FALSE, age |-> 0]]
  /\ UNCHANGED <<idem, sale, posts, funds, counted, age, told, faults, purges>>

(* Mutant: a key someone else is working on counts as done. *)
ClaimKeyEager(c) ==
  /\ call[c].pc = "claim"
  /\ LET op == call[c].op
         next == IF Kind[op] = "spend" THEN "preClaim" ELSE "lock"
         taken == idem[op] = "recorded" \/ ~KeyFree(c, op)
     IN \/ taken /\ End(c) /\ Tell(c, "duplicate")
        \/ /\ ~taken
           /\ call' = [call EXCEPT ![c].pc = next,
                                   ![c].keys = IF idem[op] = "free" THEN {op} ELSE {}]
           /\ UNCHANGED told
  /\ UNCHANGED <<idem, sale, posts, funds, counted, age, faults, purges>>

(* idempotency.claim: a recorded key is replayed; a free one gets this call's *)
(* placeholder; a committed placeholder without a result counts as claimed.   *)
ClaimKey(c) ==
  /\ call[c].pc = "claim"
  /\ KeyFree(c, call[c].op)
  /\ LET op == call[c].op
         next == IF Kind[op] = "spend" THEN "preClaim" ELSE "lock"
     IN \/ idem[op] = "recorded" /\ End(c) /\ Tell(c, "duplicate")
        \/ /\ idem[op] # "recorded"
           /\ call' = [call EXCEPT ![c].pc = next,
                                   ![c].keys = IF idem[op] = "free" THEN {op} ELSE {}]
           /\ UNCHANGED told
  /\ UNCHANGED <<idem, sale, posts, funds, counted, age, faults, purges>>

(* spendPreClaim: an order already on file is refused before any lock. *)
PreClaim(c) ==
  /\ call[c].pc = "preClaim"
  /\ \/ sale[OrderOf[call[c].op]] # {} /\ Reject(c)
     \/ sale[OrderOf[call[c].op]] = {} /\ Goto(c, "risk") /\ UNCHANGED told
  /\ UNCHANGED <<idem, sale, posts, funds, counted, age, faults, purges>>

(* screenRisk: the attempt is recorded first (once per key) and the sum, with *)
(* it, decides.                                                               *)
InWindow(buyer) ==
  {op \in counted : age[op] < Window /\ Kind[op] = "spend" /\ BuyerOf[op] = buyer}
Velocity(op) ==
  Total(PriceOf, InWindow(BuyerOf[op]) \cup (IF op \in counted THEN {} ELSE {op}))

(* Mutant: the attempt is recorded without the subject lock. *)
ScreenRiskUnlocked(c) ==
  /\ call[c].pc = "risk"
  /\ LET staged == [call[c] EXCEPT !.staged = TRUE, !.age = 0, !.subject = TRUE] IN
       call' = [call EXCEPT ![c] =
         IF Velocity(call[c].op) > Limit THEN RolledBack(staged, "denied")
         ELSE [staged EXCEPT !.pc = "lock"]]
  /\ UNCHANGED <<idem, sale, posts, funds, counted, age, told, faults, purges>>

ScreenRisk(c) ==
  /\ call[c].pc = "risk"
  /\ SubjectFree(c)
  /\ LET staged == [call[c] EXCEPT !.staged = TRUE, !.age = 0, !.subject = TRUE] IN
       call' = [call EXCEPT ![c] =
         IF Velocity(call[c].op) > Limit THEN RolledBack(staged, "denied")
         ELSE [staged EXCEPT !.pc = "lock"]]
  /\ UNCHANGED <<idem, sale, posts, funds, counted, age, told, faults, purges>>

(* lockAll: one account at a time, in ascending order. *)
Need(c) ==
  IF call[c].pc = "lock" THEN LockSet[call[c].op]
  ELSE UNION {LockSet[s] : s \in call[c].sold}

Take(c, a) ==
  LET held == call[c].held \cup {a}
      after == IF call[c].pc = "lock" THEN "handle" ELSE "undoKey"
  IN call' = [call EXCEPT ![c].held = held,
                          ![c].pc = IF Need(c) \subseteq held THEN after ELSE @]

(* Mutant: refund's accounts in the order its list is written, not sorted. *)
LockNextUnsorted(c) ==
  /\ call[c].pc \in {"lock", "extend"}
  /\ LET left == Need(c) \ call[c].held
         a == IF Kind[call[c].op] = "refund" THEN Max(left) ELSE Min(left)
     IN AccountFree(c, a) /\ Take(c, a)
  /\ UNCHANGED <<idem, sale, posts, funds, counted, age, told, faults, purges>>

LockNext(c) ==
  /\ call[c].pc \in {"lock", "extend"}
  /\ LET a == Min(Need(c) \ call[c].held) IN AccountFree(c, a) /\ Take(c, a)
  /\ UNCHANGED <<idem, sale, posts, funds, counted, age, told, faults, purges>>

(* Mutant: the order is looked up before the locks only. *)
HandleSpendNoRecheck(c) ==
  /\ call[c].pc = "handle"
  /\ LET op == call[c].op
         refused == funds[BuyerOf[op]] < PriceOf[op]
     IN /\ Kind[op] = "spend"
        /\ IF refused THEN Reject(c) ELSE Goto(c, "commit") /\ UNCHANGED told
  /\ UNCHANGED <<idem, sale, posts, funds, counted, age, faults, purges>>

(* screenFunds and the spend handler, under the locks: the balance, then the *)
(* order again.                                                              *)
HandleSpend(c) ==
  /\ call[c].pc = "handle"
  /\ LET op == call[c].op
         refused == funds[BuyerOf[op]] < PriceOf[op] \/ sale[OrderOf[op]] # {}
     IN /\ Kind[op] = "spend"
        /\ IF refused THEN Reject(c) ELSE Goto(c, "commit") /\ UNCHANGED told
  /\ UNCHANGED <<idem, sale, posts, funds, counted, age, faults, purges>>

(* The refund handler: the sale, the locks of its posting's accounts, then   *)
(* the order's reversal key, shared with clawback.                           *)
HandleRefund(c) ==
  /\ call[c].pc = "handle"
  /\ Kind[call[c].op] = "refund"
  /\ LET sold == sale[OrderOf[call[c].op]] IN
       \/ sold = {} /\ Reject(c)
       \/ /\ sold # {}
          /\ LET locks == UNION {LockSet[s] : s \in sold} IN
               call' = [call EXCEPT ![c].sold = sold,
                 ![c].pc = IF locks \subseteq call[c].held THEN "undoKey" ELSE "extend"]
          /\ UNCHANGED told
  /\ UNCHANGED <<idem, sale, posts, funds, counted, age, faults, purges>>

ClaimReversal(c) ==
  /\ call[c].pc = "undoKey"
  /\ LET order == OrderOf[call[c].op] IN
       /\ KeyFree(c, order)
       /\ call' = [call EXCEPT ![c].pc = IF idem[order] = "recorded" THEN "duplicate" ELSE "commit",
                               ![c].keys = IF idem[order] = "free" THEN @ \cup {order} ELSE @]
  /\ UNCHANGED <<idem, sale, posts, funds, counted, age, told, faults, purges>>

(* What the transaction's writes leave behind: the staged attempt's row. *)
Counted(c) ==
  /\ counted' = counted \cup {call[c].op}
  /\ age' = IF call[c].op \in counted THEN age
            ELSE [age EXCEPT ![call[c].op] = call[c].age]

(* Commit: posting, sale row, recorded key, event and attempt become visible *)
(* together, and every lock is released.                                     *)
CommitSpend(c) ==
  /\ call[c].pc = "commit"
  /\ LET op == call[c].op IN
       /\ Kind[op] = "spend"
       /\ funds' = [funds EXCEPT ![BuyerOf[op]] = @ - PriceOf[op]]
       /\ sale' = [sale EXCEPT ![OrderOf[op]] = {op}]
       /\ posts' = [posts EXCEPT ![op] = @ + 1]
       /\ idem' = [idem EXCEPT ![op] = "recorded"]
  /\ Counted(c)
  /\ Tell(c, "committed")
  /\ End(c)
  /\ UNCHANGED <<faults, purges>>

(* Mutant: the reversal key is claimed and never recorded. *)
CommitRefundUnmarked(c) ==
  /\ call[c].pc = "commit"
  /\ LET op == call[c].op IN
       /\ Kind[op] = "refund"
       /\ \E s \in call[c].sold : funds' = [funds EXCEPT ![BuyerOf[s]] = @ + PriceOf[s]]
       /\ posts' = [posts EXCEPT ![op] = @ + 1]
       /\ idem' = [idem EXCEPT ![op] = "recorded"]
  /\ Tell(c, "committed")
  /\ End(c)
  /\ UNCHANGED <<sale, counted, age, faults, purges>>

CommitRefund(c) ==
  /\ call[c].pc = "commit"
  /\ LET op == call[c].op IN
       /\ Kind[op] = "refund"
       /\ \E s \in call[c].sold : funds' = [funds EXCEPT ![BuyerOf[s]] = @ + PriceOf[s]]
       /\ posts' = [posts EXCEPT ![op] = @ + 1]
       /\ idem' = [idem EXCEPT ![op] = "recorded", ![OrderOf[op]] = "recorded"]
  /\ Tell(c, "committed")
  /\ End(c)
  /\ UNCHANGED <<sale, counted, age, faults, purges>>

(* A handler's own duplicate commits, with the placeholder still empty. *)
CommitDuplicate(c) ==
  /\ call[c].pc = "duplicate"
  /\ idem' = [idem EXCEPT ![call[c].op] = IF @ = "free" THEN "null" ELSE @]
  /\ Tell(c, "duplicate")
  /\ End(c)
  /\ UNCHANGED <<sale, posts, funds, counted, age, faults, purges>>

(* The attempt a rollback erased is recorded again before the rejection is answered. *)
Rebump(c) ==
  /\ call[c].pc \in {"rejected", "denied", "fault"}
  /\ AttemptFree(c)
  /\ IF call[c].staged THEN Counted(c) ELSE UNCHANGED <<counted, age>>
  /\ IF call[c].pc = "fault" THEN UNCHANGED told ELSE Tell(c, call[c].pc)
  /\ End(c)
  /\ UNCHANGED <<idem, sale, posts, funds, faults, purges>>

-----------------------------------------------------------------------------
(* What goes wrong *)

Fails == faults < MaxFaults /\ faults' = faults + 1

(* withTransientRetry runs the whole transaction again. *)
Conflict(c) ==
  /\ call[c].pc \in InTransaction
  /\ Fails
  /\ Rollback(c, "claim")
  /\ UNCHANGED <<idem, sale, posts, funds, counted, age, told, purges>>

Fault(c) ==
  /\ call[c].pc \in InTransaction
  /\ Fails
  /\ Rollback(c, "fault")
  /\ UNCHANGED <<idem, sale, posts, funds, counted, age, told, purges>>

(* The process dies, or the re-record itself fails: the caller gets no answer. *)
Crash(c) ==
  /\ call[c] # Idle
  /\ Fails
  /\ End(c)
  /\ UNCHANGED <<idem, sale, posts, funds, counted, age, told, purges>>

(* The retention sweep deletes an old key; a retry would run again. *)
PurgeKey(k) ==
  /\ purges < MaxPurges
  /\ idem[k] # "free"
  /\ idem' = [idem EXCEPT ![k] = "free"]
  /\ purges' = purges + 1
  /\ UNCHANGED <<sale, posts, funds, counted, age, call, told, faults>>

Older(ticks) == IF ticks < Window THEN ticks + 1 ELSE ticks
Tick ==
  /\ age' = [op \in Ops |-> IF op \in counted THEN Older(age[op]) ELSE age[op]]
  /\ call' = [c \in Calls |-> IF call[c].pc = "idle" THEN call[c]
                              ELSE [call[c] EXCEPT !.age = IF call[c].staged THEN Older(@) ELSE @]]
  /\ UNCHANGED <<idem, sale, posts, funds, counted, told, faults, purges>>

-----------------------------------------------------------------------------
Step(c) ==
  \/ ClaimKey(c) \/ PreClaim(c) \/ ScreenRisk(c) \/ LockNext(c)
  \/ HandleSpend(c) \/ HandleRefund(c) \/ ClaimReversal(c)
  \/ CommitSpend(c) \/ CommitRefund(c) \/ CommitDuplicate(c) \/ Rebump(c)

Next ==
  \/ \E c \in Calls, op \in Ops : Begin(c, op)
  \/ \E c \in Calls : Step(c) \/ Conflict(c) \/ Fault(c) \/ Crash(c)
  \/ \E k \in Keys : PurgeKey(k)
  \/ Tick

Spec == Init /\ [][Next]_vars

(* A call in progress keeps running, and the database grants a lock that is    *)
(* free again and again in the end, for its lock queues are first come first   *)
(* served.  No caller has to submit anything.                                  *)
FairSpec == Spec /\ \A c \in Calls : SF_vars(Step(c))

-----------------------------------------------------------------------------
(* Properties *)

SpendsOf(o) == {op \in Spends : OrderOf[op] = o}
RefundsOf(o) == {op \in Ops \ Spends : OrderOf[op] = o}
PostsOf(S) == Total(posts, S)

(* An order is charged at most once, whatever keys, buyers and retries name it *)
(* (spend's duplicate-order check).                                            *)
ChargedOnce == \A o \in Orders : PostsOf(SpendsOf(o)) <= 1

(* An order is undone at most once and only after it was charged, whichever   *)
(* request does it (refund's reversal key).                                    *)
UndoneOnce == \A o \in Orders : PostsOf(RefundsOf(o)) <= PostsOf(SpendsOf(o))

(* An answer a caller got is true: "committed" and "duplicate" stand for a     *)
(* posting that is on the books, of this key or, for a refund, of its order.   *)
AnswersAreTrue ==
  \A op \in Ops :
    /\ "committed" \in told[op] => posts[op] > 0
    /\ "duplicate" \in told[op] =>
         posts[op] > 0 \/ (op \notin Spends /\ PostsOf(RefundsOf(OrderOf[op])) > 0)

(* What a buyer moved under attempts that are still in the window stays within *)
(* the limit (screenRisk's record-then-measure under the subject lock).        *)
VelocityHolds ==
  \A b \in Buyers : Total(PriceOf, {op \in InWindow(b) : posts[op] > 0}) <= Limit

(* Every call comes to an end: the waits for keys, subjects and accounts never *)
(* close a circle (lockAll's global order).                                    *)
CallEnds == \A c \in Calls : []<>(call[c] = Idle)
=============================================================================
