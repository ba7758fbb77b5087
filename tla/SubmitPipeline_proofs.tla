----------------------- MODULE SubmitPipeline_proofs -----------------------
(***************************************************************************)
(* Proofs about SubmitPipeline, for any number of concurrent calls and any  *)
(* operations, orders, buyers, prices and lock sets.                        *)
(***************************************************************************)
EXTENDS SubmitPipeline, Sums_proofs, TLAPS

-----------------------------------------------------------------------------
(* The inductive invariant *)

Clean(i) == i.sold = {} /\ i.keys = {} /\ ~i.subject /\ i.held = {}

(* Operations of a buyer that are on the books and in the velocity window,    *)
(* and those that will be when the call commits.                              *)
Moved(b) == {op \in InWindow(b) : posts[op] > 0}
Reach(i) ==
  Moved(BuyerOf[i.op]) \cup
  (IF i.op \in counted /\ age[i.op] >= Window THEN {} ELSE {i.op})

(* What a call may rely on, wherever it stands. *)
ItemOK(i) ==
  LET op == i.op
      o == OrderOf[op]
      pc == i.pc
  IN /\ pc \in {"claim", "rejected", "denied", "fault"} => Clean(i)
     /\ pc \in {"preClaim", "risk"} => op \in Spends /\ i.held = {} /\ ~i.subject
     /\ pc \in {"extend", "undoKey", "duplicate"} => op \notin Spends
     /\ i.subject => op \in Spends /\ Total(PriceOf, Reach(i)) <= Limit
     /\ pc \in {"lock", "handle", "commit"} /\ op \in Spends => i.subject
     /\ pc = "lock" => ~(LockSet[op] \subseteq i.held)
     /\ pc \in {"handle", "commit"} => LockSet[op] \subseteq i.held
     /\ i.sold # {} => sale[o] # {}
     /\ pc = "extend" => ~(UNION {LockSet[s] : s \in i.sold} \subseteq i.held)
     /\ pc \in {"extend", "undoKey", "duplicate", "commit"} /\ op \notin Spends => i.sold # {}
     /\ pc \in {"extend", "undoKey"} => LockSet[op] \subseteq i.held
     /\ pc = "commit" /\ op \in Spends => funds[BuyerOf[op]] >= PriceOf[op]
     /\ pc = "commit" /\ op \notin Spends => idem[o] = "free" /\ o \in i.keys
     /\ pc = "duplicate" => PostsOf(RefundsOf(o)) > 0
CallsOK == \A c \in Calls : call[c] # Idle => ItemOK(call[c])

(* Two calls in progress share no placeholder, no account and no subject lock. *)
Apart(i, j) ==
  /\ i.keys \cap j.keys = {}
  /\ i.held \cap j.held = {}
  /\ ~(i.subject /\ j.subject /\ BuyerOf[i.op] = BuyerOf[j.op])
CallsApart ==
  \A c, d \in Calls : c # d /\ call[c] # Idle /\ call[d] # Idle => Apart(call[c], call[d])

(* What the tables say of each other. *)
TablesOK ==
  /\ \A op \in Ops : idem[op] = "recorded" => posts[op] > 0
  /\ \A op \in Spends : posts[op] > 0 => op \in counted
  /\ \A o \in Orders :
       /\ idem[o] # "null"
       /\ idem[o] = "recorded" => PostsOf(RefundsOf(o)) > 0 /\ sale[o] # {}
       /\ sale[o] # {} => PostsOf(SpendsOf(o)) > 0

IInv ==
  /\ TypeOK
  /\ CallsOK
  /\ CallsApart
  /\ TablesOK
  /\ AnswersAreTrue
  /\ VelocityHolds

(* While no reversal key is deleted, it counts the order's refunds. *)
OneReversal ==
  \A o \in Orders : PostsOf(RefundsOf(o)) = IF idem[o] = "recorded" THEN 1 ELSE 0

(* When the spends of an order meet on a lock, the sale row counts them. *)
MeetOnALock ==
  \A x, y \in Spends : OrderOf[x] = OrderOf[y] => LockSet[x] \cap LockSet[y] # {}
OneSale ==
  /\ \A o \in Orders : PostsOf(SpendsOf(o)) = IF sale[o] = {} THEN 0 ELSE 1
  /\ \A c \in Calls :
       call[c] # Idle /\ call[c].pc = "commit" /\ call[c].op \in Spends =>
         sale[OrderOf[call[c].op]] = {}

-----------------------------------------------------------------------------
(* Facts about the operators *)

(* Sums over the spends and the refunds of an order. *)
LEMMA OrderSets ==
  \A o : /\ SpendsOf(o) \in SUBSET Ops /\ RefundsOf(o) \in SUBSET Ops
         /\ IsFiniteSet(SpendsOf(o)) /\ IsFiniteSet(RefundsOf(o))
<1>1. \A o : SpendsOf(o) \in SUBSET Ops /\ RefundsOf(o) \in SUBSET Ops
  BY DEF SpendsOf, RefundsOf, Spends
<1> QED BY <1>1, FinitelyManyOps, PartFinite

(* Postings are counted. *)
LEMMA PostsType ==
  ASSUME TypeOK, NEW S \in SUBSET Ops
  PROVE  PostsOf(S) \in Nat /\ \A op \in S : posts[op] <= PostsOf(S)
<1>1. IsFiniteSet(S) /\ \A op \in S : posts[op] \in Nat
  BY FinitelyManyOps, PartFinite DEF TypeOK
<1> QED BY <1>1, TotalNat DEF PostsOf

(* One more posting under op is one more in every sum op belongs to. *)
LEMMA PostsMore ==
  ASSUME TypeOK, NEW op,
         \A y \in Ops : posts'[y] = IF y = op THEN posts[y] + 1 ELSE posts[y],
         NEW S \in SUBSET Ops
  PROVE  PostsOf(S)' = PostsOf(S) + (IF op \in S THEN 1 ELSE 0)
<1>1. /\ IsFiniteSet(S) /\ Ints(posts, S)
      /\ \A y \in S : posts'[y] = IF y = op THEN posts[y] + 1 ELSE posts[y]
  BY FinitelyManyOps, PartFinite DEF TypeOK, Ints
<1>2. 1 \in Int OBVIOUS
<1>3. Total(posts', S) = Total(posts, S) + (IF op \in S THEN 1 ELSE 0)
  BY <1>1, <1>2, TotalShift
<1> QED BY <1>3 DEF PostsOf

(* The prices of fewer operations are less. *)
LEMMA PricesLess ==
  ASSUME NEW T \in SUBSET Ops, NEW S \in SUBSET T
  PROVE  /\ Total(PriceOf, S) \in Nat /\ Total(PriceOf, T) \in Nat
         /\ Total(PriceOf, S) <= Total(PriceOf, T)
<1>1. /\ IsFiniteSet(S) /\ IsFiniteSet(T) /\ S \in SUBSET Ops
      /\ \A x \in T : PriceOf[x] \in Nat
  BY FinitelyManyOps, PartFinite, PipelineAssumption
<1> QED BY <1>1, TotalNat, TotalSubset

-----------------------------------------------------------------------------
(* Steps that move one call and leave the tables alone *)

(* A call at work has its operation. *)
LEMMA BusyCall ==
  ASSUME IInv, NEW c \in Calls, call[c].pc # "idle" \/ call[c] # Idle
  PROVE  /\ call[c] \in Call /\ call[c] # Idle /\ ItemOK(call[c])
         /\ call[c].op \in Ops /\ OrderOf[call[c].op] \in Orders /\ call[c].pc # "idle"
<1>1. call[c] \in {Idle} \cup Call
  BY DEF IInv, TypeOK
<1>2. call[c] # Idle
  BY DEF Idle
<1>3. call[c].op \in Ops /\ call[c].pc \in CallStep
  BY <1>1, <1>2 DEF Call
<1> QED BY <1>1, <1>2, <1>3, PipelineAssumption DEF IInv, CallsOK, CallStep, InTransaction

(* Telling an answer that is true keeps every answer true. *)
LEMMA TellTrue ==
  ASSUME IInv, NEW c \in Calls, call[c].op \in Ops, NEW a \in Answer, Tell(c, a),
         posts' = posts, a # "committed",
         a = "duplicate" =>
           \/ posts[call[c].op] > 0
           \/ call[c].op \notin Spends /\ PostsOf(RefundsOf(OrderOf[call[c].op])) > 0
  PROVE  told' \in [Ops -> SUBSET Answer] /\ AnswersAreTrue'
<1>1. told' = [told EXCEPT ![call[c].op] = told[call[c].op] \cup {a}]
  BY DEF Tell
<1>2. told \in [Ops -> SUBSET Answer]
  BY DEF IInv, TypeOK
<1>3. told' \in [Ops -> SUBSET Answer]
  BY <1>1, <1>2
<1>4. \A op \in Ops : PostsOf(RefundsOf(OrderOf[op]))' = PostsOf(RefundsOf(OrderOf[op]))
  BY DEF PostsOf
<1> QED BY <1>1, <1>2, <1>3, <1>4 DEF IInv, AnswersAreTrue

(* What was answered stays true while the books stay. *)
LEMMA ToldSame ==
  ASSUME IInv, UNCHANGED <<told, posts>>
  PROVE  told' \in [Ops -> SUBSET Answer] /\ AnswersAreTrue'
  BY DEF IInv, TypeOK, AnswersAreTrue, PostsOf

Tables == <<idem, sale, posts, funds, counted, age>>

(* While the tables stay, so does what they say, and every other call's state. *)
LEMMA TablesSame ==
  ASSUME IInv, UNCHANGED Tables
  PROVE  /\ TablesOK' /\ VelocityHolds'
         /\ \A i : ItemOK(i) => ItemOK(i)'
<1>1. /\ UNCHANGED <<idem, sale, posts, funds, counted, age>>
      /\ \A o : /\ PostsOf(RefundsOf(o))' = PostsOf(RefundsOf(o))
                /\ PostsOf(SpendsOf(o))' = PostsOf(SpendsOf(o))
      /\ \A b : InWindow(b)' = InWindow(b)
  BY DEF Tables, PostsOf, InWindow
<1>2. \A i : Reach(i)' = Reach(i)
  BY <1>1 DEF Reach, Moved
<1>3. TablesOK' /\ VelocityHolds'
  BY <1>1 DEF IInv, TablesOK, VelocityHolds
<1>4. ASSUME NEW i, ItemOK(i) PROVE ItemOK(i)'
  BY <1>1, <1>2, <1>4 DEF ItemOK
<1> QED BY <1>3, <1>4

(* A step of one call leaves the others where they are. *)
LEMMA CallMoves ==
  ASSUME IInv, NEW c \in Calls, NEW new, call' = [call EXCEPT ![c] = new],
         \/ new = Idle
         \/ /\ new \in Call /\ ItemOK(new)
            /\ \A d \in Calls \ {c} : call[d] # Idle => Apart(new, call[d]),
         UNCHANGED Tables, faults' \in 0..MaxFaults, purges' \in 0..MaxPurges,
         told' \in [Ops -> SUBSET Answer], AnswersAreTrue'
  PROVE  IInv'
<1>1. /\ call' \in [Calls -> {Idle} \cup Call] /\ call'[c] = new
      /\ \A d \in Calls : d # c => call'[d] = call[d]
  BY DEF IInv, TypeOK
<1>2. TypeOK'
  BY <1>1 DEF IInv, TypeOK, Tables
<1>3. CallsOK'
  BY <1>1, TablesSame DEF IInv, CallsOK
<1>4. CallsApart'
  <2> SUFFICES ASSUME NEW d \in Calls, NEW e \in Calls, d # e,
                      call'[d] # Idle, call'[e] # Idle
               PROVE  Apart(call'[d], call'[e])
    BY DEF CallsApart, Apart
  <2>1. \A i, j : Apart(i, j) => Apart(j, i)
    BY DEF Apart
  <2>2. CASE d # c /\ e # c
    BY <1>1, <2>2 DEF IInv, CallsApart
  <2>3. CASE d = c
    BY <1>1, <2>3
  <2>4. CASE e = c
    BY <1>1, <2>1, <2>4
  <2> QED BY <2>2, <2>3, <2>4
<1> QED BY <1>2, <1>3, <1>4, TablesSame DEF IInv

(* A call that takes no new lock stays apart from the others. *)
LEMMA Narrower ==
  ASSUME IInv, NEW c \in Calls, call[c] # Idle, NEW new, new.op = call[c].op,
         new.keys \subseteq call[c].keys, new.held \subseteq call[c].held,
         new.subject => call[c].subject
  PROVE  \A d \in Calls \ {c} : call[d] # Idle => Apart(new, call[d])
  BY DEF IInv, CallsApart, Apart

(* The call is over, with a true answer or none. *)
LEMMA CallOver ==
  ASSUME IInv, NEW c \in Calls, End(c), UNCHANGED Tables,
         faults' \in 0..MaxFaults, purges' \in 0..MaxPurges,
         told' \in [Ops -> SUBSET Answer], AnswersAreTrue'
  PROVE  IInv'
  BY CallMoves DEF End

(* A rollback leaves only the answer to give. *)
LEMMA RollbackStep ==
  ASSUME IInv, NEW c \in Calls, call[c].pc # "idle",
         NEW pc \in {"claim", "rejected", "denied", "fault"}, NEW i \in Call,
         i.op = call[c].op, call' = [call EXCEPT ![c] = RolledBack(i, pc)],
         UNCHANGED Tables, UNCHANGED told, faults' \in 0..MaxFaults, purges' \in 0..MaxPurges
  PROVE  IInv'
<1> DEFINE new == RolledBack(i, pc)
<1>1. /\ new \in Call /\ new.op = call[c].op /\ new.pc = pc /\ Clean(new)
      /\ new.sold = {} /\ ~new.subject /\ new.keys = {} /\ new.held = {}
  BY BusyCall DEF RolledBack, Call, CallStep, InTransaction, Clean
<1>2. \A d \in Calls \ {c} : call[d] # Idle => Apart(new, call[d])
  BY <1>1, BusyCall, Narrower
<1>3. ItemOK(new)
  BY <1>1 DEF ItemOK
<1>4. told' \in [Ops -> SUBSET Answer] /\ AnswersAreTrue'
  BY ToldSame DEF Tables
<1> HIDE DEF new
<1>5. call' = [call EXCEPT ![c] = new]
  BY DEF new
<1> QED BY <1>1, <1>2, <1>3, <1>4, <1>5, CallMoves

LEMMA RejectStep ==
  ASSUME IInv, NEW c \in Calls, call[c].pc # "idle", Reject(c),
         UNCHANGED <<idem, sale, posts, funds, counted, age, faults, purges>>
  PROVE  IInv'
<1>1. /\ UNCHANGED Tables /\ faults' \in 0..MaxFaults /\ purges' \in 0..MaxPurges
      /\ posts' = posts
  BY DEF Tables, IInv, TypeOK
<1>2. CASE Rollback(c, "rejected") /\ UNCHANGED told
  BY <1>1, <1>2, BusyCall, RollbackStep DEF Rollback
<1>3. CASE End(c) /\ Tell(c, "refused")
  <2>1. told' \in [Ops -> SUBSET Answer] /\ AnswersAreTrue'
    BY <1>1, <1>3, BusyCall, TellTrue DEF Answer
  <2> QED BY <1>1, <1>3, <2>1, CallOver
<1> QED BY <1>2, <1>3 DEF Reject

(* A call that goes on, its tables and answers unchanged. *)
LEMMA GoesOn ==
  ASSUME IInv, NEW c \in Calls, NEW new \in Call, call' = [call EXCEPT ![c] = new],
         ItemOK(new), \A d \in Calls \ {c} : call[d] # Idle => Apart(new, call[d]),
         UNCHANGED <<idem, sale, posts, funds, counted, age, told, faults, purges>>
  PROVE  IInv'
<1>1. /\ UNCHANGED Tables /\ faults' \in 0..MaxFaults /\ purges' \in 0..MaxPurges
  BY DEF Tables, IInv, TypeOK
<1>2. told' \in [Ops -> SUBSET Answer] /\ AnswersAreTrue'
  BY ToldSame
<1> QED BY <1>1, <1>2, CallMoves

LEMMA BeginStep ==
  ASSUME IInv, NEW c \in Calls, NEW op \in Ops, Begin(c, op)
  PROVE  IInv'
<1> DEFINE new == [pc |-> "claim", op |-> op, sold |-> {}, keys |-> {}, subject |-> FALSE,
                   held |-> {}, staged |-> FALSE, age |-> 0]
<1>1. new \in Call
  BY PipelineAssumption DEF Call, CallStep, InTransaction
<1>2. ItemOK(new)
  BY DEF ItemOK, Clean
<1>3. \A d \in Calls \ {c} : call[d] # Idle => Apart(new, call[d])
  BY DEF Apart
<1>4. call' = [call EXCEPT ![c] = new]
      /\ UNCHANGED <<idem, sale, posts, funds, counted, age, told, faults, purges>>
  BY DEF Begin
<1> HIDE DEF new
<1> QED BY <1>1, <1>2, <1>3, <1>4, GoesOn

LEMMA ClaimKeyStep ==
  ASSUME IInv, NEW c \in Calls, ClaimKey(c)
  PROVE  IInv'
<1> DEFINE op == call[c].op
           next == IF Kind[op] = "spend" THEN "preClaim" ELSE "lock"
           new == [call[c] EXCEPT !.pc = next, !.keys = IF idem[op] = "free" THEN {op} ELSE {}]
<1>1. /\ call[c] \in Call /\ op \in Ops /\ Clean(call[c]) /\ call[c].pc = "claim"
      /\ call[c] # Idle
  BY BusyCall DEF ClaimKey, ItemOK
<1>2. UNCHANGED <<idem, sale, posts, funds, counted, age, faults, purges>>
  BY DEF ClaimKey
<1>3. CASE idem[op] = "recorded" /\ End(c) /\ Tell(c, "duplicate")
  <2>1. posts[op] > 0
    BY <1>1, <1>3 DEF IInv, TablesOK
  <2>2. told' \in [Ops -> SUBSET Answer] /\ AnswersAreTrue'
    BY <1>1, <1>2, <1>3, <2>1, TellTrue DEF Answer
  <2>3. UNCHANGED Tables /\ faults' \in 0..MaxFaults /\ purges' \in 0..MaxPurges
    BY <1>2 DEF Tables, IInv, TypeOK
  <2> QED BY <1>3, <2>2, <2>3, CallOver
<1>4. CASE ~(idem[op] = "recorded" /\ End(c) /\ Tell(c, "duplicate"))
  <2>1. call' = [call EXCEPT ![c] = new] /\ UNCHANGED told
    BY <1>4 DEF ClaimKey
  <2>2. /\ new \in Call /\ new.op = op /\ new.pc = next /\ new.held = {} /\ ~new.subject
        /\ new.sold = {} /\ new.keys \subseteq {op}
    BY <1>1 DEF Call, CallStep, InTransaction, Clean, Keys
  <2>3. LockSet[op] # {}
    BY <1>1, PipelineAssumption
  <2>4. next = "preClaim" => op \in Spends
    BY <1>1 DEF Spends
  <2>5. next = "lock" => op \notin Spends
    BY <1>1 DEF Spends
  <2>6. next \in {"preClaim", "lock"}
    OBVIOUS
  <2>7. \A d \in Calls \ {c} : call[d] # Idle => op \notin call[d].keys
    BY <1>1, BusyCall DEF ClaimKey, KeyFree, Others
  <2> HIDE DEF new, next
  <2>8. ItemOK(new)
    BY <2>2, <2>3, <2>4, <2>5, <2>6 DEF ItemOK
  <2>9. \A d \in Calls \ {c} : call[d] # Idle => Apart(new, call[d])
    BY <2>2, <2>7 DEF Apart
  <2> QED BY <1>2, <2>1, <2>2, <2>8, <2>9, GoesOn
<1> QED BY <1>3, <1>4

LEMMA PreClaimStep ==
  ASSUME IInv, NEW c \in Calls, PreClaim(c)
  PROVE  IInv'
<1> DEFINE new == [call[c] EXCEPT !.pc = "risk"]
<1>1. /\ call[c] \in Call /\ call[c] # Idle /\ ItemOK(call[c]) /\ call[c].pc = "preClaim"
  BY BusyCall DEF PreClaim
<1>2. UNCHANGED <<idem, sale, posts, funds, counted, age, faults, purges>>
  BY DEF PreClaim
<1>3. CASE Reject(c)
  BY <1>1, <1>2, <1>3, RejectStep
<1>4. CASE ~Reject(c)
  <2>1. call' = [call EXCEPT ![c] = new] /\ UNCHANGED told
    BY <1>4 DEF PreClaim, Goto
  <2>2. /\ new \in Call /\ new.op = call[c].op /\ new.pc = "risk" /\ new.held = call[c].held
        /\ new.keys = call[c].keys /\ new.subject = call[c].subject /\ new.sold = call[c].sold
    BY <1>1 DEF Call, CallStep, InTransaction
  <2> HIDE DEF new
  <2>3. ItemOK(new)
    BY <1>1, <2>2 DEF ItemOK
  <2>4. \A d \in Calls \ {c} : call[d] # Idle => Apart(new, call[d])
    BY <1>1, <2>2, Narrower
  <2> QED BY <1>2, <2>1, <2>2, <2>3, <2>4, GoesOn
<1> QED BY <1>3, <1>4

(* The screened sum covers what is on the books and what this call will add. *)
LEMMA Screened ==
  ASSUME IInv, NEW op \in Spends, Velocity(op) <= Limit, NEW i, i.op = op
  PROVE  Total(PriceOf, Reach(i)) <= Limit
<1> DEFINE T == InWindow(BuyerOf[op]) \cup (IF op \in counted THEN {} ELSE {op})
<1>0. op \in Ops /\ Kind[op] = "spend" /\ counted \subseteq Ops
      /\ (op \in counted => age[op] \in 0..Window) /\ Window \in Nat
  BY PipelineAssumption DEF Spends, IInv, TypeOK
<1>1. T \in SUBSET Ops /\ Reach(i) \in SUBSET T
  BY <1>0 DEF InWindow, Reach, Moved
<1>2. Total(PriceOf, Reach(i)) <= Total(PriceOf, T)
      /\ Total(PriceOf, Reach(i)) \in Nat /\ Total(PriceOf, T) \in Nat
  BY <1>1, PricesLess
<1> QED BY <1>2, PipelineAssumption DEF Velocity

LEMMA ScreenRiskStep ==
  ASSUME IInv, NEW c \in Calls, ScreenRisk(c)
  PROVE  IInv'
<1> DEFINE staged == [call[c] EXCEPT !.staged = TRUE, !.age = 0, !.subject = TRUE]
           new == [staged EXCEPT !.pc = "lock"]
<1>1. /\ call[c] \in Call /\ call[c] # Idle /\ ItemOK(call[c]) /\ call[c].pc = "risk"
      /\ call[c].op \in Spends /\ call[c].op \in Ops
  BY BusyCall DEF ScreenRisk, ItemOK
<1>2. /\ UNCHANGED Tables /\ faults' \in 0..MaxFaults /\ purges' \in 0..MaxPurges
      /\ UNCHANGED told
      /\ UNCHANGED <<idem, sale, posts, funds, counted, age, faults, purges>>
  BY DEF ScreenRisk, Tables, IInv, TypeOK
<1>0. 0 \in 0..Window
  BY PipelineAssumption
<1>3. staged \in Call /\ staged.op = call[c].op
  BY <1>0, <1>1 DEF Call
<1>4. CASE Velocity(call[c].op) > Limit
  <2>1. call' = [call EXCEPT ![c] = RolledBack(staged, "denied")]
    BY <1>4 DEF ScreenRisk
  <2> HIDE DEF staged
  <2> QED BY <1>1, <1>2, <1>3, <2>1, RollbackStep
<1>5. CASE ~(Velocity(call[c].op) > Limit)
  <2>1. call' = [call EXCEPT ![c] = new]
    BY <1>5 DEF ScreenRisk
  <2>2. /\ new \in Call /\ new.op = call[c].op /\ new.pc = "lock" /\ new.held = {}
        /\ new.keys = call[c].keys /\ new.subject /\ new.sold = call[c].sold
    BY <1>1, <1>3 DEF Call, CallStep, InTransaction, ItemOK
  <2>3. LockSet[new.op] # {}
    BY <1>1, <2>2, PipelineAssumption
  <2>4. InWindow(BuyerOf[call[c].op]) \cup (IF call[c].op \in counted THEN {} ELSE {call[c].op})
          \in SUBSET Ops
    BY <1>1 DEF InWindow, IInv, TypeOK
  <2>5. Velocity(call[c].op) <= Limit
    BY <1>5, <2>4, PricesLess, PipelineAssumption DEF Velocity
  <2> HIDE DEF new, staged
  <2>6. Total(PriceOf, Reach(new)) <= Limit
    BY <1>1, <2>2, <2>5, Screened
  <2>7. ItemOK(new)
    BY <1>1, <2>2, <2>3, <2>6 DEF ItemOK
  <2>8. \A d \in Calls \ {c} : call[d] # Idle =>
          ~(call[d].subject /\ BuyerOf[call[d].op] = BuyerOf[call[c].op])
    BY BusyCall DEF ScreenRisk, SubjectFree, Others
  <2>9. \A d \in Calls \ {c} : call[d] # Idle => Apart(new, call[d])
    BY <1>1, <2>2, <2>8 DEF Apart, IInv, CallsApart
  <2> QED BY <1>2, <2>1, <2>2, <2>7, <2>9, GoesOn
<1> QED BY <1>4, <1>5

LEMMA LockNextStep ==
  ASSUME IInv, NEW c \in Calls, LockNext(c)
  PROVE  IInv'
<1> DEFINE left == Need(c) \ call[c].held
           a == Min(left)
           held == call[c].held \cup {a}
           after == IF call[c].pc = "lock" THEN "handle" ELSE "undoKey"
           pc == IF Need(c) \subseteq held THEN after ELSE call[c].pc
           new == [call[c] EXCEPT !.held = held, !.pc = pc]
<1>1. /\ call[c] \in Call /\ call[c] # Idle /\ ItemOK(call[c]) /\ call[c].op \in Ops
      /\ call[c].pc \in {"lock", "extend"}
  BY BusyCall DEF LockNext
<1>2. UNCHANGED <<idem, sale, posts, funds, counted, age, told, faults, purges>>
      /\ AccountFree(c, a) /\ Take(c, a)
  BY DEF LockNext
<1>3. Need(c) \subseteq Accounts /\ left # {}
  BY <1>1, PipelineAssumption DEF Need, ItemOK, Call
<1>4. a \in left
  <2>1. left \in SUBSET Nat
    BY <1>3, PipelineAssumption
  <2> QED BY <1>3, <2>1, MinIn
<1> HIDE DEF a, left
<1>5. call' = [call EXCEPT ![c] = new]
  BY <1>2 DEF Take
<1>6. /\ new \in Call /\ new.op = call[c].op /\ new.held = held /\ new.keys = call[c].keys
      /\ new.subject = call[c].subject /\ new.sold = call[c].sold /\ new.pc = pc
  BY <1>1, <1>3, <1>4 DEF left, Call, CallStep, InTransaction
<1>7. Reach(new) = Reach(call[c])
  BY <1>6 DEF Reach
<1>8. ASSUME call[c].pc = "lock" PROVE ItemOK(new)
  <2>1. Need(c) = LockSet[call[c].op] /\ pc \in {"lock", "handle"}
        /\ (pc = "lock" => ~(LockSet[call[c].op] \subseteq held))
        /\ (pc = "handle" => LockSet[call[c].op] \subseteq held)
    BY <1>8 DEF Need
  <2> HIDE DEF pc, held, new
  <2> QED BY <1>1, <1>6, <1>7, <1>8, <2>1 DEF ItemOK
<1>9. ASSUME call[c].pc = "extend" PROVE ItemOK(new)
  <2>1. /\ Need(c) = UNION {LockSet[s] : s \in call[c].sold} /\ pc \in {"extend", "undoKey"}
        /\ pc = "extend" => ~(UNION {LockSet[s] : s \in call[c].sold} \subseteq held)
        /\ call[c].held \subseteq held
    BY <1>9 DEF Need
  <2> HIDE DEF pc, held, new
  <2> QED BY <1>1, <1>6, <1>7, <1>9, <2>1 DEF ItemOK
<1>10. \A d \in Calls \ {c} : call[d] # Idle => a \notin call[d].held
  BY <1>2, BusyCall DEF AccountFree, Others
<1>11. \A d \in Calls \ {c} : call[d] # Idle => Apart(new, call[d])
  BY <1>1, <1>6, <1>10 DEF Apart, IInv, CallsApart
<1> HIDE DEF new
<1> QED BY <1>1, <1>2, <1>5, <1>6, <1>8, <1>9, <1>11, GoesOn

LEMMA HandleSpendStep ==
  ASSUME IInv, NEW c \in Calls, HandleSpend(c)
  PROVE  IInv'
<1> DEFINE op == call[c].op
           new == [call[c] EXCEPT !.pc = "commit"]
<1>1. /\ call[c] \in Call /\ call[c] # Idle /\ ItemOK(call[c]) /\ call[c].pc = "handle"
      /\ op \in Ops /\ op \in Spends
  BY BusyCall DEF HandleSpend, Spends
<1>2. UNCHANGED <<idem, sale, posts, funds, counted, age, faults, purges>>
  BY DEF HandleSpend
<1>3. CASE Reject(c)
  BY <1>1, <1>2, <1>3, RejectStep
<1>4. CASE ~Reject(c)
  <2>1. /\ call' = [call EXCEPT ![c] = new] /\ UNCHANGED told
        /\ ~(funds[BuyerOf[op]] < PriceOf[op])
    BY <1>4 DEF HandleSpend, Goto
  <2>2. /\ new \in Call /\ new.op = op /\ new.pc = "commit" /\ new.held = call[c].held
        /\ new.keys = call[c].keys /\ new.subject = call[c].subject /\ new.sold = call[c].sold
    BY <1>1 DEF Call, CallStep, InTransaction
  <2>3. funds[BuyerOf[op]] >= PriceOf[op]
    BY <1>1, <2>1, PipelineAssumption DEF IInv, TypeOK
  <2>4. Reach(new) = Reach(call[c])
    BY <2>2 DEF Reach
  <2> HIDE DEF new
  <2>5. ItemOK(new)
    BY <1>1, <2>2, <2>3, <2>4 DEF ItemOK
  <2>6. \A d \in Calls \ {c} : call[d] # Idle => Apart(new, call[d])
    BY <1>1, <2>2, Narrower
  <2> QED BY <1>2, <2>1, <2>2, <2>5, <2>6, GoesOn
<1> QED BY <1>3, <1>4

LEMMA HandleRefundStep ==
  ASSUME IInv, NEW c \in Calls, HandleRefund(c)
  PROVE  IInv'
<1> DEFINE op == call[c].op
           sold == sale[OrderOf[op]]
           locks == UNION {LockSet[s] : s \in sold}
           pc == IF locks \subseteq call[c].held THEN "undoKey" ELSE "extend"
           new == [call[c] EXCEPT !.sold = sold, !.pc = pc]
<1>1. /\ call[c] \in Call /\ call[c] # Idle /\ ItemOK(call[c]) /\ call[c].pc = "handle"
      /\ op \in Ops /\ op \notin Spends /\ sold \in SUBSET Ops
  BY BusyCall DEF HandleRefund, Spends, IInv, TypeOK
<1>2. UNCHANGED <<idem, sale, posts, funds, counted, age, faults, purges>>
  BY DEF HandleRefund
<1>3. CASE Reject(c)
  BY <1>1, <1>2, <1>3, RejectStep
<1>4. CASE ~Reject(c)
  <2>1. call' = [call EXCEPT ![c] = new] /\ UNCHANGED told /\ sold # {}
    BY <1>4 DEF HandleRefund
  <2>2. /\ new \in Call /\ new.op = op /\ new.pc = pc /\ new.held = call[c].held
        /\ new.keys = call[c].keys /\ new.subject = call[c].subject /\ new.sold = sold
    BY <1>1 DEF Call, CallStep, InTransaction
  <2>3. /\ pc \in {"undoKey", "extend"}
        /\ pc = "extend" => ~(UNION {LockSet[s] : s \in sold} \subseteq call[c].held)
    OBVIOUS
  <2>4. Reach(new) = Reach(call[c])
    BY <2>2 DEF Reach
  <2> HIDE DEF new, pc
  <2>5. ItemOK(new)
    BY <1>1, <2>1, <2>2, <2>3, <2>4 DEF ItemOK
  <2>6. \A d \in Calls \ {c} : call[d] # Idle => Apart(new, call[d])
    BY <1>1, <2>2, Narrower
  <2> QED BY <1>2, <2>1, <2>2, <2>5, <2>6, GoesOn
<1> QED BY <1>3, <1>4

LEMMA ClaimReversalStep ==
  ASSUME IInv, NEW c \in Calls, ClaimReversal(c)
  PROVE  IInv'
<1> DEFINE op == call[c].op
           order == OrderOf[op]
           pc == IF idem[order] = "recorded" THEN "duplicate" ELSE "commit"
           keys == IF idem[order] = "free" THEN call[c].keys \cup {order} ELSE call[c].keys
           new == [call[c] EXCEPT !.pc = pc, !.keys = keys]
<1>1. /\ call[c] \in Call /\ call[c] # Idle /\ ItemOK(call[c]) /\ call[c].pc = "undoKey"
      /\ op \in Ops /\ op \notin Spends /\ order \in Orders /\ KeyFree(c, order)
  BY BusyCall DEF ClaimReversal, ItemOK
<1>2. /\ call' = [call EXCEPT ![c] = new]
      /\ UNCHANGED <<idem, sale, posts, funds, counted, age, told, faults, purges>>
  BY DEF ClaimReversal
<1>3. /\ new \in Call /\ new.op = op /\ new.pc = pc /\ new.held = call[c].held
      /\ new.keys = keys /\ new.subject = call[c].subject /\ new.sold = call[c].sold
  BY <1>1 DEF Call, CallStep, InTransaction, Keys
<1>4. /\ pc \in {"duplicate", "commit"}
      /\ pc = "duplicate" => PostsOf(RefundsOf(order)) > 0
      /\ pc = "commit" => idem[order] = "free" /\ order \in keys
  <2>1. idem[order] \in Row /\ idem[order] # "null"
        /\ (idem[order] = "recorded" => PostsOf(RefundsOf(order)) > 0)
    BY <1>1 DEF IInv, TypeOK, TablesOK, Keys
  <2> QED BY <2>1 DEF Row
<1>5. Reach(new) = Reach(call[c])
  BY <1>3 DEF Reach
<1>6. \A d \in Calls \ {c} : call[d] # Idle => order \notin call[d].keys
  BY <1>1, BusyCall DEF KeyFree, Others
<1>7. keys \subseteq call[c].keys \cup {order}
  OBVIOUS
<1> HIDE DEF new, pc, keys
<1>8. ItemOK(new)
  BY <1>1, <1>3, <1>4, <1>5 DEF ItemOK
<1>9. \A d \in Calls \ {c} : call[d] # Idle => Apart(new, call[d])
  BY <1>1, <1>3, <1>6, <1>7 DEF Apart, IInv, CallsApart
<1> QED BY <1>2, <1>3, <1>8, <1>9, GoesOn

LEMMA FailureStep ==
  ASSUME IInv, NEW c \in Calls, Conflict(c) \/ Fault(c) \/ Crash(c)
  PROVE  IInv'
<1>1. /\ UNCHANGED Tables /\ faults' \in 0..MaxFaults /\ purges' \in 0..MaxPurges
      /\ UNCHANGED told
  BY PipelineAssumption DEF Conflict, Fault, Crash, Fails, Tables, IInv, TypeOK
<1>2. call[c].pc # "idle"
  BY BusyCall DEF Conflict, Fault, Crash, InTransaction
<1>3. CASE Crash(c)
  BY <1>1, <1>3, ToldSame, CallOver DEF Crash, Tables
<1>4. CASE Conflict(c) \/ Fault(c)
  BY <1>1, <1>2, <1>4, BusyCall, RollbackStep DEF Conflict, Fault, Rollback
<1> QED BY <1>3, <1>4

-----------------------------------------------------------------------------
(* Steps that change the tables *)

(* What a call may rely on survives every change the others make. *)
LEMMA ItemKeeps ==
  ASSUME IInv, NEW i \in Call, ItemOK(i),
         i.pc = "commit" /\ i.op \in Spends => funds'[BuyerOf[i.op]] >= funds[BuyerOf[i.op]],
         funds'[BuyerOf[i.op]] \in Nat,
         OrderOf[i.op] \in i.keys /\ idem[OrderOf[i.op]] = "free" =>
           idem'[OrderOf[i.op]] = "free",
         sale[OrderOf[i.op]] # {} => sale'[OrderOf[i.op]] # {},
         PostsOf(RefundsOf(OrderOf[i.op])) > 0 => PostsOf(RefundsOf(OrderOf[i.op]))' > 0,
         i.subject => Reach(i)' \subseteq Reach(i)
  PROVE  ItemOK(i)'
<1>1. i.op \in Ops /\ funds[BuyerOf[i.op]] \in Nat /\ PriceOf[i.op] \in Nat
  BY PipelineAssumption DEF Call, IInv, TypeOK
<1>2. Reach(i) \in SUBSET Ops
  BY <1>1 DEF Reach, Moved, InWindow, IInv, TypeOK
<1>3. i.subject => Total(PriceOf, Reach(i)') <= Limit
  <2>1. i.subject => Total(PriceOf, Reach(i)) <= Limit
    BY DEF ItemOK
  <2> SUFFICES ASSUME i.subject PROVE Total(PriceOf, Reach(i)') <= Limit
    OBVIOUS
  <2>2. /\ Total(PriceOf, Reach(i)') <= Total(PriceOf, Reach(i))
        /\ Total(PriceOf, Reach(i)') \in Nat /\ Total(PriceOf, Reach(i)) \in Nat
    BY <1>2, PricesLess
  <2> QED BY <2>1, <2>2, PipelineAssumption
<1>4. i.pc = "commit" /\ i.op \in Spends => funds'[BuyerOf[i.op]] >= PriceOf[i.op]
  BY <1>1 DEF ItemOK
<1> QED BY <1>3, <1>4 DEF ItemOK, Clean

(* A call ends with a change of the tables that suits the others. *)
LEMMA CallCommits ==
  ASSUME IInv, NEW c \in Calls, End(c),
         \A d \in Calls \ {c} : call[d] # Idle => ItemOK(call[d])',
         idem' \in [Keys -> Row], sale' \in [Orders -> SUBSET Ops], posts' \in [Ops -> Nat],
         funds' \in [Buyers -> Nat], counted' \subseteq Ops, age' \in [Ops -> 0..Window],
         told' \in [Ops -> SUBSET Answer], faults' \in 0..MaxFaults, purges' \in 0..MaxPurges,
         TablesOK', AnswersAreTrue', VelocityHolds'
  PROVE  IInv'
<1>1. /\ call' \in [Calls -> {Idle} \cup Call] /\ call'[c] = Idle
      /\ \A d \in Calls : d # c => call'[d] = call[d]
  BY DEF IInv, TypeOK, End
<1>2. TypeOK'
  BY <1>1 DEF TypeOK
<1>3. CallsOK'
  BY <1>1 DEF CallsOK
<1>4. CallsApart'
  BY <1>1 DEF IInv, CallsApart, Apart
<1> QED BY <1>2, <1>3, <1>4 DEF IInv

(* The order of the answers: what Tell adds at a commit. *)
LEMMA TellCommitted ==
  ASSUME IInv, NEW c \in Calls, call[c].op \in Ops, Tell(c, "committed"),
         \A y \in Ops : posts'[y] = IF y = call[c].op THEN posts[y] + 1 ELSE posts[y]
  PROVE  told' \in [Ops -> SUBSET Answer] /\ AnswersAreTrue'
<1>1. told' = [told EXCEPT ![call[c].op] = told[call[c].op] \cup {"committed"}]
  BY DEF Tell
<1>2. told \in [Ops -> SUBSET Answer] /\ posts \in [Ops -> Nat]
  BY DEF IInv, TypeOK
<1>3. told' \in [Ops -> SUBSET Answer]
  BY <1>1, <1>2 DEF Answer
<1>4. \A op \in Ops : PostsOf(RefundsOf(OrderOf[op]))' >= PostsOf(RefundsOf(OrderOf[op]))
                      /\ PostsOf(RefundsOf(OrderOf[op])) \in Nat
                      /\ PostsOf(RefundsOf(OrderOf[op]))' \in Nat
  <2> SUFFICES ASSUME NEW op \in Ops, NEW S, S = RefundsOf(OrderOf[op])
               PROVE  PostsOf(S)' >= PostsOf(S) /\ PostsOf(S) \in Nat /\ PostsOf(S)' \in Nat
    BY DEF PostsOf, RefundsOf, Spends
  <2>1. S \in SUBSET Ops
    BY OrderSets
  <2>2. PostsOf(S)' = PostsOf(S) + (IF call[c].op \in S THEN 1 ELSE 0)
    BY <2>1, PostsMore DEF IInv
  <2> QED BY <2>1, <2>2, PostsType DEF IInv
<1>5. \A op \in Ops : "duplicate" \in told'[op] => "duplicate" \in told[op]
  BY <1>1, <1>2
<1>6. \A op \in Ops : posts'[op] \in Nat /\ posts'[op] >= posts[op] /\ posts[op] \in Nat
  BY <1>2
<1>7. posts'[call[c].op] > 0
  BY <1>2
<1>8. \A op \in Ops : "committed" \in told'[op] => "committed" \in told[op] \/ op = call[c].op
  BY <1>1, <1>2
<1>9. ASSUME NEW op \in Ops
      PROVE  /\ "committed" \in told'[op] => posts'[op] > 0
             /\ "duplicate" \in told'[op] =>
                  posts'[op] > 0 \/ (op \notin Spends /\ PostsOf(RefundsOf(OrderOf[op]))' > 0)
  <2>1. "committed" \in told[op] => posts[op] > 0
    BY DEF IInv, AnswersAreTrue
  <2>2. "duplicate" \in told[op] =>
          posts[op] > 0 \/ (op \notin Spends /\ PostsOf(RefundsOf(OrderOf[op])) > 0)
    BY DEF IInv, AnswersAreTrue
  <2>3. PostsOf(RefundsOf(OrderOf[op])) > 0 => PostsOf(RefundsOf(OrderOf[op]))' > 0
    BY <1>4
  <2> QED BY <1>5, <1>6, <1>7, <1>8, <2>1, <2>2, <2>3
<1> QED BY <1>3, <1>9 DEF AnswersAreTrue

LEMMA CommitDuplicateStep ==
  ASSUME IInv, NEW c \in Calls, CommitDuplicate(c)
  PROVE  IInv'
<1> DEFINE op == call[c].op
<1>1. /\ call[c] \in Call /\ call[c] # Idle /\ ItemOK(call[c]) /\ call[c].pc = "duplicate"
      /\ op \in Ops /\ op \notin Spends /\ PostsOf(RefundsOf(OrderOf[op])) > 0
  BY BusyCall DEF CommitDuplicate, ItemOK
<1>2. /\ End(c) /\ Tell(c, "duplicate")
      /\ idem' = [idem EXCEPT ![op] = IF idem[op] = "free" THEN "null" ELSE idem[op]]
      /\ UNCHANGED <<sale, posts, funds, counted, age, faults, purges>>
  BY DEF CommitDuplicate
<1>3. told' \in [Ops -> SUBSET Answer] /\ AnswersAreTrue'
  BY <1>1, <1>2, TellTrue DEF Answer
<1>4. /\ idem' \in [Keys -> Row] /\ \A o \in Orders : idem'[o] = idem[o]
      /\ \A x \in Ops : idem'[x] = "recorded" => idem[x] = "recorded"
  BY <1>1, <1>2, PipelineAssumption DEF IInv, TypeOK, Keys, Row
<1>5. /\ \A o : /\ PostsOf(RefundsOf(o))' = PostsOf(RefundsOf(o))
                /\ PostsOf(SpendsOf(o))' = PostsOf(SpendsOf(o))
      /\ \A b : InWindow(b)' = InWindow(b)
  BY <1>2 DEF PostsOf, InWindow
<1>6. \A i : Reach(i)' = Reach(i)
  BY <1>2, <1>5 DEF Reach, Moved
<1>7. ASSUME NEW d \in Calls \ {c}, call[d] # Idle PROVE ItemOK(call[d])'
  <2>1. /\ call'[d] = call[d] /\ call[d] \in Call /\ ItemOK(call[d])
        /\ OrderOf[call[d].op] \in Orders /\ BuyerOf[call[d].op] \in Buyers
    BY <1>2, <1>7, BusyCall, PipelineAssumption DEF End, IInv, TypeOK
  <2>2. funds'[BuyerOf[call[d].op]] \in Nat /\ funds'[BuyerOf[call[d].op]] >= funds[BuyerOf[call[d].op]]
    BY <1>2, <2>1 DEF IInv, TypeOK
  <2> DEFINE i == call[d]
  <2>3. \A j \in Call : j = i => ItemOK(j)'
    BY <1>2, <1>4, <1>5, <1>6, <2>1, <2>2, ItemKeeps
  <2> QED BY <2>1, <2>3
<1>8. TablesOK'
  BY <1>2, <1>4, <1>5 DEF IInv, TablesOK
<1>9. VelocityHolds'
  BY <1>2, <1>5 DEF IInv, VelocityHolds
<1> QED BY <1>2, <1>3, <1>4, <1>7, <1>8, <1>9, CallCommits DEF IInv, TypeOK

(* How the sums of an order's postings move when op is posted once more. *)
LEMMA OrderSums ==
  ASSUME IInv, NEW op \in Ops,
         \A y \in Ops : posts'[y] = IF y = op THEN posts[y] + 1 ELSE posts[y]
  PROVE  \A o : /\ PostsOf(SpendsOf(o)) \in Nat /\ PostsOf(RefundsOf(o)) \in Nat
                /\ PostsOf(SpendsOf(o))' =
                     PostsOf(SpendsOf(o)) + (IF op \in SpendsOf(o) THEN 1 ELSE 0)
                /\ PostsOf(RefundsOf(o))' =
                     PostsOf(RefundsOf(o)) + (IF op \in RefundsOf(o) THEN 1 ELSE 0)
<1>1. \A S \in SUBSET Ops : /\ PostsOf(S) \in Nat
                            /\ PostsOf(S)' = PostsOf(S) + (IF op \in S THEN 1 ELSE 0)
  BY PostsMore, PostsType DEF IInv
<1>2. \A o : PostsOf(SpendsOf(o))' = Total(posts', SpendsOf(o))
             /\ PostsOf(RefundsOf(o))' = Total(posts', RefundsOf(o))
  BY DEF PostsOf, SpendsOf, RefundsOf, Spends
<1>3. \A S : PostsOf(S)' = Total(posts', S)
  BY DEF PostsOf
<1> QED BY <1>1, <1>2, <1>3, OrderSets

LEMMA CommitRefundStep ==
  ASSUME IInv, NEW c \in Calls, CommitRefund(c)
  PROVE  IInv'
<1> DEFINE op == call[c].op
           o == OrderOf[op]
<1>1. /\ call[c] \in Call /\ call[c] # Idle /\ ItemOK(call[c]) /\ call[c].pc = "commit"
      /\ op \in Ops /\ op \notin Spends /\ o \in Orders
  BY BusyCall DEF CommitRefund, Spends
<1>2. /\ End(c) /\ Tell(c, "committed")
      /\ posts' = [posts EXCEPT ![op] = posts[op] + 1]
      /\ idem' = [idem EXCEPT ![op] = "recorded", ![o] = "recorded"]
      /\ UNCHANGED <<sale, counted, age, faults, purges>>
  BY DEF CommitRefund
<1>3. PICK s \in call[c].sold :
        funds' = [funds EXCEPT ![BuyerOf[s]] = funds[BuyerOf[s]] + PriceOf[s]]
  BY DEF CommitRefund
<1>4. /\ funds' \in [Buyers -> Nat] /\ \A b \in Buyers : funds'[b] >= funds[b]
  <2>1. s \in Ops /\ BuyerOf[s] \in Buyers /\ PriceOf[s] \in Nat /\ funds \in [Buyers -> Nat]
    BY <1>1, PipelineAssumption DEF Call, IInv, TypeOK
  <2> QED BY <1>3, <2>1
<1>5. /\ posts \in [Ops -> Nat] /\ posts' \in [Ops -> Nat]
      /\ \A y \in Ops : posts'[y] = IF y = op THEN posts[y] + 1 ELSE posts[y]
  BY <1>1, <1>2 DEF IInv, TypeOK
<1>6. told' \in [Ops -> SUBSET Answer] /\ AnswersAreTrue'
  BY <1>1, <1>2, <1>5, TellCommitted
<1>7. \A p : /\ PostsOf(SpendsOf(p))' = PostsOf(SpendsOf(p))
             /\ PostsOf(RefundsOf(p))' =
                  PostsOf(RefundsOf(p)) + (IF op \in RefundsOf(p) THEN 1 ELSE 0)
             /\ PostsOf(RefundsOf(p)) \in Nat
  <2>1. \A p : op \notin SpendsOf(p)
    BY <1>1 DEF SpendsOf
  <2> QED BY <1>1, <1>5, <2>1, OrderSums
<1>8. /\ idem' \in [Keys -> Row]
      /\ \A x \in Ops : idem'[x] = IF x = op THEN "recorded" ELSE idem[x]
      /\ \A x \in Orders : idem'[x] = IF x = o THEN "recorded" ELSE idem[x]
  BY <1>1, <1>2, PipelineAssumption DEF IInv, TypeOK, Keys, Row
<1>9. \A b : InWindow(b)' = InWindow(b) /\ Moved(b)' = Moved(b)
  <2>1. \A b : InWindow(b)' = InWindow(b) /\ op \notin InWindow(b) /\ InWindow(b) \subseteq Ops
    BY <1>1, <1>2 DEF InWindow, Spends, IInv, TypeOK
  <2> QED BY <1>5, <2>1 DEF Moved
<1>10. \A i : Reach(i)' = Reach(i)
  BY <1>2, <1>9 DEF Reach
<1>11. ASSUME NEW d \in Calls \ {c}, call[d] # Idle PROVE ItemOK(call[d])'
  <2> DEFINE i == call[d]
  <2>1. /\ call'[d] = i /\ i \in Call /\ ItemOK(i)
        /\ OrderOf[i.op] \in Orders /\ BuyerOf[i.op] \in Buyers
    BY <1>2, <1>11, BusyCall, PipelineAssumption DEF End, IInv, TypeOK
  <2>2. OrderOf[i.op] \in i.keys => OrderOf[i.op] # o
    BY <1>1, <1>11 DEF IInv, CallsApart, Apart, ItemOK
  <2>4. \A j \in Call : j = i => ItemOK(j)'
    <3> SUFFICES ASSUME NEW j \in Call, j = i PROVE ItemOK(j)'
      OBVIOUS
    <3>1. OrderOf[j.op] \in j.keys /\ idem[OrderOf[j.op]] = "free" =>
            idem'[OrderOf[j.op]] = "free"
      BY <1>8, <2>1, <2>2
    <3>2. sale' = sale /\ Reach(j)' = Reach(j)
      BY <1>2, <1>10
    <3>3. PostsOf(RefundsOf(OrderOf[j.op])) > 0 => PostsOf(RefundsOf(OrderOf[j.op]))' > 0
      BY <1>7
    <3>4. funds'[BuyerOf[j.op]] \in Nat /\ funds'[BuyerOf[j.op]] >= funds[BuyerOf[j.op]]
      BY <1>4, <2>1
    <3> QED BY <2>1, <3>1, <3>2, <3>3, <3>4, ItemKeeps
  <2> QED BY <2>1, <2>4
<1>12. sale[o] # {}
  BY <1>1 DEF ItemOK
<1>13. TablesOK'
  <2>1. \A x \in Ops : idem'[x] = "recorded" => posts'[x] > 0
    BY <1>5, <1>8 DEF IInv, TablesOK
  <2>2. \A x \in Spends : posts'[x] > 0 => x \in counted'
    BY <1>1, <1>2, <1>5 DEF IInv, TablesOK, Spends
  <2>3. op \in RefundsOf(o)
    BY <1>1 DEF RefundsOf
  <2>4. ASSUME NEW p \in Orders
        PROVE  /\ idem'[p] # "null"
               /\ idem'[p] = "recorded" => PostsOf(RefundsOf(p))' > 0 /\ sale'[p] # {}
               /\ sale'[p] # {} => PostsOf(SpendsOf(p))' > 0
    <3>1. /\ idem[p] # "null"
          /\ idem[p] = "recorded" => PostsOf(RefundsOf(p)) > 0 /\ sale[p] # {}
          /\ sale[p] # {} => PostsOf(SpendsOf(p)) > 0
      BY DEF IInv, TablesOK
    <3>2. /\ PostsOf(SpendsOf(p))' = PostsOf(SpendsOf(p))
          /\ PostsOf(RefundsOf(p))' =
               PostsOf(RefundsOf(p)) + (IF op \in RefundsOf(p) THEN 1 ELSE 0)
          /\ PostsOf(RefundsOf(p)) \in Nat
      BY <1>7
    <3>3. idem'[p] = IF p = o THEN "recorded" ELSE idem[p]
      BY <1>8
    <3>4. sale' = sale
      BY <1>2
    <3>5. CASE p = o
      BY <1>12, <2>3, <3>1, <3>2, <3>3, <3>4, <3>5
    <3>6. CASE p # o
      BY <3>1, <3>2, <3>3, <3>4, <3>6
    <3> QED BY <3>5, <3>6
  <2> QED BY <2>1, <2>2, <2>4 DEF TablesOK, Spends
<1>14. VelocityHolds'
  BY <1>9 DEF IInv, VelocityHolds, Moved
<1> QED BY <1>2, <1>4, <1>5, <1>6, <1>8, <1>11, <1>13, <1>14, CallCommits DEF IInv, TypeOK

LEMMA CountedFacts ==
  ASSUME IInv, NEW c \in Calls, call[c] # Idle, Counted(c)
  PROVE  /\ counted' \subseteq Ops /\ age' \in [Ops -> 0..Window]
         /\ counted' = counted \cup {call[c].op}
         /\ \A x \in Ops : x # call[c].op \/ x \in counted => age'[x] = age[x]
<1>1. call[c].op \in Ops /\ call[c].age \in 0..Window
  BY BusyCall DEF Call
<1> QED BY <1>1 DEF Counted, IInv, TypeOK

LEMMA CommitSpendStep ==
  ASSUME IInv, NEW c \in Calls, CommitSpend(c)
  PROVE  IInv'
<1> DEFINE op == call[c].op
           o == OrderOf[op]
<1>0. PICK b : b = BuyerOf[op]
  OBVIOUS
<1>1. /\ call[c] \in Call /\ call[c] # Idle /\ ItemOK(call[c]) /\ call[c].pc = "commit"
      /\ op \in Ops /\ op \in Spends /\ o \in Orders /\ b \in Buyers /\ call[c].subject
  BY <1>0, BusyCall, PipelineAssumption DEF CommitSpend, Spends, ItemOK
<1>2. /\ End(c) /\ Tell(c, "committed") /\ Counted(c)
      /\ posts' = [posts EXCEPT ![op] = posts[op] + 1]
      /\ idem' = [idem EXCEPT ![op] = "recorded"]
      /\ sale' = [sale EXCEPT ![o] = {op}]
      /\ funds' = [funds EXCEPT ![b] = funds[b] - PriceOf[op]]
      /\ UNCHANGED <<faults, purges>>
  BY <1>0 DEF CommitSpend
<1>3. /\ funds' \in [Buyers -> Nat] /\ \A x \in Buyers : x # b => funds'[x] = funds[x]
  <2>1. funds[b] >= PriceOf[op] /\ PriceOf[op] \in Nat /\ funds \in [Buyers -> Nat]
    BY <1>0, <1>1, PipelineAssumption DEF ItemOK, IInv, TypeOK
  <2> QED BY <1>1, <1>2, <2>1
<1>4. /\ sale' \in [Orders -> SUBSET Ops] /\ sale'[o] # {}
      /\ \A p \in Orders : p # o => sale'[p] = sale[p]
  BY <1>1, <1>2 DEF IInv, TypeOK
<1>5. /\ posts \in [Ops -> Nat] /\ posts' \in [Ops -> Nat]
      /\ \A y \in Ops : posts'[y] = IF y = op THEN posts[y] + 1 ELSE posts[y]
  BY <1>1, <1>2 DEF IInv, TypeOK
<1>6. told' \in [Ops -> SUBSET Answer] /\ AnswersAreTrue'
  BY <1>1, <1>2, <1>5, TellCommitted
<1>7. \A p : /\ PostsOf(RefundsOf(p))' = PostsOf(RefundsOf(p))
             /\ PostsOf(SpendsOf(p))' =
                  PostsOf(SpendsOf(p)) + (IF op \in SpendsOf(p) THEN 1 ELSE 0)
             /\ PostsOf(SpendsOf(p)) \in Nat
  <2>1. \A p : op \notin RefundsOf(p)
    BY <1>1 DEF RefundsOf
  <2> QED BY <1>1, <1>5, <2>1, OrderSums
<1>8. /\ idem' \in [Keys -> Row]
      /\ \A x \in Ops : idem'[x] = IF x = op THEN "recorded" ELSE idem[x]
      /\ \A x \in Orders : idem'[x] = idem[x]
  BY <1>1, <1>2, PipelineAssumption DEF IInv, TypeOK, Keys, Row
<1>9. /\ counted' \subseteq Ops /\ age' \in [Ops -> 0..Window]
      /\ counted' = counted \cup {op}
      /\ \A x \in Ops : x # op \/ x \in counted => age'[x] = age[x]
  BY <1>1, <1>2, CountedFacts
<1>10. counted \subseteq Ops /\ Window \in Nat /\ age \in [Ops -> 0..Window]
  BY PipelineAssumption DEF IInv, TypeOK
<1>11. \A x : x # b => Moved(x)' \subseteq Moved(x)
  <2> SUFFICES ASSUME NEW x, x # b, NEW y \in Moved(x)' PROVE y \in Moved(x)
    OBVIOUS
  <2>1. /\ y \in counted' /\ age'[y] < Window /\ Kind[y] = "spend" /\ BuyerOf[y] = x
        /\ posts'[y] > 0 /\ y \in Ops
    BY <1>9 DEF Moved, InWindow
  <2>2. y # op
    BY <1>0, <2>1
  <2>3. y \in counted /\ age[y] < Window /\ posts[y] > 0
    BY <1>5, <1>9, <2>1, <2>2
  <2> QED BY <2>1, <2>3 DEF Moved, InWindow
<1>12. Moved(b)' \subseteq Reach(call[c])
  <2> SUFFICES ASSUME NEW x \in Moved(b)' PROVE x \in Reach(call[c])
    OBVIOUS
  <2>1. /\ x \in counted' /\ age'[x] < Window /\ Kind[x] = "spend" /\ BuyerOf[x] = b
        /\ posts'[x] > 0 /\ x \in Ops
    BY <1>9 DEF Moved, InWindow
  <2>2. CASE x # op
    <3>1. x \in counted /\ age[x] < Window /\ posts[x] > 0
      BY <1>5, <1>9, <2>1, <2>2
    <3> QED BY <1>0, <2>1, <3>1 DEF Reach, Moved, InWindow
  <2>3. CASE x = op /\ op \in counted
    <3>1. ~(op \in counted /\ age[op] >= Window)
      BY <1>9, <1>10, <2>1, <2>3
    <3> QED BY <2>3, <3>1 DEF Reach
  <2>4. CASE x = op /\ op \notin counted
    BY <2>4 DEF Reach
  <2> QED BY <2>2, <2>3, <2>4
<1>13. ASSUME NEW d \in Calls \ {c}, call[d] # Idle PROVE ItemOK(call[d])'
  <2>1. /\ call'[d] = call[d] /\ call[d] \in Call /\ ItemOK(call[d])
        /\ call[d].op \in Ops /\ OrderOf[call[d].op] \in Orders /\ BuyerOf[call[d].op] \in Buyers
    BY <1>2, <1>13, BusyCall, PipelineAssumption DEF End, IInv, TypeOK
  <2>2. call[d].subject => BuyerOf[call[d].op] # b
    BY <1>0, <1>1, <1>13 DEF IInv, CallsApart, Apart
  <2>3. call[d].pc = "commit" /\ call[d].op \in Spends => call[d].subject
    BY <2>1 DEF ItemOK
  <2>4. \A j \in Call : j = call[d] => ItemOK(j)'
    <3> SUFFICES ASSUME NEW j \in Call, j = call[d] PROVE ItemOK(j)'
      OBVIOUS
    <3>1. idem'[OrderOf[j.op]] = idem[OrderOf[j.op]]
      BY <1>8, <2>1
    <3>2. sale[OrderOf[j.op]] # {} => sale'[OrderOf[j.op]] # {}
      BY <1>4, <2>1
    <3>3. PostsOf(RefundsOf(OrderOf[j.op])) > 0 => PostsOf(RefundsOf(OrderOf[j.op]))' > 0
      BY <1>7
    <3>4. funds'[BuyerOf[j.op]] \in Nat
      BY <1>3, <2>1
    <3>5. j.subject => funds'[BuyerOf[j.op]] >= funds[BuyerOf[j.op]]
      BY <1>3, <2>1, <2>2 DEF IInv, TypeOK
    <3>6. j.subject => Reach(j)' \subseteq Reach(j)
      <4> SUFFICES ASSUME j.subject PROVE Reach(j)' \subseteq Reach(j)
        OBVIOUS
      <4>1. Moved(BuyerOf[j.op])' \subseteq Moved(BuyerOf[j.op]) /\ j.op # op /\ j.op \in Ops
        BY <1>0, <1>11, <2>1, <2>2
      <4>2. age'[j.op] = age[j.op] /\ (j.op \in counted' <=> j.op \in counted)
        BY <1>9, <4>1
      <4> QED BY <4>1, <4>2 DEF Reach
    <3> QED BY <2>1, <2>3, <3>1, <3>2, <3>3, <3>4, <3>5, <3>6, ItemKeeps
  <2> QED BY <2>1, <2>4
<1>14. TablesOK'
  <2>1. \A x \in Ops : idem'[x] = "recorded" => posts'[x] > 0
    BY <1>5, <1>8 DEF IInv, TablesOK
  <2>2. \A x \in Spends : posts'[x] > 0 => x \in counted'
    BY <1>5, <1>9 DEF IInv, TablesOK, Spends
  <2>3. op \in SpendsOf(o)
    BY <1>1 DEF SpendsOf
  <2>4. ASSUME NEW p \in Orders
        PROVE  /\ idem'[p] # "null"
               /\ idem'[p] = "recorded" => PostsOf(RefundsOf(p))' > 0 /\ sale'[p] # {}
               /\ sale'[p] # {} => PostsOf(SpendsOf(p))' > 0
    <3>1. /\ idem[p] # "null"
          /\ idem[p] = "recorded" => PostsOf(RefundsOf(p)) > 0 /\ sale[p] # {}
          /\ sale[p] # {} => PostsOf(SpendsOf(p)) > 0
      BY DEF IInv, TablesOK
    <3>2. /\ PostsOf(RefundsOf(p))' = PostsOf(RefundsOf(p))
          /\ PostsOf(SpendsOf(p))' =
               PostsOf(SpendsOf(p)) + (IF op \in SpendsOf(p) THEN 1 ELSE 0)
          /\ PostsOf(SpendsOf(p)) \in Nat
      BY <1>7
    <3>3. idem'[p] = idem[p]
      BY <1>8
    <3>4. CASE p = o
      BY <1>4, <2>3, <3>1, <3>2, <3>3, <3>4
    <3>5. CASE p # o
      <4>1. sale'[p] = sale[p]
        BY <1>4, <3>5
      <4> QED BY <3>1, <3>2, <3>3, <4>1
    <3> QED BY <3>4, <3>5
  <2> QED BY <2>1, <2>2, <2>4 DEF TablesOK, Spends
<1>15. \A x \in Buyers : Total(PriceOf, Moved(x)') <= Limit
  <2> SUFFICES ASSUME NEW x \in Buyers, NEW S, S = Moved(x)' PROVE Total(PriceOf, S) <= Limit
    OBVIOUS
  <2>1. CASE x = b
    <3>0. Moved(b) \in SUBSET Ops /\ Total(PriceOf, Reach(call[c])) <= Limit
      BY <1>1, <1>10 DEF ItemOK, Moved, InWindow
    <3>1. Reach(call[c]) \in SUBSET Ops /\ S \in SUBSET Reach(call[c])
      BY <1>0, <1>1, <1>12, <2>1, <3>0 DEF Reach
    <3>2. /\ Total(PriceOf, S) <= Total(PriceOf, Reach(call[c]))
          /\ Total(PriceOf, S) \in Nat /\ Total(PriceOf, Reach(call[c])) \in Nat
      BY <3>1, PricesLess
    <3> QED BY <3>0, <3>2, PipelineAssumption
  <2>2. CASE x # b
    <3>1. Moved(x) \in SUBSET Ops /\ S \in SUBSET Moved(x)
          /\ Total(PriceOf, Moved(x)) <= Limit
      BY <1>10, <1>11, <2>2 DEF Moved, InWindow, IInv, VelocityHolds
    <3>2. /\ Total(PriceOf, S) <= Total(PriceOf, Moved(x))
          /\ Total(PriceOf, S) \in Nat /\ Total(PriceOf, Moved(x)) \in Nat
      BY <3>1, PricesLess
    <3> QED BY <3>1, <3>2, PipelineAssumption
  <2> QED BY <2>1, <2>2
<1>16. VelocityHolds'
  BY <1>15 DEF VelocityHolds, Moved
<1>17. faults' \in 0..MaxFaults /\ purges' \in 0..MaxPurges
  BY <1>2 DEF IInv, TypeOK
<1> QED BY <1>2, <1>3, <1>4, <1>5, <1>6, <1>8, <1>9, <1>13, <1>14, <1>16, <1>17, CallCommits

LEMMA RebumpStep ==
  ASSUME IInv, NEW c \in Calls, Rebump(c)
  PROVE  IInv'
<1>1. /\ call[c] \in Call /\ call[c] # Idle /\ call[c].op \in Ops
      /\ call[c].pc \in {"rejected", "denied", "fault"}
  BY BusyCall DEF Rebump
<1>2. /\ End(c) /\ AttemptFree(c)
      /\ UNCHANGED <<idem, sale, posts, funds, faults, purges>>
      /\ Counted(c) \/ UNCHANGED <<counted, age>>
  BY DEF Rebump
<1>3. told' \in [Ops -> SUBSET Answer] /\ AnswersAreTrue'
  <2>1. CASE UNCHANGED told
    BY <1>2, <2>1, ToldSame
  <2>2. CASE Tell(c, call[c].pc) /\ call[c].pc \in {"rejected", "denied"}
    BY <1>1, <1>2, <2>2, TellTrue DEF Answer
  <2> QED BY <1>1, <2>1, <2>2 DEF Rebump
<1>4. PICK op \in Ops : op = call[c].op
  BY <1>1
<1>5. counted \subseteq Ops /\ age \in [Ops -> 0..Window] /\ posts \in [Ops -> Nat]
  BY DEF IInv, TypeOK
<1>6. /\ counted' \subseteq Ops /\ age' \in [Ops -> 0..Window]
      /\ counted \subseteq counted' /\ counted' \subseteq counted \cup {op}
      /\ \A x \in Ops : x # op \/ x \in counted => age'[x] = age[x]
  <2>1. CASE Counted(c)
    BY <1>1, <1>4, <2>1, CountedFacts
  <2>2. CASE UNCHANGED <<counted, age>>
    BY <1>5, <2>2
  <2> QED BY <1>2, <2>1, <2>2
(* An attempt that is only now recorded is not on the books. *)
<1>7. \A b : Moved(b)' \subseteq Moved(b)
  <2> SUFFICES ASSUME NEW b, NEW y \in Moved(b)' PROVE y \in Moved(b)
    OBVIOUS
  <2>1. /\ y \in counted' /\ age'[y] < Window /\ Kind[y] = "spend" /\ BuyerOf[y] = b
        /\ posts[y] > 0 /\ y \in Ops
    BY <1>2, <1>6 DEF Moved, InWindow
  <2>2. y \in counted
    BY <2>1 DEF IInv, TablesOK, Spends
  <2>3. age[y] < Window
    BY <1>6, <2>1, <2>2
  <2> QED BY <2>1, <2>2, <2>3 DEF Moved, InWindow
<1>8. /\ \A o : /\ PostsOf(RefundsOf(o))' = PostsOf(RefundsOf(o))
                /\ PostsOf(SpendsOf(o))' = PostsOf(SpendsOf(o))
  BY <1>2 DEF PostsOf
<1>9. ASSUME NEW d \in Calls \ {c}, call[d] # Idle PROVE ItemOK(call[d])'
  <2>1. /\ call'[d] = call[d] /\ call[d] \in Call /\ ItemOK(call[d])
        /\ BuyerOf[call[d].op] \in Buyers /\ call[d].op \in Ops /\ call[d].pc # "idle"
    BY <1>2, <1>9, BusyCall, PipelineAssumption DEF End, IInv, TypeOK
  <2>2. call[d].subject => call[d].op # op
    BY <1>2, <1>4, <2>1 DEF AttemptFree, Others
  <2>3. \A j \in Call : j = call[d] => ItemOK(j)'
    <3> SUFFICES ASSUME NEW j \in Call, j = call[d] PROVE ItemOK(j)'
      OBVIOUS
    <3>1. j.subject => Reach(j)' \subseteq Reach(j)
      <4> SUFFICES ASSUME j.subject PROVE Reach(j)' \subseteq Reach(j)
        OBVIOUS
      <4>1. Moved(BuyerOf[j.op])' \subseteq Moved(BuyerOf[j.op]) /\ j.op # op /\ j.op \in Ops
        BY <1>7, <2>1, <2>2
      <4>2. age'[j.op] = age[j.op] /\ (j.op \in counted' <=> j.op \in counted)
        BY <1>6, <4>1
      <4> QED BY <4>1, <4>2 DEF Reach
    <3>2. funds'[BuyerOf[j.op]] \in Nat /\ funds'[BuyerOf[j.op]] >= funds[BuyerOf[j.op]]
      BY <1>2, <2>1 DEF IInv, TypeOK
    <3>3. PostsOf(RefundsOf(OrderOf[j.op])) > 0 => PostsOf(RefundsOf(OrderOf[j.op]))' > 0
      BY <1>8
    <3> QED BY <1>2, <2>1, <3>1, <3>2, <3>3, ItemKeeps
  <2> QED BY <2>1, <2>3
<1>10. TablesOK'
  BY <1>2, <1>6, <1>8 DEF IInv, TablesOK
<1>11. \A x \in Buyers : Total(PriceOf, Moved(x)') <= Limit
  <2> SUFFICES ASSUME NEW x \in Buyers, NEW S, S = Moved(x)' PROVE Total(PriceOf, S) <= Limit
    OBVIOUS
  <2>1. Moved(x) \in SUBSET Ops /\ S \in SUBSET Moved(x) /\ Total(PriceOf, Moved(x)) <= Limit
    BY <1>5, <1>7 DEF Moved, InWindow, IInv, VelocityHolds
  <2>2. /\ Total(PriceOf, S) <= Total(PriceOf, Moved(x))
        /\ Total(PriceOf, S) \in Nat /\ Total(PriceOf, Moved(x)) \in Nat
    BY <2>1, PricesLess
  <2> QED BY <2>1, <2>2, PipelineAssumption
<1>12. VelocityHolds'
  BY <1>11 DEF VelocityHolds, Moved
<1> QED BY <1>2, <1>3, <1>6, <1>9, <1>10, <1>12, CallCommits DEF IInv, TypeOK

LEMMA PurgeStep ==
  ASSUME IInv, NEW k \in Keys, PurgeKey(k)
  PROVE  IInv'
<1>1. /\ UNCHANGED <<sale, posts, funds, counted, age, call, told, faults>>
      /\ idem' \in [Keys -> Row] /\ purges' \in 0..MaxPurges
      /\ \A x \in Keys : idem'[x] = idem[x] \/ idem'[x] = "free"
  BY PipelineAssumption DEF PurgeKey, IInv, TypeOK, Row
<1>2. TypeOK'
  BY <1>1 DEF IInv, TypeOK
<1>3. /\ \A o : /\ PostsOf(RefundsOf(o))' = PostsOf(RefundsOf(o))
                /\ PostsOf(SpendsOf(o))' = PostsOf(SpendsOf(o))
      /\ \A b : InWindow(b)' = InWindow(b)
  BY <1>1 DEF PostsOf, InWindow
<1>4. \A i : Reach(i)' = Reach(i)
  BY <1>1, <1>3 DEF Reach, Moved
<1>5. TablesOK'
  BY <1>1, <1>3 DEF IInv, TablesOK, Keys
<1>6. AnswersAreTrue' /\ VelocityHolds' /\ CallsApart'
  BY <1>1, <1>3 DEF IInv, AnswersAreTrue, VelocityHolds, CallsApart, Apart
<1>7. ASSUME NEW d \in Calls, call[d] # Idle PROVE ItemOK(call[d])'
  <2>1. /\ call[d] \in Call /\ ItemOK(call[d])
        /\ OrderOf[call[d].op] \in Keys /\ BuyerOf[call[d].op] \in Buyers
    BY <1>7, BusyCall, PipelineAssumption DEF Keys
  <2>2. \A j \in Call : j = call[d] => ItemOK(j)'
    <3> SUFFICES ASSUME NEW j \in Call, j = call[d] PROVE ItemOK(j)'
      OBVIOUS
    <3>1. idem[OrderOf[j.op]] = "free" => idem'[OrderOf[j.op]] = "free"
      BY <1>1, <2>1
    <3>2. funds'[BuyerOf[j.op]] \in Nat /\ funds'[BuyerOf[j.op]] >= funds[BuyerOf[j.op]]
      BY <1>1, <2>1 DEF IInv, TypeOK
    <3>3. PostsOf(RefundsOf(OrderOf[j.op])) > 0 => PostsOf(RefundsOf(OrderOf[j.op]))' > 0
      BY <1>3
    <3> QED BY <1>1, <1>4, <2>1, <3>1, <3>2, <3>3, ItemKeeps
  <2> QED BY <1>1, <2>1, <2>2
<1>8. CallsOK'
  BY <1>1, <1>7 DEF CallsOK
<1> QED BY <1>2, <1>5, <1>6, <1>8 DEF IInv

LEMMA TickStep ==
  ASSUME IInv, Tick
  PROVE  IInv'
<1>1. /\ UNCHANGED <<idem, sale, posts, funds, counted, told, faults, purges>>
      /\ age' = [op \in Ops |-> IF op \in counted THEN Older(age[op]) ELSE age[op]]
      /\ call' = [c \in Calls |->
           IF call[c].pc = "idle" THEN call[c]
           ELSE [call[c] EXCEPT !.age = IF call[c].staged THEN Older(call[c].age)
                                        ELSE call[c].age]]
  BY DEF Tick
<1>2. \A x \in 0..Window : Older(x) \in 0..Window /\ Older(x) >= x
  BY PipelineAssumption DEF Older
<1>3. /\ age \in [Ops -> 0..Window] /\ age' \in [Ops -> 0..Window] /\ Window \in Nat
      /\ \A op \in Ops : age'[op] >= age[op]
  BY <1>1, <1>2, PipelineAssumption DEF IInv, TypeOK
<1>4. \A c \in Calls :
        \/ call[c] = Idle /\ call'[c] = Idle
        \/ /\ call[c] # Idle /\ call'[c] # Idle /\ call'[c] \in Call
           /\ call'[c].pc = call[c].pc /\ call'[c].op = call[c].op
           /\ call'[c].sold = call[c].sold /\ call'[c].keys = call[c].keys
           /\ call'[c].subject = call[c].subject /\ call'[c].held = call[c].held
  <2> SUFFICES ASSUME NEW c \in Calls, call[c] # Idle
               PROVE  /\ call'[c] # Idle /\ call'[c] \in Call
                      /\ call'[c].pc = call[c].pc /\ call'[c].op = call[c].op
                      /\ call'[c].sold = call[c].sold /\ call'[c].keys = call[c].keys
                      /\ call'[c].subject = call[c].subject /\ call'[c].held = call[c].held
    BY <1>1 DEF Idle
  <2>1. call[c] \in Call /\ call[c].pc # "idle"
    BY BusyCall
  <2>2. PICK a \in 0..Window : call'[c] = [call[c] EXCEPT !.age = a]
    BY <1>1, <1>2, <2>1 DEF Call
  <2> QED BY <2>1, <2>2 DEF Call, Idle
<1>5. TypeOK'
  <2>1. call' \in [Calls -> {Idle} \cup Call]
    BY <1>1, <1>4
  <2> QED BY <1>1, <1>3, <2>1 DEF IInv, TypeOK
<1>6. CallsApart'
  BY <1>4 DEF IInv, CallsApart, Apart
<1>7. /\ \A o : /\ PostsOf(RefundsOf(o))' = PostsOf(RefundsOf(o))
                /\ PostsOf(SpendsOf(o))' = PostsOf(SpendsOf(o))
  BY <1>1 DEF PostsOf
<1>8. TablesOK' /\ AnswersAreTrue'
  BY <1>1, <1>7 DEF IInv, TablesOK, AnswersAreTrue
<1>9. \A b : Moved(b)' \subseteq Moved(b)
  <2> SUFFICES ASSUME NEW b, NEW y \in Moved(b)' PROVE y \in Moved(b)
    OBVIOUS
  <2>1. /\ y \in counted /\ age'[y] < Window /\ Kind[y] = "spend" /\ BuyerOf[y] = b
        /\ posts[y] > 0 /\ y \in Ops
    BY <1>1 DEF Moved, InWindow, IInv, TypeOK
  <2>2. age[y] < Window
    BY <1>3, <2>1
  <2> QED BY <2>1, <2>2 DEF Moved, InWindow
<1>10. \A i \in Call : Reach(i)' \subseteq Reach(i)
  <2> SUFFICES ASSUME NEW i \in Call PROVE Reach(i)' \subseteq Reach(i)
    OBVIOUS
  <2>1. i.op \in Ops
    BY DEF Call
  <2>2. i.op \in counted /\ age[i.op] >= Window => i.op \in counted' /\ age'[i.op] >= Window
    BY <1>1, <1>3, <2>1
  <2> QED BY <1>9, <2>2 DEF Reach
<1>11. ASSUME NEW d \in Calls, call'[d] # Idle PROVE ItemOK(call[d])'
  <2>1. /\ call[d] # Idle /\ call'[d] \in Call
        /\ call'[d].pc = call[d].pc /\ call'[d].op = call[d].op
        /\ call'[d].sold = call[d].sold /\ call'[d].keys = call[d].keys
        /\ call'[d].subject = call[d].subject /\ call'[d].held = call[d].held
    BY <1>4, <1>11
  <2>2. ItemOK(call[d]) /\ BuyerOf[call[d].op] \in Buyers
    BY <2>1, BusyCall, PipelineAssumption
  <2>3. \A j \in Call : j = call'[d] => ItemOK(j)'
    <3> SUFFICES ASSUME NEW j \in Call, j = call'[d] PROVE ItemOK(j)'
      OBVIOUS
    <3>1. Reach(j) = Reach(call[d])
      BY <2>1 DEF Reach
    <3>2. ItemOK(j)
      BY <2>1, <2>2, <3>1 DEF ItemOK, Clean
    <3>3. funds'[BuyerOf[j.op]] \in Nat /\ funds'[BuyerOf[j.op]] >= funds[BuyerOf[j.op]]
      BY <1>1, <2>1, <2>2 DEF IInv, TypeOK
    <3>4. PostsOf(RefundsOf(OrderOf[j.op])) > 0 => PostsOf(RefundsOf(OrderOf[j.op]))' > 0
      BY <1>7
    <3> QED BY <1>1, <1>10, <3>2, <3>3, <3>4, ItemKeeps
  <2> QED BY <2>1, <2>3
<1>12. CallsOK'
  BY <1>11 DEF CallsOK
<1>13. \A x \in Buyers : Total(PriceOf, Moved(x)') <= Limit
  <2> SUFFICES ASSUME NEW x \in Buyers, NEW S, S = Moved(x)' PROVE Total(PriceOf, S) <= Limit
    OBVIOUS
  <2>1. Moved(x) \in SUBSET Ops /\ S \in SUBSET Moved(x) /\ Total(PriceOf, Moved(x)) <= Limit
    BY <1>9 DEF Moved, InWindow, IInv, TypeOK, VelocityHolds
  <2>2. /\ Total(PriceOf, S) <= Total(PriceOf, Moved(x))
        /\ Total(PriceOf, S) \in Nat /\ Total(PriceOf, Moved(x)) \in Nat
    BY <2>1, PricesLess
  <2> QED BY <2>1, <2>2, PipelineAssumption
<1>14. VelocityHolds'
  BY <1>13 DEF VelocityHolds, Moved
<1> QED BY <1>5, <1>6, <1>8, <1>12, <1>14 DEF IInv

-----------------------------------------------------------------------------
(* Before the first call nothing is claimed, posted, counted or answered. *)
LEMMA InitIInv == Init => IInv
<1> SUFFICES ASSUME Init PROVE IInv OBVIOUS
<1>1. TypeOK
  BY PipelineAssumption DEF Init, TypeOK, Row
<1>2. CallsOK /\ CallsApart
  BY DEF Init, CallsOK, CallsApart
<1>3. TablesOK
  BY DEF Init, TablesOK, Keys, Spends
<1>4. AnswersAreTrue
  BY DEF Init, AnswersAreTrue
<1>5. \A b : {op \in InWindow(b) : posts[op] > 0} = {}
  BY DEF Init, InWindow
<1>6. VelocityHolds
  BY <1>5, TotalEmpty, PipelineAssumption DEF VelocityHolds
<1> QED BY <1>1, <1>2, <1>3, <1>4, <1>6 DEF IInv

LEMMA NextIInv == IInv /\ [Next]_vars => IInv'
<1> SUFFICES ASSUME IInv, [Next]_vars PROVE IInv'
  OBVIOUS
<1>1. CASE UNCHANGED vars
  <2>1. \A o : /\ PostsOf(RefundsOf(o))' = PostsOf(RefundsOf(o))
               /\ PostsOf(SpendsOf(o))' = PostsOf(SpendsOf(o))
    BY <1>1 DEF vars, PostsOf
  <2>2. UNCHANGED Tables /\ faults' = faults /\ purges' = purges /\ call' = call /\ told' = told
    BY <1>1 DEF vars, Tables
  <2>3. TypeOK'
    BY <2>2 DEF IInv, TypeOK, Tables
  <2>4. CallsOK' /\ CallsApart'
    BY <2>2, TablesSame DEF IInv, CallsOK, CallsApart
  <2>5. AnswersAreTrue'
    BY <2>2, ToldSame DEF Tables
  <2> QED BY <2>2, <2>3, <2>4, <2>5, TablesSame DEF IInv
<1>2. ASSUME NEW c \in Calls, Step(c) PROVE IInv'
  BY <1>2, ClaimKeyStep, PreClaimStep, ScreenRiskStep, LockNextStep, HandleSpendStep,
     HandleRefundStep, ClaimReversalStep, CommitSpendStep, CommitRefundStep,
     CommitDuplicateStep, RebumpStep DEF Step
<1> QED BY <1>1, <1>2, BeginStep, FailureStep, PurgeStep, TickStep DEF Next

(* Every reachable state satisfies the invariant. *)
THEOREM Invariance == Spec => []IInv
<1> QED BY InitIInv, NextIInv, PTL DEF Spec

(* Every variable keeps its type; no buyer's balance becomes negative, for    *)
(* the balance screened under the subject lock is the one posted against.     *)
THEOREM TypeCorrect == Spec => []TypeOK
<1>1. IInv => TypeOK
  BY DEF IInv
<1> QED BY <1>1, Invariance, PTL

(* What a caller was told is on the books. *)
THEOREM AnswersTrue == Spec => []AnswersAreTrue
<1>1. IInv => AnswersAreTrue
  BY DEF IInv
<1> QED BY <1>1, Invariance, PTL

(* What a buyer moved under attempts in the window stays within the limit. *)
THEOREM VelocityKept == Spec => []VelocityHolds
<1>1. IInv => VelocityHolds
  BY DEF IInv
<1> QED BY <1>1, Invariance, PTL

-----------------------------------------------------------------------------
(* One charge and one reversal per order *)

(* Apart from the two commits and the retention sweep, a step posts nothing,  *)
(* writes no sale and marks no order.                                         *)
Quiet ==
  /\ posts' = posts /\ sale' = sale
  /\ \A o \in Orders : idem'[o] = idem[o]

(* A spend that now stands before its commit stood there already, or found    *)
(* its order unsold under its locks.                                          *)
Ready(c) == call[c] # Idle /\ call[c].pc = "commit" /\ call[c].op \in Spends
ReadyStep ==
  \A c \in Calls :
    Ready(c)' => /\ call'[c].op = call[c].op
                 /\ Ready(c) \/ sale[OrderOf[call[c].op]] = {}

LEMMA ReadyOthers ==
  ASSUME NEW c \in Calls, TypeOK, NEW new,
         call' = [call EXCEPT ![c] = new],
         new # Idle /\ new.pc = "commit" /\ new.op \in Spends =>
           /\ new.op = call[c].op
           /\ Ready(c) \/ sale[OrderOf[call[c].op]] = {}
  PROVE  ReadyStep
<1>1. /\ call'[c] = new
      /\ \A d \in Calls : d # c => call'[d] = call[d]
  BY DEF TypeOK
<1> QED BY <1>1 DEF ReadyStep, Ready

(* No step but the spend handler's takes a spend to its commit. *)
LEMMA NotReady ==
  ASSUME TypeOK, NEW c \in Calls, NEW new, call' = [call EXCEPT ![c] = new],
         new.pc # "commit" \/ new.op \notin Spends
  PROVE  ReadyStep
  BY ReadyOthers

LEMMA EndNotReady ==
  ASSUME TypeOK, NEW c \in Calls, End(c)
  PROVE  ReadyStep
  BY NotReady DEF End, Idle

LEMMA RollbackNotReady ==
  ASSUME TypeOK, NEW c \in Calls, NEW pc, pc # "commit", NEW i \in Call,
         call' = [call EXCEPT ![c] = RolledBack(i, pc)]
  PROVE  ReadyStep
<1>1. RolledBack(i, pc).pc = pc
  BY DEF RolledBack, Call
<1> QED BY <1>1, NotReady

LEMMA StepReady ==
  ASSUME IInv, NEW c \in Calls, Step(c)
  PROVE  ReadyStep
<1>1. TypeOK
  BY DEF IInv
<1>2. /\ call[c].pc # "idle" /\ call[c] \in Call
  BY BusyCall DEF Step, ClaimKey, PreClaim, ScreenRisk, LockNext, HandleSpend,
     HandleRefund, ClaimReversal, CommitSpend, CommitRefund, CommitDuplicate, Rebump
<1>3. CASE End(c)
  BY <1>1, <1>3, EndNotReady
<1>4. CASE Reject(c)
  BY <1>1, <1>2, <1>4, EndNotReady, RollbackNotReady DEF Reject, Rollback
<1>5. CASE ClaimKey(c) /\ ~End(c)
  <2> DEFINE next == IF Kind[call[c].op] = "spend" THEN "preClaim" ELSE "lock"
             new == [call[c] EXCEPT !.pc = next,
                                    !.keys = IF idem[call[c].op] = "free" THEN {call[c].op} ELSE {}]
  <2>1. call' = [call EXCEPT ![c] = new]
    BY <1>5 DEF ClaimKey
  <2>2. new.pc # "commit"
    BY <1>2 DEF Call
  <2> QED BY <1>1, <2>1, <2>2, NotReady
<1>6. CASE PreClaim(c) /\ ~Reject(c)
  <2>1. call' = [call EXCEPT ![c] = [call[c] EXCEPT !.pc = "risk"]]
    BY <1>6 DEF PreClaim, Goto
  <2>2. [call[c] EXCEPT !.pc = "risk"].pc # "commit"
    BY <1>2 DEF Call
  <2> QED BY <1>1, <2>1, <2>2, NotReady
<1>7. CASE ScreenRisk(c)
  <2> DEFINE staged == [call[c] EXCEPT !.staged = TRUE, !.age = 0, !.subject = TRUE]
  <2>1. staged \in Call
    <3>1. 0 \in 0..Window
      BY PipelineAssumption
    <3> QED BY <1>2, <3>1 DEF Call
  <2>2. CASE call' = [call EXCEPT ![c] = RolledBack(staged, "denied")]
    <3> HIDE DEF staged
    <3> QED BY <1>1, <2>1, <2>2, RollbackNotReady
  <2>3. CASE call' = [call EXCEPT ![c] = [staged EXCEPT !.pc = "lock"]]
    <3>1. [staged EXCEPT !.pc = "lock"].pc # "commit"
      BY <2>1 DEF Call
    <3> HIDE DEF staged
    <3> QED BY <1>1, <2>3, <3>1, NotReady
  <2> QED BY <1>7, <2>2, <2>3 DEF ScreenRisk
<1>8. CASE LockNext(c)
  <2>1. PICK held, pc : /\ pc # "commit"
                        /\ call' = [call EXCEPT ![c] = [call[c] EXCEPT !.held = held, !.pc = pc]]
    BY <1>8 DEF LockNext, Take
  <2>2. [call[c] EXCEPT !.held = held, !.pc = pc].pc = pc
    BY <1>2 DEF Call
  <2> QED BY <1>1, <2>1, <2>2, NotReady
<1>9. CASE HandleSpend(c) /\ ~Reject(c)
  <2>1. /\ call' = [call EXCEPT ![c] = [call[c] EXCEPT !.pc = "commit"]]
        /\ sale[OrderOf[call[c].op]] = {}
    BY <1>9 DEF HandleSpend, Goto
  <2>2. [call[c] EXCEPT !.pc = "commit"].op = call[c].op
    BY <1>2 DEF Call
  <2> QED BY <1>1, <2>1, <2>2, ReadyOthers
<1>10. CASE HandleRefund(c) /\ ~Reject(c)
  <2> DEFINE sold == sale[OrderOf[call[c].op]]
             pc == IF UNION {LockSet[s] : s \in sold} \subseteq call[c].held
                   THEN "undoKey" ELSE "extend"
             new == [call[c] EXCEPT !.sold = sold, !.pc = pc]
  <2>1. call' = [call EXCEPT ![c] = new]
    BY <1>10 DEF HandleRefund
  <2>2. pc # "commit"
    OBVIOUS
  <2> HIDE DEF pc
  <2>3. new.pc # "commit"
    BY <1>2, <2>2 DEF Call
  <2> HIDE DEF new
  <2> QED BY <1>1, <2>1, <2>3, NotReady
<1>11. CASE ClaimReversal(c)
  <2>1. PICK keys, pc : call' = [call EXCEPT ![c] = [call[c] EXCEPT !.pc = pc, !.keys = keys]]
    BY <1>11 DEF ClaimReversal
  <2>2. [call[c] EXCEPT !.pc = pc, !.keys = keys].op = call[c].op
    BY <1>2 DEF Call
  <2>3. call[c].op \notin Spends
    BY <1>11, BusyCall DEF ClaimReversal, ItemOK
  <2> QED BY <1>1, <2>1, <2>2, <2>3, NotReady
<1> QED BY <1>3, <1>4, <1>5, <1>6, <1>7, <1>8, <1>9, <1>10, <1>11
        DEF Step, CommitSpend, CommitRefund, CommitDuplicate, Rebump

LEMMA NextReady ==
  ASSUME IInv, [Next]_vars
  PROVE  ReadyStep
<1>1. TypeOK
  BY DEF IInv
<1>2. ASSUME NEW c \in Calls, Conflict(c) \/ Fault(c) \/ Crash(c) PROVE ReadyStep
  <2>1. call[c] \in Call
    BY <1>2, BusyCall DEF Conflict, Fault, Crash, InTransaction
  <2> QED BY <1>1, <1>2, <2>1, EndNotReady, RollbackNotReady DEF Conflict, Fault, Crash, Rollback
<1>3. ASSUME NEW c \in Calls, NEW op \in Ops, Begin(c, op) PROVE ReadyStep
  BY <1>1, <1>3, NotReady DEF Begin
<1>4. CASE call' = call
  BY <1>4 DEF ReadyStep, Ready
<1>5. CASE Tick
  <2> SUFFICES ASSUME NEW c \in Calls, Ready(c)'
               PROVE  call'[c].op = call[c].op /\ Ready(c)
    BY DEF ReadyStep
  <2>1. CASE call[c].pc = "idle"
    BY <1>5, <2>1 DEF Tick, Ready
  <2>2. CASE call[c].pc # "idle"
    <3>1. call[c] \in Call /\ call[c] # Idle
      BY <2>2, BusyCall
    <3>2. PICK a : call'[c] = [call[c] EXCEPT !.age = a]
      BY <1>5, <2>2 DEF Tick
    <3>3. call'[c].op = call[c].op /\ call'[c].pc = call[c].pc
      BY <3>1, <3>2 DEF Call
    <3> QED BY <3>1, <3>3 DEF Ready
  <2> QED BY <2>1, <2>2
<1> QED BY <1>2, <1>3, <1>4, <1>5, StepReady DEF Next, PurgeKey, vars

LEMMA NextQuiet ==
  ASSUME IInv, [Next]_vars
  PROVE  \/ Quiet
         \/ \E c \in Calls : CommitSpend(c) \/ CommitRefund(c)
         \/ \E k \in Keys : PurgeKey(k)
<1>1. ASSUME NEW c \in Calls, CommitDuplicate(c) PROVE Quiet
  <2>1. call[c].op \in Ops
    BY <1>1, BusyCall DEF CommitDuplicate
  <2> QED BY <1>1, <2>1, PipelineAssumption DEF CommitDuplicate, Quiet, IInv, TypeOK, Keys
<1>2. ASSUME NEW c \in Calls, Step(c), ~CommitDuplicate(c), ~CommitSpend(c), ~CommitRefund(c)
      PROVE  Quiet
  BY <1>2 DEF Quiet, Step, ClaimKey, PreClaim, ScreenRisk, LockNext, HandleSpend,
              HandleRefund, ClaimReversal, Rebump
<1>3. ASSUME NEW c \in Calls,
             Conflict(c) \/ Fault(c) \/ Crash(c) \/ \E op \in Ops : Begin(c, op)
      PROVE  Quiet
  BY <1>3 DEF Quiet, Conflict, Fault, Crash, Begin
<1>4. CASE Tick \/ UNCHANGED vars
  BY <1>4 DEF Quiet, Tick, vars
<1> QED BY <1>1, <1>2, <1>3, <1>4 DEF Next

(* The commit of a spend or refund posts it once, and marks its order. *)
LEMMA CommitPosts ==
  ASSUME IInv, NEW c \in Calls, CommitSpend(c) \/ CommitRefund(c)
  PROVE  /\ call[c].op \in Ops /\ OrderOf[call[c].op] \in Orders /\ ItemOK(call[c])
         /\ call[c] # Idle /\ call[c].pc = "commit"
         /\ \A y \in Ops : posts'[y] = IF y = call[c].op THEN posts[y] + 1 ELSE posts[y]
<1>1. /\ call[c].op \in Ops /\ OrderOf[call[c].op] \in Orders /\ ItemOK(call[c])
      /\ call[c] # Idle /\ call[c].pc = "commit"
  BY BusyCall DEF CommitSpend, CommitRefund
<1>2. posts' = [posts EXCEPT ![call[c].op] = posts[call[c].op] + 1]
  BY DEF CommitSpend, CommitRefund
<1>3. posts \in [Ops -> Nat]
  BY DEF IInv, TypeOK
<1> QED BY <1>1, <1>2, <1>3

(* While no key is deleted, the reversal key of an order counts its refunds: *)
(* only the holder of its placeholder refunds the order.                     *)
LEMMA ReversalStep ==
  ASSUME IInv, OneReversal, [Next]_vars, MaxPurges = 0
  PROVE  OneReversal'
<1> SUFFICES ASSUME NEW o \in Orders
             PROVE  PostsOf(RefundsOf(o))' = IF idem'[o] = "recorded" THEN 1 ELSE 0
  BY DEF OneReversal
<1>1. PostsOf(RefundsOf(o)) = IF idem[o] = "recorded" THEN 1 ELSE 0
  BY DEF OneReversal
<1>2. CASE Quiet
  <2>1. PostsOf(RefundsOf(o))' = PostsOf(RefundsOf(o))
    BY <1>2 DEF Quiet, PostsOf
  <2> QED BY <1>1, <1>2, <2>1 DEF Quiet
<1>3. ASSUME NEW k \in Keys, PurgeKey(k) PROVE FALSE
  BY <1>3 DEF PurgeKey, IInv, TypeOK
<1>4. ASSUME NEW c \in Calls, CommitSpend(c)
      PROVE  PostsOf(RefundsOf(o))' = IF idem'[o] = "recorded" THEN 1 ELSE 0
  <2>1. call[c].op \in Ops /\ call[c].op \notin RefundsOf(o)
    BY <1>4, CommitPosts DEF CommitSpend, RefundsOf, Spends
  <2>2. PostsOf(RefundsOf(o))' = PostsOf(RefundsOf(o))
    BY <1>4, <2>1, CommitPosts, OrderSums
  <2>3. idem'[o] = idem[o]
    BY <1>4, <2>1, PipelineAssumption DEF CommitSpend, IInv, TypeOK, Keys
  <2> QED BY <1>1, <2>2, <2>3
<1>5. ASSUME NEW c \in Calls, CommitRefund(c)
      PROVE  PostsOf(RefundsOf(o))' = IF idem'[o] = "recorded" THEN 1 ELSE 0
  <2>1. /\ call[c].op \in Ops /\ call[c].op \notin Spends /\ OrderOf[call[c].op] \in Orders
        /\ idem[OrderOf[call[c].op]] = "free"
    BY <1>5, CommitPosts DEF CommitRefund, Spends, ItemOK
  <2>2. PostsOf(RefundsOf(o))' =
          PostsOf(RefundsOf(o)) + (IF call[c].op \in RefundsOf(o) THEN 1 ELSE 0)
    BY <1>5, <2>1, CommitPosts, OrderSums
  <2>3. idem'[o] = IF o = OrderOf[call[c].op] THEN "recorded" ELSE idem[o]
    BY <1>5, <2>1, PipelineAssumption DEF CommitRefund, IInv, TypeOK, Keys
  <2>4. call[c].op \in RefundsOf(o) <=> o = OrderOf[call[c].op]
    BY <2>1 DEF RefundsOf
  <2> QED BY <1>1, <2>1, <2>2, <2>3, <2>4
<1> QED BY <1>2, <1>3, <1>4, <1>5, NextQuiet

(* Where the spends of one order meet on a lock, only one is at its commit,   *)
(* and it is the order's first.                                               *)
LEMMA SaleStep ==
  ASSUME IInv, OneSale, [Next]_vars, MeetOnALock
  PROVE  OneSale'
<1>1. \A o \in Orders : PostsOf(SpendsOf(o)) = IF sale[o] = {} THEN 0 ELSE 1
  BY DEF OneSale
<1>2. \A c \in Calls : Ready(c) => sale[OrderOf[call[c].op]] = {}
  BY DEF OneSale, Ready
<1>3. \A c \in Calls : Ready(c)' =>
        call'[c].op = call[c].op /\ sale[OrderOf[call'[c].op]] = {}
  BY <1>2, NextReady DEF ReadyStep
<1>4. ASSUME sale' = sale, \A o \in Orders : PostsOf(SpendsOf(o))' = PostsOf(SpendsOf(o))
      PROVE  OneSale'
  BY <1>1, <1>3, <1>4 DEF OneSale, Ready
<1>5. CASE Quiet
  <2>1. \A o \in Orders : PostsOf(SpendsOf(o))' = PostsOf(SpendsOf(o))
    BY <1>5 DEF Quiet, PostsOf
  <2> QED BY <1>4, <1>5, <2>1 DEF Quiet
<1>6. ASSUME NEW k \in Keys, PurgeKey(k) PROVE OneSale'
  <2>1. \A o \in Orders : PostsOf(SpendsOf(o))' = PostsOf(SpendsOf(o))
    BY <1>6 DEF PurgeKey, PostsOf
  <2> QED BY <1>4, <1>6, <2>1 DEF PurgeKey
<1>7. ASSUME NEW c \in Calls, CommitRefund(c) PROVE OneSale'
  <2>1. \A o : call[c].op \notin SpendsOf(o)
    BY <1>7 DEF CommitRefund, SpendsOf, Spends
  <2>2. \A o \in Orders : PostsOf(SpendsOf(o))' = PostsOf(SpendsOf(o))
    BY <1>7, <2>1, CommitPosts, OrderSums
  <2> QED BY <1>4, <1>7, <2>2 DEF CommitRefund
<1>8. ASSUME NEW c \in Calls, CommitSpend(c) PROVE OneSale'
  <2>1. /\ call[c].op \in Spends /\ OrderOf[call[c].op] \in Orders /\ ItemOK(call[c])
        /\ call[c] # Idle /\ call[c].pc = "commit" /\ call[c].op \in Ops
    BY <1>8, CommitPosts DEF CommitSpend, Spends
  <2>2. sale[OrderOf[call[c].op]] = {}
    BY <1>2, <2>1 DEF Ready
  <2>3. \A o \in Orders : sale'[o] = IF o = OrderOf[call[c].op] THEN {call[c].op} ELSE sale[o]
    BY <1>8, <2>1 DEF CommitSpend, IInv, TypeOK
  <2>4. \A o : call[c].op \in SpendsOf(o) <=> o = OrderOf[call[c].op]
    BY <2>1 DEF SpendsOf
  <2>5. \A o \in Orders : PostsOf(SpendsOf(o))' =
          PostsOf(SpendsOf(o)) + (IF call[c].op \in SpendsOf(o) THEN 1 ELSE 0)
    BY <1>8, <2>1, CommitPosts, OrderSums
  <2>6. \A o \in Orders : PostsOf(SpendsOf(o))' = IF sale'[o] = {} THEN 0 ELSE 1
    BY <1>1, <2>2, <2>3, <2>4, <2>5
  <2>7. ASSUME NEW d \in Calls, Ready(d)' PROVE sale'[OrderOf[call'[d].op]] = {}
    <3>1. d # c /\ call'[d] = call[d] /\ Ready(d)
      BY <1>8, <2>7 DEF CommitSpend, End, Ready, Idle, IInv, TypeOK
    <3>2. /\ call[d].op \in Ops /\ call[d].op \in Spends /\ ItemOK(call[d])
          /\ call[d] # Idle /\ call[d].pc = "commit" /\ OrderOf[call[d].op] \in Orders
      BY <3>1, BusyCall DEF Ready
    <3>3. LockSet[call[c].op] \subseteq call[c].held /\ LockSet[call[d].op] \subseteq call[d].held
      BY <2>1, <3>2 DEF ItemOK
    <3>4. call[c].held \cap call[d].held = {}
      BY <2>1, <3>1, <3>2 DEF IInv, CallsApart, Apart
    <3>5. OrderOf[call[d].op] # OrderOf[call[c].op]
      BY <2>1, <3>2, <3>3, <3>4 DEF MeetOnALock
    <3> QED BY <1>2, <2>3, <3>1, <3>2, <3>5
  <2> QED BY <2>6, <2>7 DEF OneSale, Ready
<1> QED BY <1>5, <1>6, <1>7, <1>8, NextQuiet

LEMMA InitOnce == Init => OneReversal /\ OneSale
<1> SUFFICES ASSUME Init PROVE OneReversal /\ OneSale OBVIOUS
<1>1. \A S \in SUBSET Ops : PostsOf(S) = 0
  <2> SUFFICES ASSUME NEW S \in SUBSET Ops PROVE PostsOf(S) = 0
    OBVIOUS
  <2>1. IsFiniteSet(S) /\ \A op \in S : posts[op] = 0
    BY FinitelyManyOps, PartFinite DEF Init
  <2> QED BY <2>1, TotalZero DEF PostsOf
<1> QED BY <1>1, OrderSets DEF Init, OneReversal, OneSale, Keys, Idle

(* An order is undone at most once and only after it was charged, as long as  *)
(* the retention sweep has not deleted its reversal key.                      *)
THEOREM UndoneAtMostOnce ==
  ASSUME MaxPurges = 0
  PROVE  Spec => []UndoneOnce
<1>1. IInv /\ OneReversal /\ [Next]_vars => OneReversal'
  BY ReversalStep
<1>2. IInv /\ OneReversal => UndoneOnce
  <2> SUFFICES ASSUME IInv, OneReversal, NEW o \in Orders
               PROVE  PostsOf(RefundsOf(o)) <= PostsOf(SpendsOf(o))
    BY DEF UndoneOnce
  <2>1. PostsOf(RefundsOf(o)) = IF idem[o] = "recorded" THEN 1 ELSE 0
    BY DEF OneReversal
  <2>2. PostsOf(SpendsOf(o)) \in Nat
    BY OrderSets, PostsType DEF IInv
  <2>3. idem[o] = "recorded" => PostsOf(SpendsOf(o)) > 0
    BY DEF IInv, TablesOK
  <2> QED BY <2>1, <2>2, <2>3
<1> QED BY <1>1, <1>2, InitOnce, Invariance, PTL DEF Spec

(* An order is charged at most once, whatever keys, buyers, retries and       *)
(* deleted keys name it, when the spends of an order meet on a lock: one      *)
(* buyer's wallet, or the one platform account of an unsharded deployment.    *)
THEOREM ChargedAtMostOnce ==
  ASSUME MeetOnALock
  PROVE  Spec => []ChargedOnce
<1>1. IInv /\ OneSale /\ [Next]_vars => OneSale'
  BY SaleStep
<1>2. OneSale => ChargedOnce
  BY DEF OneSale, ChargedOnce
<1> QED BY <1>1, <1>2, InitOnce, Invariance, PTL DEF Spec
=============================================================================
