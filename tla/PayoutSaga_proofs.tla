------------------------- MODULE PayoutSaga_proofs -------------------------
(***************************************************************************)
(* Proofs about PayoutSaga, for any number of payouts, sellers, overlapping *)
(* sweeps and concurrent callers, and any configuration.                    *)
(***************************************************************************)
EXTENDS PayoutSaga, Sums_proofs, TLAPS

-----------------------------------------------------------------------------
(* The inductive invariant *)

(* What a row alone keeps: an id not opened is unknown to the rail, a         *)
(* RESERVED row has attempts left, and updatedAt is never older than the      *)
(* entry into SUBMITTED.                                                      *)
RowsOK ==
  \A s \in Sagas :
    /\ row[s].state = "NONE" => rail[s].state = "none"
    /\ row[s].state = "RESERVED" => row[s].attempts < MaxPayoutAttempts
    /\ row[s].state = "SUBMITTED" => row[s].age <= sinceSubmit[s]

(* The reason to fail a SUBMITTED payout still stands, or the payout is gone. *)
Forsaken(s) ==
  \/ row[s].state # "SUBMITTED"
  \/ rail[s].state \in {"failed", "returned"}
  \/ sinceSubmit[s] > MaxPayoutAge

(* What a worker may rely on, however stale its copy is. *)
ItemOK(item) ==
    LET s == item.id
        saga == item.saga
        pc == item.pc
    IN /\ row[s].state # "NONE"
       /\ saga.state = "SUBMITTED" => row[s].state # "RESERVED"
       /\ saga.state = "RESERVED" => saga.attempts < MaxPayoutAttempts
       /\ pc \in {"submit", "record"} => saga.state = "RESERVED"
       /\ pc \in {"check", "recheck", "defer", "deadLetter"} => saga.state = "SUBMITTED"
       /\ pc = "record" => rail[s].state # "none"
       /\ pc = "bump" => saga.attempts + 1 < MaxPayoutAttempts
       /\ pc = "check" /\ row[s].state = "SUBMITTED" => saga.age <= sinceSubmit[s]
       /\ pc = "deadLetter" => Forsaken(s)
WorkersOK == \A w \in Workers : wk[w] # Idle => ItemOK(wk[w])

(* What a transaction may rely on between its load and its commit. *)
LoadOK(item) ==
    LET s == item.id
        saga == item.saga
    IN /\ row[s].state # "NONE"
       /\ saga.state = "SUBMITTED" => row[s].state # "RESERVED"
       /\ item.pc = "settle" => /\ Anchored(s, saga)
                               /\ rail[s].state \in {"settled", "returned"}
       /\ item.pc = "reverse" /\ saga.state = "SUBMITTED" => Forsaken(s)
CallersOK == \A c \in Callers : tx[c] # Idle => LoadOK(tx[c])

IInv ==
  /\ TypeOK
  /\ BooksMatchState
  /\ EventsMatchOutcome
  /\ RailGetsSealedAmount
  /\ RowsOK
  /\ WorkersOK
  /\ CallersOK

-----------------------------------------------------------------------------
(* The threshold arithmetic of the capped clock. *)
LEMMA AgeCapFacts ==
  /\ AgeCap \in Nat
  /\ MaxPayoutAge < AgeCap
  /\ \A x \in 0..AgeCap : Older(x) \in 0..AgeCap
  /\ \A x, y \in 0..AgeCap : x <= y => Older(x) <= Older(y)
  /\ \A x \in 0..AgeCap : x > MaxPayoutAge => Older(x) > MaxPayoutAge
  BY ConstantsAssumption DEF AgeCap, Older

(* The quote of a credit amount is a natural number of USD. *)
LEMMA QuoteType == \A a \in Nat : Quote(a) \in Nat
  BY ConstantsAssumption DEF Quote

(* Before the first payout nothing is posted, sent or claimed. *)
LEMMA InitIInv == Init => IInv
  BY ConstantsAssumption, AgeCapFacts
  DEF Init, IInv, TypeOK, BooksMatchState, BooksOf, EventsMatchOutcome,
      RailGetsSealedAmount, RowsOK, WorkersOK, CallersOK, Row, SagaState,
      RailState, Open, Idle

-----------------------------------------------------------------------------
(* Every action keeps the inductive invariant *)

WorkerItem == [pc : WorkerStep, id : Sagas, saga : Copy, told : Verdict]
CallerItem == [pc : CallerStep, id : Sagas, saga : Loaded]

(* Processes only finish or stay: what most commits do to them. *)
OnlyFinish ==
  /\ wk' \in [Workers -> {Idle} \cup WorkerItem]
  /\ tx' \in [Callers -> {Idle} \cup CallerItem]
  /\ \A w \in Workers : wk'[w] = wk[w] \/ wk'[w] = Idle
  /\ \A c \in Callers : tx'[c] = tx[c] \/ tx'[c] = Idle

(* A busy worker holds a typed copy of an opened payout. *)
LEMMA BusyWorker ==
  ASSUME IInv, NEW w \in Workers, wk[w].pc # "idle"
  PROVE  /\ wk[w] \in WorkerItem /\ wk[w] # Idle
         /\ wk[w].id \in Sagas /\ wk[w].saga \in Copy
         /\ row[wk[w].id] \in Row
  BY DEF IInv, TypeOK, WorkerItem, Idle

(* A busy caller holds a typed load of an opened payout. *)
LEMMA BusyCaller ==
  ASSUME IInv, NEW c \in Callers, tx[c].pc # "idle"
  PROVE  /\ tx[c] \in CallerItem /\ tx[c] # Idle
         /\ tx[c].id \in Sagas /\ tx[c].saga \in Loaded
         /\ row[tx[c].id] \in Row
  BY DEF IInv, TypeOK, CallerItem, Idle

(* Finishing a worker, or a caller, is OnlyFinish. *)
LEMMA FinishOnly ==
  ASSUME IInv, NEW w \in Workers, Finish(w), tx' = tx
  PROVE  OnlyFinish
  BY DEF IInv, TypeOK, Finish, OnlyFinish, WorkerItem, CallerItem

LEMMA LeaveOnly ==
  ASSUME IInv, NEW c \in Callers, Leave(c), wk' = wk
  PROVE  OnlyFinish
  BY DEF IInv, TypeOK, Leave, OnlyFinish, WorkerItem, CallerItem

(* A step that only finishes a process keeps the invariant. *)
LEMMA QuietStep ==
  ASSUME IInv, OnlyFinish, faults' \in 0..MaxFaults,
         UNCHANGED <<row, anchor, books, outbox, rail, sinceSubmit, edits>>
  PROVE  IInv'
<1>1. TypeOK'
  BY DEF IInv, TypeOK, OnlyFinish, WorkerItem, CallerItem
<1>2. WorkersOK'
  BY DEF IInv, OnlyFinish, WorkersOK, ItemOK, Forsaken
<1>3. CallersOK'
  BY DEF IInv, OnlyFinish, CallersOK, LoadOK, Forsaken, Anchored
<1>4. BooksMatchState' /\ EventsMatchOutcome' /\ RailGetsSealedAmount' /\ RowsOK'
  BY DEF IInv, BooksMatchState, EventsMatchOutcome, RailGetsSealedAmount, RowsOK
<1> QED BY <1>1, <1>2, <1>3, <1>4 DEF IInv

(* A patch that leaves the state alone and makes the row no older keeps it. *)
LEMMA NudgeStep ==
  ASSUME IInv, OnlyFinish, NEW s \in Sagas, NEW r \in Row,
         r.state = row[s].state, r.age <= row[s].age,
         r.state = "RESERVED" => r.attempts < MaxPayoutAttempts,
         row' = [row EXCEPT ![s] = r],
         UNCHANGED <<anchor, books, outbox, rail, sinceSubmit, faults, edits>>
  PROVE  IInv'
<1>1. /\ row' \in [Sagas -> Row] /\ row'[s] = r
      /\ \A t \in Sagas : t # s => row'[t] = row[t]
      /\ \A t \in Sagas : row'[t].state = row[t].state
  BY DEF IInv, TypeOK
<1>2. TypeOK'
  BY <1>1 DEF IInv, TypeOK, OnlyFinish, WorkerItem, CallerItem
<1>3. WorkersOK'
  BY <1>1 DEF IInv, TypeOK, OnlyFinish, WorkersOK, ItemOK, Forsaken, WorkerItem, Idle
<1>4. CallersOK'
  BY <1>1 DEF IInv, TypeOK, OnlyFinish, CallersOK, LoadOK, Forsaken, Anchored, CallerItem, Idle
<1>5. BooksMatchState' /\ EventsMatchOutcome' /\ RailGetsSealedAmount'
  BY <1>1 DEF IInv, BooksMatchState, BooksOf, EventsMatchOutcome, RailGetsSealedAmount
<1>6. RowsOK'
  BY <1>1, AgeCapFacts DEF IInv, TypeOK, Row, RowsOK
<1> QED BY <1>2, <1>3, <1>4, <1>5, <1>6 DEF IInv

(* An open payout ends: the row moves to a final state with the books, the *)
(* event and the rail that state stands for.                               *)
LEMMA FinalStep ==
  ASSUME IInv, OnlyFinish, NEW s \in Sagas, NEW to \in {"SETTLED", "FAILED"},
         row[s].state \in Open,
         MoveTo(s, to),
         books' = [books EXCEPT ![s] = BooksOf(to, anchor[s])],
         outbox' = [outbox EXCEPT ![s] = [settled |-> IF to = "SETTLED" THEN 1 ELSE 0,
                                          reversed |-> IF to = "FAILED" THEN 1 ELSE 0]],
         to = "SETTLED" => rail[s].state \in {"settled", "returned"},
         UNCHANGED <<anchor, rail, sinceSubmit, faults, edits>>
  PROVE  IInv'
<1>1. /\ row' \in [Sagas -> Row] /\ row'[s].state = to
      /\ \A t \in Sagas : t # s => row'[t] = row[t]
  BY AgeCapFacts DEF IInv, TypeOK, MoveTo, Patched, Row, SagaState
<1>2. BooksOf(to, anchor[s]) \in [earned : Int, reserve : Int, revenue : Int, usd : Int]
  BY QuoteType DEF IInv, TypeOK, BooksOf
<1>3. TypeOK'
  BY <1>1, <1>2 DEF IInv, TypeOK, OnlyFinish, WorkerItem, CallerItem
<1>4. WorkersOK'
  <2> SUFFICES ASSUME NEW w \in Workers, wk'[w] # Idle
               PROVE  ItemOK(wk[w])'
    BY DEF WorkersOK
  <2>1. wk'[w] = wk[w] /\ wk[w] \in WorkerItem /\ wk[w].id \in Sagas /\ ItemOK(wk[w])
    BY DEF IInv, TypeOK, OnlyFinish, WorkersOK, WorkerItem
  <2> QED BY <1>1, <2>1 DEF ItemOK, Forsaken, Open
<1>5. CallersOK'
  <2> SUFFICES ASSUME NEW c \in Callers, tx'[c] # Idle
               PROVE  LoadOK(tx[c])'
    BY DEF CallersOK
  <2>1. tx'[c] = tx[c] /\ tx[c] \in CallerItem /\ tx[c].id \in Sagas /\ LoadOK(tx[c])
    BY DEF IInv, TypeOK, OnlyFinish, CallersOK, CallerItem
  <2> QED BY <1>1, <2>1 DEF LoadOK, Forsaken, Anchored, Open
<1>6. BooksMatchState'
  BY <1>1 DEF IInv, TypeOK, BooksMatchState
<1>7. EventsMatchOutcome'
  BY <1>1 DEF IInv, TypeOK, EventsMatchOutcome
<1>8. RailGetsSealedAmount'
  BY <1>1 DEF IInv, TypeOK, RailGetsSealedAmount, BooksOf, Open
<1>9. RowsOK'
  BY <1>1 DEF IInv, RowsOK
<1> QED BY <1>3, <1>4, <1>5, <1>6, <1>7, <1>8, <1>9 DEF IInv

(* The end of an open payout, as row, books and outbox record it. *)
Ends(s, to) ==
  /\ row[s].state \in Open
  /\ MoveTo(s, to)
  /\ books' = [books EXCEPT ![s] = BooksOf(to, anchor[s])]
  /\ outbox' = [outbox EXCEPT ![s] = [settled |-> IF to = "SETTLED" THEN 1 ELSE 0,
                                      reversed |-> IF to = "FAILED" THEN 1 ELSE 0]]

(* The undo of an open payout: what it posts is what FAILED stands for. *)
LEMMA FailEnds ==
  ASSUME IInv, NEW s \in Sagas, NEW saga, saga.state \in Open, FailAndReturn(s, saga)
  PROVE  Ends(s, "FAILED") /\ row[s].state = saga.state
<1>1. /\ row[s].state = saga.state /\ row[s].state \in Open
      /\ saga.reserve = anchor[s] /\ anchor[s] \in Nat
  BY DEF FailAndReturn, Cas, Anchored, IInv, TypeOK
<1>2. books[s] = BooksOf(row[s].state, anchor[s]) /\ outbox[s] = [settled |-> 0, reversed |-> 0]
  BY <1>1 DEF IInv, BooksMatchState, EventsMatchOutcome, Open
<1>3. Posted(books[s], saga.reserve, 0 - saga.reserve, 0, 0) = BooksOf("FAILED", anchor[s])
  BY <1>1, <1>2 DEF Posted, BooksOf, Open
<1>4. books' = [books EXCEPT ![s] = BooksOf("FAILED", anchor[s])]
  BY <1>3 DEF FailAndReturn, PostReturn
<1>5. outbox' = [outbox EXCEPT ![s] = [settled |-> 0, reversed |-> 1]]
  BY <1>2 DEF FailAndReturn, Announce
<1>6. MoveTo(s, "FAILED")
  BY DEF FailAndReturn
<1> QED BY <1>1, <1>4, <1>5, <1>6 DEF Ends

LEMMA FailStep ==
  ASSUME IInv, OnlyFinish, NEW s \in Sagas, NEW saga, saga.state \in Open,
         FailAndReturn(s, saga),
         UNCHANGED <<anchor, rail, sinceSubmit, faults, edits>>
  PROVE  IInv'
  BY FailEnds, FinalStep DEF Ends

(* The rail stays, or takes up a sealed amount it did not have. *)
RailTakes ==
  /\ rail' \in [Sagas -> [state : RailState, amount : Nat]]
  /\ \A t \in Sagas : \/ rail'[t] = rail[t]
                      \/ /\ rail[t].state = "none" /\ row[t].state # "NONE"
                         /\ rail'[t] = [state |-> "pending", amount |-> anchor[t]]

(* A worker goes on to its next step with the database untouched. *)
LEMMA WorkerMoves ==
  ASSUME IInv, NEW w \in Workers, wk'[w] \in WorkerItem, ItemOK(wk[w])',
         wk' = [wk EXCEPT ![w] = wk'[w]], RailTakes, faults' \in 0..MaxFaults,
         UNCHANGED <<row, anchor, books, outbox, tx, sinceSubmit, edits>>
  PROVE  IInv'
<1>1. TypeOK'
  BY DEF IInv, TypeOK, RailTakes, WorkerItem
<1>2. WorkersOK'
  <2> SUFFICES ASSUME NEW v \in Workers, wk'[v] # Idle
               PROVE  ItemOK(wk[v])'
    BY DEF WorkersOK
  <2>1. CASE v = w
    BY <2>1 DEF IInv, TypeOK, ItemOK, Forsaken
  <2>2. CASE v # w
    <3>1. wk'[v] = wk[v] /\ wk[v] \in WorkerItem /\ wk[v].id \in Sagas /\ ItemOK(wk[v])
      BY <2>2 DEF IInv, TypeOK, WorkersOK, WorkerItem
    <3> QED BY <3>1 DEF ItemOK, Forsaken, RailTakes
  <2> QED BY <2>1, <2>2
<1>3. CallersOK'
  <2> SUFFICES ASSUME NEW c \in Callers, tx'[c] # Idle
               PROVE  LoadOK(tx[c])'
    BY DEF CallersOK
  <2>1. tx'[c] = tx[c] /\ tx[c] \in CallerItem /\ tx[c].id \in Sagas /\ LoadOK(tx[c])
    BY DEF IInv, TypeOK, CallersOK, CallerItem
  <2> QED BY <2>1 DEF LoadOK, Forsaken, Anchored, RailTakes
<1>4. BooksMatchState' /\ EventsMatchOutcome' /\ RowsOK'
  BY DEF IInv, BooksMatchState, EventsMatchOutcome, RowsOK, RailTakes
<1>5. RailGetsSealedAmount'
  BY DEF IInv, RailGetsSealedAmount, RailTakes
<1> QED BY <1>1, <1>2, <1>3, <1>4, <1>5 DEF IInv

(* requestPayout opens a fresh id, which no worker or caller knows yet. *)
LEMMA RequestStep ==
  ASSUME IInv, NEW s \in Sagas, NEW a \in Amounts, RequestPayout(s, a)
  PROVE  IInv'
<1> DEFINE r == [state |-> "RESERVED", reserve |-> a, attempts |-> 0,
                 wait |-> PendingSla, age |-> 0]
<1>1. /\ a \in Nat /\ r \in Row
      /\ row' = [row EXCEPT ![s] = r] /\ anchor' = [anchor EXCEPT ![s] = a]
      /\ UNCHANGED <<outbox, rail, wk, tx, sinceSubmit, faults, edits>>
  BY ConstantsAssumption, AgeCapFacts DEF RequestPayout, Row, SagaState
<1>2. /\ row[s].state = "NONE"
      /\ books[s] = BooksOf("NONE", anchor[s]) /\ outbox[s] = [settled |-> 0, reversed |-> 0]
      /\ rail[s].state = "none"
  BY DEF RequestPayout, IInv, BooksMatchState, EventsMatchOutcome, RowsOK
<1>3. books' = [books EXCEPT ![s] = BooksOf("RESERVED", a)]
  <2>1. Posted(books[s], 0 - a, a, 0, 0) = BooksOf("RESERVED", a)
    BY <1>1, <1>2 DEF Posted, BooksOf, Open
  <2> QED BY <2>1 DEF RequestPayout, PostReserve
<1>4. BooksOf("RESERVED", a) \in [earned : Int, reserve : Int, revenue : Int, usd : Int]
  BY <1>1 DEF BooksOf, Open
<1>5. TypeOK'
  BY <1>1, <1>3, <1>4 DEF IInv, TypeOK
<1>6. /\ row'[s] = r /\ anchor'[s] = a
      /\ \A t \in Sagas : t # s => row'[t] = row[t] /\ anchor'[t] = anchor[t] /\ books'[t] = books[t]
  BY <1>1, <1>3 DEF IInv, TypeOK
<1>7. WorkersOK'
  <2> SUFFICES ASSUME NEW w \in Workers, wk'[w] # Idle
               PROVE  ItemOK(wk[w])'
    BY DEF WorkersOK
  <2>1. wk'[w] = wk[w] /\ wk[w] \in WorkerItem /\ wk[w].id \in Sagas /\ ItemOK(wk[w])
    BY <1>1 DEF IInv, TypeOK, WorkersOK, WorkerItem
  <2> QED BY <1>1, <1>2, <1>6, <2>1 DEF ItemOK, Forsaken
<1>8. CallersOK'
  <2> SUFFICES ASSUME NEW c \in Callers, tx'[c] # Idle
               PROVE  LoadOK(tx[c])'
    BY DEF CallersOK
  <2>1. tx'[c] = tx[c] /\ tx[c] \in CallerItem /\ tx[c].id \in Sagas /\ LoadOK(tx[c])
    BY <1>1 DEF IInv, TypeOK, CallersOK, CallerItem
  <2> QED BY <1>1, <1>2, <1>6, <2>1 DEF LoadOK, Forsaken, Anchored
<1>9. BooksMatchState'
  BY <1>1, <1>3, <1>6 DEF IInv, TypeOK, BooksMatchState
<1>10. EventsMatchOutcome' /\ RowsOK'
  BY <1>1, <1>2, <1>6, ConstantsAssumption DEF IInv, EventsMatchOutcome, RowsOK
<1>11. RailGetsSealedAmount'
  BY <1>1, <1>2, <1>6 DEF IInv, RailGetsSealedAmount
<1> QED BY <1>5, <1>7, <1>8, <1>9, <1>10, <1>11 DEF IInv

(* A claim takes a copy, true of the row at that moment. *)
LEMMA ClaimStep ==
  ASSUME IInv, NEW w \in Workers, NEW s \in Sagas, ClaimDue(w, s)
  PROVE  IInv'
<1>1. row[s].state \in Open /\ row[s] \in Row /\ sinceSubmit[s] \in 0..AgeCap
  BY DEF ClaimDue, IInv, TypeOK
<1>2. /\ wk'[w] = [pc |-> IF row[s].state = "RESERVED" THEN "submit" ELSE "check",
                   id |-> s, saga |-> CopyOf(s), told |-> "unknown"]
      /\ wk' = [wk EXCEPT ![w] = wk'[w]]
  BY DEF ClaimDue, IInv, TypeOK
<1>3. wk'[w] \in WorkerItem
  BY <1>1, <1>2 DEF WorkerItem, WorkerStep, Copy, CopyOf, Verdict, Row, Open
<1>4. UNCHANGED <<row, anchor, books, outbox, rail, tx, sinceSubmit, faults, edits>>
  BY DEF ClaimDue
<1>5. ItemOK(wk[w])'
  BY <1>1, <1>2, <1>4 DEF IInv, RowsOK, ItemOK, CopyOf, Open
<1>6. RailTakes /\ faults' \in 0..MaxFaults
  BY <1>4 DEF IInv, TypeOK, RailTakes
<1> QED BY <1>2, <1>3, <1>4, <1>5, <1>6, WorkerMoves

(* The error boundary sends a worker to the bump or to the dead letter. *)
LEMMA ErrorStep ==
  ASSUME IInv, NEW w \in Workers, wk[w].pc # "idle", NEW retryable \in BOOLEAN,
         Goto(w, OnError(wk[w].saga, retryable)), RailTakes, faults' \in 0..MaxFaults,
         UNCHANGED <<row, anchor, books, outbox, tx, sinceSubmit, edits>>
  PROVE  IInv'
<1>1. wk[w] \in WorkerItem /\ wk[w] # Idle /\ wk[w].id \in Sagas /\ ItemOK(wk[w])
  BY BusyWorker DEF IInv, WorkersOK
<1>2. /\ wk'[w] = At(wk[w], OnError(wk[w].saga, retryable), wk[w].told)
      /\ wk' = [wk EXCEPT ![w] = wk'[w]]
  BY DEF IInv, TypeOK, Goto
<1>3. wk'[w] \in WorkerItem
  BY <1>1, <1>2 DEF WorkerItem, WorkerStep, At, OnError
<1>4. ItemOK(wk[w])'
  BY <1>1, <1>2 DEF ItemOK, At, OnError
<1> QED BY <1>2, <1>3, <1>4, WorkerMoves

(* Handing a verified copy to the rail hands over the sealed amount. *)
LEMMA HandsSealed ==
  ASSUME IInv, NEW w \in Workers, wk[w].pc # "idle",
         Anchored(wk[w].id, wk[w].saga),
         HandToRail(wk[w].id, wk[w].saga.reserve) \/ rail' = rail
  PROVE  RailTakes
<1>1. /\ wk[w].id \in Sagas /\ wk[w].saga.reserve = anchor[wk[w].id]
      /\ anchor[wk[w].id] \in Nat /\ row[wk[w].id].state # "NONE"
  BY BusyWorker DEF IInv, TypeOK, WorkersOK, ItemOK, Anchored
<1>2. CASE rail' = rail
  BY <1>2 DEF IInv, TypeOK, RailTakes
<1>3. CASE rail' # rail
  <2>1. rail' = [rail EXCEPT ![wk[w].id] = [state |-> "pending", amount |-> anchor[wk[w].id]]]
        /\ rail[wk[w].id].state = "none"
    BY <1>1, <1>3 DEF HandToRail
  <2> QED BY <1>1, <2>1 DEF IInv, TypeOK, RailTakes, RailState
<1> QED BY <1>2, <1>3

(* An accepted submit has the rail's word before it is recorded. *)
LEMMA SubmitAcceptedStep ==
  ASSUME IInv, NEW w \in Workers, SubmitAccepted(w)
  PROVE  IInv'
<1>1. wk[w] \in WorkerItem /\ wk[w] # Idle /\ wk[w].id \in Sagas /\ ItemOK(wk[w])
  BY BusyWorker DEF IInv, WorkersOK, SubmitAccepted
<1>2. /\ wk'[w] = At(wk[w], "record", wk[w].told)
      /\ wk' = [wk EXCEPT ![w] = wk'[w]]
      /\ wk[w].pc = "submit" /\ HandToRail(wk[w].id, wk[w].saga.reserve)
      /\ UNCHANGED <<row, anchor, books, outbox, tx, sinceSubmit, faults, edits>>
  BY DEF IInv, TypeOK, Goto, SubmitAccepted
<1>3. wk'[w] \in WorkerItem
  BY <1>1, <1>2 DEF WorkerItem, WorkerStep, At
<1>4. RailTakes /\ faults' \in 0..MaxFaults
  BY <1>2, HandsSealed DEF SubmitAccepted, IInv, TypeOK
<1>5. rail'[wk[w].id].state # "none"
  BY <1>1, <1>2 DEF HandToRail, IInv, TypeOK
<1>6. ItemOK(wk[w])'
  BY <1>1, <1>2, <1>5 DEF ItemOK, At
<1> QED BY <1>2, <1>3, <1>4, <1>6, WorkerMoves

(* A failed or refused submit goes to the error boundary. *)
LEMMA SubmitFailsStep ==
  ASSUME IInv, NEW w \in Workers, NEW takenUp \in BOOLEAN, NEW retryable \in BOOLEAN,
         SubmitFails(w, takenUp, retryable)
  PROVE  IInv'
<1>1. /\ wk[w].pc = "submit" /\ Anchored(wk[w].id, wk[w].saga)
      /\ HandToRail(wk[w].id, wk[w].saga.reserve) \/ rail' = rail
      /\ Goto(w, OnError(wk[w].saga, retryable))
      /\ UNCHANGED <<row, anchor, books, outbox, tx, sinceSubmit, faults, edits>>
  BY DEF SubmitFails
<1>2. RailTakes /\ faults' \in 0..MaxFaults
  BY <1>1, HandsSealed DEF IInv, TypeOK
<1> QED BY <1>1, <1>2, ErrorStep

LEMMA SubmitRefusedStep ==
  ASSUME IInv, NEW w \in Workers, SubmitRefused(w)
  PROVE  IInv'
<1>1. /\ wk[w].pc = "submit" /\ Goto(w, OnError(wk[w].saga, FALSE))
      /\ UNCHANGED <<row, anchor, books, outbox, rail, tx, sinceSubmit, faults, edits>>
  BY DEF SubmitRefused
<1>2. RailTakes /\ faults' \in 0..MaxFaults
  BY <1>1 DEF IInv, TypeOK, RailTakes
<1> QED BY <1>1, <1>2, ErrorStep

(* A store fault or a crash moves the worker only. *)
LEMMA StoreFaultStep ==
  ASSUME IInv, NEW w \in Workers, StoreFault(w)
  PROVE  IInv'
<1>1. /\ UNCHANGED <<row, anchor, books, outbox, rail, tx, sinceSubmit, edits>>
      /\ wk[w].pc # "idle"
      /\ Goto(w, OnError(wk[w].saga, TRUE)) \/ Finish(w)
  BY DEF StoreFault
<1>2. RailTakes /\ faults' \in 0..MaxFaults
  BY <1>1, ConstantsAssumption DEF StoreFault, IInv, TypeOK, RailTakes
<1>3. CASE Goto(w, OnError(wk[w].saga, TRUE))
  BY <1>1, <1>2, <1>3, ErrorStep
<1>4. CASE Finish(w)
  BY <1>1, <1>2, <1>4, FinishOnly, QuietStep
<1> QED BY <1>1, <1>3, <1>4

LEMMA CrashStep ==
  ASSUME IInv, NEW w \in Workers, Crash(w)
  PROVE  IInv'
<1>1. /\ UNCHANGED <<row, anchor, books, outbox, rail, tx, sinceSubmit, edits>>
      /\ Finish(w) /\ faults' \in 0..MaxFaults
  BY ConstantsAssumption DEF Crash, IInv, TypeOK
<1> QED BY <1>1, FinishOnly, QuietStep

(* Only a RESERVED row becomes SUBMITTED, and the rail has it by then. *)
LEMMA RecordStep ==
  ASSUME IInv, NEW w \in Workers, RecordSubmitted(w)
  PROVE  IInv'
<1> DEFINE s == wk[w].id
           saga == wk[w].saga
           r == Patched(row[s], "SUBMITTED", saga.attempts + 1, SubmittedSla, 0)
<1>1. s \in Sagas /\ saga \in Copy /\ row[s] \in Row /\ ItemOK(wk[w]) /\ wk[w].pc = "record"
  BY BusyWorker DEF IInv, WorkersOK, RecordSubmitted
<1>2. saga.attempts + 1 \in 0..MaxPayoutAttempts /\ rail[s].state # "none"
  BY <1>1, ConstantsAssumption DEF ItemOK, Copy
<1>3. Finish(w) /\ UNCHANGED <<anchor, books, outbox, rail, tx, faults, edits>>
  BY DEF RecordSubmitted
<1>4. OnlyFinish
  BY <1>3, FinishOnly
<1>5. CASE ~Cas(s, "RESERVED")
  <2>1. UNCHANGED <<row, sinceSubmit>> /\ faults' \in 0..MaxFaults
    BY <1>3, <1>5 DEF RecordSubmitted, IInv, TypeOK
  <2> QED BY <1>3, <1>4, <2>1, QuietStep
<1>6. CASE Cas(s, "RESERVED")
  <2>1. /\ row' = [row EXCEPT ![s] = r] /\ sinceSubmit' = [sinceSubmit EXCEPT ![s] = 0]
        /\ row[s].state = "RESERVED"
    BY <1>6 DEF RecordSubmitted, Cas
  <2>2. r \in Row /\ r.state = "SUBMITTED" /\ r.age = 0
    BY <1>1, <1>2, ConstantsAssumption, AgeCapFacts DEF Patched, Row, SagaState
  <2> HIDE DEF r
  <2>3. /\ row' \in [Sagas -> Row] /\ row'[s] = r /\ sinceSubmit'[s] = 0
        /\ sinceSubmit' \in [Sagas -> 0..AgeCap]
        /\ \A t \in Sagas : t # s => row'[t] = row[t] /\ sinceSubmit'[t] = sinceSubmit[t]
    BY <1>1, <2>1, <2>2, AgeCapFacts DEF IInv, TypeOK
  <2>4. TypeOK'
    BY <1>3, <1>4, <2>3 DEF IInv, TypeOK, OnlyFinish, WorkerItem, CallerItem
  <2>5. WorkersOK'
    <3> SUFFICES ASSUME NEW v \in Workers, wk'[v] # Idle
                 PROVE  ItemOK(wk[v])'
      BY DEF WorkersOK
    <3>1. wk'[v] = wk[v] /\ wk[v] \in WorkerItem /\ wk[v].id \in Sagas /\ ItemOK(wk[v])
          /\ wk[v].saga.state \in Open
      BY <1>4 DEF IInv, TypeOK, OnlyFinish, WorkersOK, WorkerItem, Copy
    <3> QED BY <1>3, <2>1, <2>2, <2>3, <3>1 DEF ItemOK, Forsaken, Open
  <2>6. CallersOK'
    <3> SUFFICES ASSUME NEW c \in Callers, tx'[c] # Idle
                 PROVE  LoadOK(tx[c])'
      BY DEF CallersOK
    <3>1. tx'[c] = tx[c] /\ tx[c] \in CallerItem /\ tx[c].id \in Sagas /\ LoadOK(tx[c])
          /\ tx[c].saga.state \in Open
      BY <1>4 DEF IInv, TypeOK, OnlyFinish, CallersOK, CallerItem, Loaded
    <3> QED BY <1>3, <2>1, <2>2, <2>3, <3>1 DEF LoadOK, Forsaken, Anchored, Open
  <2>7. BooksMatchState'
    BY <1>3, <2>1, <2>2, <2>3 DEF IInv, BooksMatchState, BooksOf, Open
  <2>8. EventsMatchOutcome' /\ RowsOK'
    BY <1>3, <2>1, <2>2, <2>3 DEF IInv, EventsMatchOutcome, RowsOK
  <2>9. RailGetsSealedAmount'
    BY <1>2, <1>3, <2>1, <2>2, <2>3 DEF IInv, RailGetsSealedAmount
  <2> QED BY <2>4, <2>5, <2>6, <2>7, <2>8, <2>9 DEF IInv
<1> QED BY <1>5, <1>6

(* A verdict to give up rests on the rail or on the age of the copy, which is *)
(* at most the time since the submit.                                         *)
LEMMA CheckSubmittedStep ==
  ASSUME IInv, NEW w \in Workers, NEW verdict \in Verdict, CheckSubmitted(w, verdict)
  PROVE  IInv'
<1> DEFINE s == wk[w].id
           saga == wk[w].saga
           next == AfterVerdict(verdict, saga.age > MaxPayoutAge)
<1>1. /\ wk[w] \in WorkerItem /\ s \in Sagas /\ saga \in Copy /\ wk[w].pc = "check"
      /\ ItemOK(wk[w]) /\ sinceSubmit[s] \in 0..AgeCap
  BY BusyWorker DEF IInv, TypeOK, WorkersOK, CheckSubmitted
<1>2. /\ UNCHANGED <<row, anchor, books, outbox, rail, tx, sinceSubmit, faults, edits>>
      /\ IF next = "idle" THEN Finish(w) ELSE wk' = [wk EXCEPT ![w] = At(@, next, verdict)]
      /\ verdict \in {"unknown", rail[s].state}
  BY DEF CheckSubmitted, Answers
<1>3. RailTakes /\ faults' \in 0..MaxFaults
  BY <1>2 DEF IInv, TypeOK, RailTakes
<1>4. CASE next = "idle"
  BY <1>2, <1>3, <1>4, FinishOnly, QuietStep
<1>5. CASE next # "idle"
  <2>1. next \in {"deadLetter", "recheck", "defer"}
    BY <1>5 DEF AfterVerdict
  <2>2. next = "deadLetter" => Forsaken(s)
    BY <1>1, <1>2, ConstantsAssumption, AgeCapFacts DEF AfterVerdict, Forsaken, ItemOK, Copy, Verdict
  <2> HIDE DEF next
  <2>3. wk'[w] = At(wk[w], next, verdict) /\ wk' = [wk EXCEPT ![w] = wk'[w]]
    BY <1>2, <1>5 DEF IInv, TypeOK
  <2>4. wk'[w] \in WorkerItem
    BY <1>1, <2>1, <2>3 DEF WorkerItem, WorkerStep, At
  <2>5. ItemOK(wk[w])'
    BY <1>1, <1>2, <2>1, <2>2, <2>3 DEF ItemOK, At, Forsaken
  <2> QED BY <1>2, <1>3, <2>3, <2>4, <2>5, WorkerMoves
<1> QED BY <1>4, <1>5

(* Rescheduling or bumping changes no state and makes the row no older. *)
LEMMA RecheckStep ==
  ASSUME IInv, NEW w \in Workers, RecheckLater(w)
  PROVE  IInv'
<1> DEFINE s == wk[w].id
           r == Patched(row[s], "SUBMITTED", row[s].attempts, SubmittedSla,
                        IF wk[w].pc = "defer" THEN 0 ELSE row[s].age)
<1>1. s \in Sagas /\ row[s] \in Row
  BY BusyWorker DEF RecheckLater
<1>2. Finish(w) /\ UNCHANGED <<anchor, books, outbox, rail, tx, sinceSubmit, faults, edits>>
  BY DEF RecheckLater
<1>3. OnlyFinish /\ faults' \in 0..MaxFaults
  BY <1>2, FinishOnly DEF IInv, TypeOK
<1>4. CASE row' = row
  BY <1>2, <1>3, <1>4, QuietStep
<1>5. CASE row' # row
  <2>1. row' = [row EXCEPT ![s] = r] /\ row[s].state = "SUBMITTED"
    BY <1>5 DEF RecheckLater, Cas
  <2>2. r \in Row /\ r.state = "SUBMITTED" /\ r.age <= row[s].age
    BY <1>1, ConstantsAssumption, AgeCapFacts DEF Patched, Row, SagaState
  <2> QED BY <1>1, <1>2, <1>3, <2>1, <2>2, NudgeStep
<1> QED BY <1>4, <1>5

LEMMA BumpStep ==
  ASSUME IInv, NEW w \in Workers, BumpAttempt(w)
  PROVE  IInv'
<1> DEFINE s == wk[w].id
           r == Patched(row[s], row[s].state, wk[w].saga.attempts + 1, row[s].wait, 0)
<1>1. s \in Sagas /\ row[s] \in Row /\ wk[w].saga \in Copy
      /\ wk[w].saga.attempts + 1 < MaxPayoutAttempts
  BY BusyWorker DEF BumpAttempt, IInv, WorkersOK, ItemOK
<1>2. Finish(w) /\ UNCHANGED <<anchor, books, outbox, rail, tx, sinceSubmit, faults, edits>>
  BY DEF BumpAttempt
<1>3. OnlyFinish /\ faults' \in 0..MaxFaults
  BY <1>2, FinishOnly DEF IInv, TypeOK
<1>4. CASE row' = row
  BY <1>2, <1>3, <1>4, QuietStep
<1>5. CASE row' # row
  <2>1. row' = [row EXCEPT ![s] = r]
    BY <1>5 DEF BumpAttempt, Cas
  <2>2. /\ r \in Row /\ r.state = row[s].state /\ r.age <= row[s].age
        /\ r.attempts < MaxPayoutAttempts
    BY <1>1, ConstantsAssumption, AgeCapFacts DEF Patched, Row, Copy
  <2> QED BY <1>1, <1>2, <1>3, <2>1, <2>2, NudgeStep
<1> QED BY <1>4, <1>5

(* A dead letter posts for a row still in the state of its copy, or not at all. *)
LEMMA DeadLetterStep ==
  ASSUME IInv, NEW w \in Workers, DeadLetter(w)
  PROVE  IInv'
<1> DEFINE s == wk[w].id
           saga == wk[w].saga
<1>1. s \in Sagas /\ saga.state \in Open /\ wk[w].pc # "idle"
  BY BusyWorker DEF DeadLetter, Copy
<1>2. UNCHANGED <<anchor, rail, tx, sinceSubmit, faults, edits>>
      /\ RailTakes /\ faults' \in 0..MaxFaults
  BY DEF DeadLetter, IInv, TypeOK, RailTakes
<1>3. CASE FailAndReturn(s, saga) /\ Finish(w)
  BY <1>1, <1>2, <1>3, FinishOnly, FailStep
<1>4. CASE Finish(w) /\ UNCHANGED <<row, books, outbox>>
  BY <1>2, <1>4, FinishOnly, QuietStep
<1>5. CASE Goto(w, OnError(saga, FALSE)) /\ UNCHANGED <<row, books, outbox>>
  BY <1>1, <1>2, <1>5, ErrorStep
<1> QED BY <1>3, <1>4, <1>5 DEF DeadLetter

(* A caller loads what is true of the row at that moment. *)
LEMMA LoadStep ==
  ASSUME IInv, NEW c \in Callers, NEW s \in Sagas, NEW pc \in CallerStep,
         row[s].state \in Open, LoadInto(c, pc, s),
         pc = "settle" => /\ Anchored(s, row[s])
                          /\ rail[s].state \in {"settled", "returned"},
         pc = "reverse" => Forsaken(s)
  PROVE  IInv'
<1>1. UNCHANGED <<row, anchor, books, outbox, rail, wk, sinceSubmit, faults, edits>>
      /\ tx' = [tx EXCEPT ![c] = [pc |-> pc, id |-> s, saga |-> LoadOf(s)]]
  BY DEF LoadInto
<1>2. [pc |-> pc, id |-> s, saga |-> LoadOf(s)] \in CallerItem
  BY DEF IInv, TypeOK, Row, CallerItem, Loaded, LoadOf
<1>3. TypeOK'
  BY <1>1, <1>2 DEF IInv, TypeOK, CallerItem
<1>4. CallersOK'
  <2> SUFFICES ASSUME NEW d \in Callers, tx'[d] # Idle
               PROVE  LoadOK(tx[d])'
    BY DEF CallersOK
  <2>1. CASE d = c
    BY <1>1, <2>1 DEF IInv, TypeOK, LoadOK, LoadOf, Forsaken, Anchored, Open
  <2>2. CASE d # c
    <3>1. tx'[d] = tx[d] /\ LoadOK(tx[d])
      BY <1>1, <2>2 DEF IInv, TypeOK, CallersOK
    <3> QED BY <1>1, <3>1 DEF LoadOK, Forsaken, Anchored
  <2> QED BY <2>1, <2>2
<1>5. WorkersOK'
  BY <1>1 DEF IInv, WorkersOK, ItemOK, Forsaken
<1>6. BooksMatchState' /\ EventsMatchOutcome' /\ RailGetsSealedAmount' /\ RowsOK'
  BY <1>1 DEF IInv, BooksMatchState, EventsMatchOutcome, RailGetsSealedAmount, RowsOK
<1> QED BY <1>3, <1>4, <1>5, <1>6 DEF IInv

LEMMA SettleLoadStep ==
  ASSUME IInv, NEW c \in Callers, NEW s \in Sagas, SettleLoad(c, s)
  PROVE  IInv'
<1>1. /\ row[s].state \in Open /\ LoadInto(c, "settle", s) /\ Anchored(s, row[s])
      /\ rail[s].state \in {"settled", "returned"} /\ "settle" \in CallerStep
  BY DEF SettleLoad, Open, CallerStep
<1> QED BY <1>1, LoadStep

LEMMA ReverseLoadStep ==
  ASSUME IInv, NEW c \in Callers, NEW s \in Sagas, NEW reported \in BOOLEAN,
         ReverseLoad(c, s, reported)
  PROVE  IInv'
<1>1. row[s].state \in Open /\ LoadInto(c, "reverse", s) /\ "reverse" \in CallerStep
  BY DEF ReverseLoad, CallerStep
<1>2. Forsaken(s)
  BY ConstantsAssumption, AgeCapFacts
  DEF ReverseLoad, MayReverse, Forsaken, IInv, TypeOK, Row, RowsOK
<1> QED BY <1>1, <1>2, LoadStep

(* A settle that wins the compare-and-set posts what SETTLED stands for. *)
LEMMA SettleEnds ==
  ASSUME IInv, NEW c \in Callers, SettleCommit(c), ~UNCHANGED <<row, books, outbox>>
  PROVE  /\ tx[c].id \in Sagas /\ row[tx[c].id].state = "SUBMITTED"
         /\ Ends(tx[c].id, "SETTLED")
         /\ rail[tx[c].id].state \in {"settled", "returned"}
<1> DEFINE s == tx[c].id
           saga == tx[c].saga
<1>1. /\ s \in Sagas /\ saga.reserve = anchor[s] /\ anchor[s] \in Nat
      /\ rail[s].state \in {"settled", "returned"}
  BY BusyCaller DEF SettleCommit, IInv, TypeOK, CallersOK, LoadOK, Anchored
<1>2. /\ row[s].state = "SUBMITTED" /\ MoveTo(s, "SETTLED")
      /\ PostSettlement(s, saga.reserve) /\ Announce(s, 1, 0)
  BY DEF SettleCommit, Cas
<1>3. books[s] = BooksOf("SUBMITTED", anchor[s]) /\ outbox[s] = [settled |-> 0, reversed |-> 0]
  BY <1>1, <1>2 DEF IInv, BooksMatchState, EventsMatchOutcome
<1>4. Posted(books[s], 0, 0 - saga.reserve, saga.reserve, Quote(saga.reserve))
        = BooksOf("SETTLED", anchor[s])
  BY <1>1, <1>3, QuoteType DEF Posted, BooksOf, Open
<1>5. books' = [books EXCEPT ![s] = BooksOf("SETTLED", anchor[s])]
  BY <1>2, <1>4 DEF PostSettlement
<1>6. outbox' = [outbox EXCEPT ![s] = [settled |-> 1, reversed |-> 0]]
  BY <1>2, <1>3 DEF Announce
<1> QED BY <1>1, <1>2, <1>5, <1>6 DEF Ends, Open

LEMMA SettleCommitStep ==
  ASSUME IInv, NEW c \in Callers, SettleCommit(c)
  PROVE  IInv'
<1>1. Leave(c) /\ UNCHANGED <<anchor, rail, wk, sinceSubmit, faults, edits>>
  BY DEF SettleCommit
<1>2. OnlyFinish /\ faults' \in 0..MaxFaults
  BY <1>1, LeaveOnly DEF IInv, TypeOK
<1>3. CASE UNCHANGED <<row, books, outbox>>
  BY <1>1, <1>2, <1>3, QuietStep
<1>4. CASE ~UNCHANGED <<row, books, outbox>>
  BY <1>1, <1>2, <1>4, SettleEnds, FinalStep DEF Ends
<1> QED BY <1>3, <1>4

LEMMA ReverseCommitStep ==
  ASSUME IInv, NEW c \in Callers, ReverseCommit(c)
  PROVE  IInv'
<1>1. tx[c].id \in Sagas /\ tx[c].saga.state \in Open
  BY BusyCaller DEF ReverseCommit, Loaded
<1>2. Leave(c) /\ UNCHANGED <<anchor, rail, wk, sinceSubmit, faults, edits>>
  BY DEF ReverseCommit
<1>3. OnlyFinish /\ faults' \in 0..MaxFaults
  BY <1>2, LeaveOnly DEF IInv, TypeOK
<1>4. CASE UNCHANGED <<row, books, outbox>>
  BY <1>2, <1>3, <1>4, QuietStep
<1>5. CASE FailAndReturn(tx[c].id, tx[c].saga)
  BY <1>1, <1>2, <1>3, <1>5, FailStep
<1> QED BY <1>4, <1>5 DEF ReverseCommit

LEMMA AbortStep ==
  ASSUME IInv, NEW c \in Callers, Abort(c)
  PROVE  IInv'
<1>1. /\ UNCHANGED <<row, anchor, books, outbox, rail, wk, sinceSubmit, edits>>
      /\ Leave(c) /\ faults' \in 0..MaxFaults
  BY ConstantsAssumption DEF Abort, IInv, TypeOK
<1> QED BY <1>1, LeaveOnly, QuietStep

(* The rail moves only what it has, and never back. *)
LEMMA RailStep ==
  ASSUME IInv, NEW s \in Sagas, RailResolves(s) \/ RailReturns(s)
  PROVE  IInv'
<1>1. /\ UNCHANGED <<row, anchor, books, outbox, wk, tx, sinceSubmit, faults, edits>>
      /\ rail' \in [Sagas -> [state : RailState, amount : Nat]]
      /\ \A t \in Sagas : t # s => rail'[t] = rail[t]
      /\ rail'[s].amount = rail[s].amount
      /\ \/ rail[s].state = "pending" /\ rail'[s].state \in {"settled", "failed"}
         \/ rail[s].state = "settled" /\ rail'[s].state = "returned"
  <2>1. CASE RailResolves(s)
    <3>1. PICK to \in {"settled", "failed"} :
            rail' = [rail EXCEPT ![s] = [state |-> to, amount |-> rail[s].amount]]
      BY <2>1 DEF RailResolves
    <3> QED BY <2>1, <3>1 DEF RailResolves, IInv, TypeOK, RailState
  <2>2. CASE RailReturns(s)
    BY <2>2 DEF RailReturns, IInv, TypeOK, RailState
  <2> QED BY <2>1, <2>2
<1>2. TypeOK'
  BY <1>1 DEF IInv, TypeOK
<1>3. WorkersOK'
  <2> SUFFICES ASSUME NEW w \in Workers, wk'[w] # Idle
               PROVE  ItemOK(wk[w])'
    BY DEF WorkersOK
  <2>1. wk'[w] = wk[w] /\ wk[w] \in WorkerItem /\ wk[w].id \in Sagas /\ ItemOK(wk[w])
    BY <1>1 DEF IInv, TypeOK, WorkersOK, WorkerItem
  <2> QED BY <1>1, <2>1 DEF ItemOK, Forsaken
<1>4. CallersOK'
  <2> SUFFICES ASSUME NEW c \in Callers, tx'[c] # Idle
               PROVE  LoadOK(tx[c])'
    BY DEF CallersOK
  <2>1. tx'[c] = tx[c] /\ tx[c] \in CallerItem /\ tx[c].id \in Sagas /\ LoadOK(tx[c])
    BY <1>1 DEF IInv, TypeOK, CallersOK, CallerItem
  <2> QED BY <1>1, <2>1 DEF LoadOK, Forsaken, Anchored
<1>5. BooksMatchState' /\ EventsMatchOutcome'
  BY <1>1 DEF IInv, BooksMatchState, EventsMatchOutcome
<1>6. RailGetsSealedAmount' /\ RowsOK'
  BY <1>1 DEF IInv, RailGetsSealedAmount, RowsOK
<1> QED BY <1>2, <1>3, <1>4, <1>5, <1>6 DEF IInv

(* An edit touches neither the state nor the sealed amount. *)
LEMMA EditStep ==
  ASSUME IInv, NEW s \in Sagas, NEW a \in Amounts, EditRow(s, a)
  PROVE  IInv'
<1> DEFINE r == [state |-> row[s].state, reserve |-> a, wait |-> row[s].wait,
                 attempts |-> row[s].attempts, age |-> row[s].age]
<1>1. /\ UNCHANGED <<anchor, books, outbox, rail, wk, tx, sinceSubmit, faults>>
      /\ row' = [row EXCEPT ![s] = r] /\ edits' \in 0..MaxEdits
  BY ConstantsAssumption DEF EditRow, IInv, TypeOK
<1>2. r \in Row /\ row[s] \in Row
  BY ConstantsAssumption DEF IInv, TypeOK, Row
<1>3. /\ row' \in [Sagas -> Row]
      /\ \A t \in Sagas : /\ row'[t].state = row[t].state
                          /\ row'[t].age = row[t].age
                          /\ row'[t].attempts = row[t].attempts
  BY <1>1, <1>2 DEF IInv, TypeOK
<1>4. TypeOK'
  BY <1>1, <1>3 DEF IInv, TypeOK
<1>5. WorkersOK'
  <2> SUFFICES ASSUME NEW w \in Workers, wk'[w] # Idle
               PROVE  ItemOK(wk[w])'
    BY DEF WorkersOK
  <2>1. wk'[w] = wk[w] /\ wk[w] \in WorkerItem /\ wk[w].id \in Sagas /\ ItemOK(wk[w])
    BY <1>1 DEF IInv, TypeOK, WorkersOK, WorkerItem
  <2> QED BY <1>1, <1>3, <2>1 DEF ItemOK, Forsaken
<1>6. CallersOK'
  <2> SUFFICES ASSUME NEW c \in Callers, tx'[c] # Idle
               PROVE  LoadOK(tx[c])'
    BY DEF CallersOK
  <2>1. tx'[c] = tx[c] /\ tx[c] \in CallerItem /\ tx[c].id \in Sagas /\ LoadOK(tx[c])
    BY <1>1 DEF IInv, TypeOK, CallersOK, CallerItem
  <2> QED BY <1>1, <1>3, <2>1 DEF LoadOK, Forsaken, Anchored
<1>7. BooksMatchState' /\ EventsMatchOutcome' /\ RailGetsSealedAmount' /\ RowsOK'
  BY <1>1, <1>3 DEF IInv, BooksMatchState, EventsMatchOutcome, RailGetsSealedAmount, RowsOK
<1> QED BY <1>4, <1>5, <1>6, <1>7 DEF IInv

(* Time ages rows, copies and the history alike. *)
LEMMA TickStep ==
  ASSUME IInv, Tick
  PROVE  IInv'
<1>1. /\ UNCHANGED <<anchor, books, outbox, rail, tx, faults, edits>>
      /\ row' = [s \in Sagas |-> IF row[s].state = "NONE" THEN row[s]
                                 ELSE Patched(row[s], row[s].state, row[s].attempts,
                                              Sooner(row[s].wait), Older(row[s].age))]
      /\ sinceSubmit' = [s \in Sagas |-> IF row[s].state = "SUBMITTED"
                                         THEN Older(sinceSubmit[s]) ELSE sinceSubmit[s]]
      /\ wk' = [w \in Workers |-> IF wk[w].pc # "check" THEN wk[w]
                                  ELSE [wk[w] EXCEPT !.saga = Aged(@)]]
  BY DEF Tick
<1>2. ASSUME NEW s \in Sagas
      PROVE  /\ row'[s] \in Row /\ row'[s].state = row[s].state
             /\ row'[s].attempts = row[s].attempts
             /\ row[s].state = "SUBMITTED" => row'[s].age = Older(row[s].age)
             /\ sinceSubmit'[s] = IF row[s].state = "SUBMITTED"
                                  THEN Older(sinceSubmit[s]) ELSE sinceSubmit[s]
             /\ sinceSubmit'[s] \in 0..AgeCap
  <2>1. row[s] \in Row /\ sinceSubmit[s] \in 0..AgeCap
    BY DEF IInv, TypeOK
  <2>2. Sooner(row[s].wait) \in Nat
    BY <2>1 DEF Sooner, Row
  <2> QED BY <1>1, <2>1, <2>2, AgeCapFacts DEF Patched, Row
<1>3. ASSUME NEW w \in Workers
      PROVE  /\ wk'[w] \in {Idle} \cup WorkerItem
             /\ wk'[w] # Idle =>
                  /\ wk[w] # Idle /\ wk[w] \in WorkerItem
                  /\ wk'[w].pc = wk[w].pc /\ wk'[w].id = wk[w].id
                  /\ wk'[w].saga.state = wk[w].saga.state
                  /\ wk'[w].saga.attempts = wk[w].saga.attempts
                  /\ wk[w].pc = "check" => wk'[w].saga.age = Older(wk[w].saga.age)
  <2>1. CASE wk[w].pc # "check"
    BY <1>1, <2>1 DEF IInv, TypeOK, WorkerItem
  <2>2. CASE wk[w].pc = "check"
    <3>1. wk[w] \in WorkerItem /\ wk[w].saga \in Copy /\ wk[w] # Idle
      BY <2>2, BusyWorker
    <3>2. wk'[w] = [pc |-> wk[w].pc, id |-> wk[w].id, saga |-> Aged(wk[w].saga),
                    told |-> wk[w].told]
      BY <1>1, <2>2, <3>1 DEF WorkerItem
    <3>3. Aged(wk[w].saga) \in Copy
      BY <3>1, AgeCapFacts DEF Aged, Copy
    <3> QED BY <3>1, <3>2, <3>3 DEF WorkerItem, Aged
  <2> QED BY <2>1, <2>2
<1>4. TypeOK'
  BY <1>1, <1>2, <1>3 DEF IInv, TypeOK, WorkerItem
<1>5. WorkersOK'
  <2> SUFFICES ASSUME NEW w \in Workers, wk'[w] # Idle
               PROVE  ItemOK(wk[w])'
    BY DEF WorkersOK
  <2>1. /\ wk[w].id \in Sagas /\ ItemOK(wk[w]) /\ wk[w].saga \in Copy
        /\ sinceSubmit[wk[w].id] \in 0..AgeCap
    BY <1>3 DEF IInv, TypeOK, WorkersOK, WorkerItem
  <2>2. Forsaken(wk[w].id) => Forsaken(wk[w].id)'
    BY <1>1, <1>2, <2>1, AgeCapFacts DEF Forsaken
  <2>3. wk[w].pc = "check" /\ row[wk[w].id].state = "SUBMITTED"
          => Older(wk[w].saga.age) <= Older(sinceSubmit[wk[w].id])
    BY <2>1, AgeCapFacts DEF ItemOK, Copy
  <2> QED BY <1>1, <1>2, <1>3, <2>1, <2>2, <2>3 DEF ItemOK
<1>6. CallersOK'
  <2> SUFFICES ASSUME NEW c \in Callers, tx'[c] # Idle
               PROVE  LoadOK(tx[c])'
    BY DEF CallersOK
  <2>1. tx'[c] = tx[c] /\ tx[c] \in CallerItem /\ tx[c].id \in Sagas /\ LoadOK(tx[c])
    BY <1>1 DEF IInv, TypeOK, CallersOK, CallerItem
  <2>2. Forsaken(tx[c].id) => Forsaken(tx[c].id)'
    BY <1>1, <1>2, <2>1, AgeCapFacts DEF Forsaken, IInv, TypeOK
  <2> QED BY <1>1, <1>2, <2>1, <2>2 DEF LoadOK, Anchored
<1>7. RowsOK'
  <2> SUFFICES ASSUME NEW s \in Sagas
               PROVE  RowsOK!(s)'
    BY DEF RowsOK
  <2>1. row[s] \in Row /\ sinceSubmit[s] \in 0..AgeCap /\ RowsOK!(s)
    BY DEF IInv, TypeOK, RowsOK
  <2> QED BY <1>1, <1>2, <2>1, AgeCapFacts DEF Row
<1>8. \A s \in Sagas : row'[s].state = row[s].state
  BY <1>2
<1>9. BooksMatchState'
  BY <1>1, <1>8 DEF IInv, BooksMatchState
<1>10. EventsMatchOutcome' /\ RailGetsSealedAmount'
  BY <1>1, <1>8 DEF IInv, EventsMatchOutcome, RailGetsSealedAmount
<1> QED BY <1>4, <1>5, <1>6, <1>7, <1>9, <1>10 DEF IInv

(* Every step of the system keeps the inductive invariant. *)
LEMMA NextIInv == IInv /\ [Next]_vars => IInv'
<1> SUFFICES ASSUME IInv, [Next]_vars PROVE IInv'
  OBVIOUS
<1>1. CASE UNCHANGED vars
  <2>1. OnlyFinish /\ faults' \in 0..MaxFaults
    BY <1>1 DEF vars, OnlyFinish, IInv, TypeOK, WorkerItem, CallerItem
  <2> QED BY <1>1, <2>1, QuietStep DEF vars
<1>2. ASSUME NEW s \in Sagas, NEW a \in Amounts, RequestPayout(s, a) \/ EditRow(s, a)
      PROVE  IInv'
  BY <1>2, RequestStep, EditStep
<1>3. ASSUME NEW w \in Workers, NEW s \in Sagas, ClaimDue(w, s)
      PROVE  IInv'
  BY <1>3, ClaimStep
<1>4. ASSUME NEW w \in Workers, Step(w)
      PROVE  IInv'
  BY <1>4, SubmitAcceptedStep, SubmitFailsStep, SubmitRefusedStep, RecordStep,
     CheckSubmittedStep, RecheckStep, BumpStep, DeadLetterStep
  DEF Step, SubmitStep, CheckStep
<1>5. ASSUME NEW w \in Workers, StoreFault(w) \/ Crash(w)
      PROVE  IInv'
  BY <1>5, StoreFaultStep, CrashStep
<1>6. ASSUME NEW c \in Callers, NEW s \in Sagas, NEW p \in BOOLEAN,
             SettleLoad(c, s) \/ ReverseLoad(c, s, p)
      PROVE  IInv'
  BY <1>6, SettleLoadStep, ReverseLoadStep
<1>7. ASSUME NEW c \in Callers, SettleCommit(c) \/ ReverseCommit(c) \/ Abort(c)
      PROVE  IInv'
  BY <1>7, SettleCommitStep, ReverseCommitStep, AbortStep
<1>8. ASSUME NEW s \in Sagas, RailResolves(s) \/ RailReturns(s)
      PROVE  IInv'
  BY <1>8, RailStep
<1>9. CASE Tick
  BY <1>9, TickStep
<1> QED BY <1>1, <1>2, <1>3, <1>4, <1>5, <1>6, <1>7, <1>8, <1>9 DEF Next

-----------------------------------------------------------------------------
(* The theorems *)

(* Every reachable state satisfies the inductive invariant. *)
THEOREM Invariance == Spec => []IInv
<1> QED BY InitIInv, NextIInv, PTL DEF Spec

(* Every variable keeps its type; in particular no row is ever charged more *)
(* than maxPayoutAttempts.                                                  *)
THEOREM TypeCorrect == Spec => []TypeOK
<1>1. IInv => TypeOK
  BY DEF IInv
<1> QED BY <1>1, Invariance, PTL

(* The postings of every payout are exactly the ones its state stands for:    *)
(* its reserve is released once, by a settle or by a return, whatever races.  *)
THEOREM BooksAlwaysMatch == Spec => []BooksMatchState
<1>1. IInv => BooksMatchState
  BY DEF IInv
<1> QED BY <1>1, Invariance, PTL

(* One event per finished payout, of the kind of its outcome. *)
THEOREM EventsAlwaysMatch == Spec => []EventsMatchOutcome
<1>1. IInv => EventsMatchOutcome
  BY DEF IInv
<1> QED BY <1>1, Invariance, PTL

(* Only sealed amounts reach the rail, and only disbursed payouts settle. *)
THEOREM RailSealed == Spec => []RailGetsSealedAmount
<1>1. IInv => RailGetsSealedAmount
  BY DEF IInv
<1> QED BY <1>1, Invariance, PTL

-----------------------------------------------------------------------------
(* What a step may do to a payout *)

(* The grounds on which a payout that was SUBMITTED may be failed. *)
Grounds(s) ==
  Forsaken(s) \/ \E w \in Workers : wk[w].pc = "giveUp" /\ wk[w].id = s

Silent ==
  /\ books' = books /\ outbox' = outbox
  /\ \A t \in Sagas : \/ row'[t].state = row[t].state
                      \/ row[t].state = "RESERVED" /\ row'[t].state = "SUBMITTED"
Begins == \E s \in Sagas, a \in Amounts : RequestPayout(s, a)
Settles == \E s \in Sagas : row[s].state = "SUBMITTED" /\ Ends(s, "SETTLED")
Fails == \E s \in Sagas : Grounds(s) /\ Ends(s, "FAILED")

(* Any change of one row that keeps its state is silent. *)
LEMMA SilentPatch ==
  ASSUME IInv, NEW s \in Sagas, NEW r, row' = [row EXCEPT ![s] = r],
         \/ r.state = row[s].state
         \/ row[s].state = "RESERVED" /\ r.state = "SUBMITTED",
         books' = books, outbox' = outbox
  PROVE  Silent
  BY DEF Silent, IInv, TypeOK

LEMMA DeadLetterKind ==
  ASSUME IInv, NEW w \in Workers, DeadLetter(w)
  PROVE  Silent \/ Fails
<1>1. wk[w].id \in Sagas /\ wk[w].saga.state \in Open /\ ItemOK(wk[w])
  BY BusyWorker DEF DeadLetter, Copy, IInv, WorkersOK
<1>2. Grounds(wk[w].id)
  BY <1>1 DEF Grounds, DeadLetter, ItemOK
<1>3. CASE FailAndReturn(wk[w].id, wk[w].saga)
  BY <1>1, <1>2, <1>3, FailEnds DEF Fails
<1>4. CASE UNCHANGED <<row, books, outbox>>
  BY <1>4 DEF Silent
<1> QED BY <1>3, <1>4 DEF DeadLetter

LEMMA ReverseKind ==
  ASSUME IInv, NEW c \in Callers, ReverseCommit(c)
  PROVE  Silent \/ Fails
<1>1. tx[c].id \in Sagas /\ tx[c].saga.state \in Open /\ LoadOK(tx[c]) /\ tx[c].pc = "reverse"
  BY BusyCaller DEF ReverseCommit, Loaded, IInv, CallersOK
<1>2. CASE FailAndReturn(tx[c].id, tx[c].saga)
  <2>1. Ends(tx[c].id, "FAILED") /\ row[tx[c].id].state = tx[c].saga.state
    BY <1>1, <1>2, FailEnds
  <2>2. Grounds(tx[c].id)
    BY <1>1, <2>1 DEF Grounds, LoadOK, Forsaken, Open
  <2> QED BY <1>1, <2>1, <2>2 DEF Fails
<1>3. CASE UNCHANGED <<row, books, outbox>>
  BY <1>3 DEF Silent
<1> QED BY <1>2, <1>3 DEF ReverseCommit

(* Every step is silent, opens one payout, or ends one, on one of the grounds. *)
LEMMA StepKind == IInv /\ [Next]_vars => Silent \/ Begins \/ Settles \/ Fails
<1> SUFFICES ASSUME IInv, [Next]_vars PROVE Silent \/ Begins \/ Settles \/ Fails
  OBVIOUS
<1>1. CASE UNCHANGED <<row, books, outbox>>
  BY <1>1 DEF Silent
<1>2. CASE Tick
  <2>1. \A s \in Sagas : row'[s].state = row[s].state
    BY <1>2 DEF Tick, Patched
  <2> QED BY <1>2, <2>1 DEF Silent, Tick
<1>3. ASSUME NEW w \in Workers, RecordSubmitted(w)
      PROVE  Silent
  <2>1. wk[w].id \in Sagas
    BY <1>3, BusyWorker DEF RecordSubmitted
  <2>2. CASE row' = row
    BY <1>3, <2>2 DEF Silent, RecordSubmitted
  <2>3. CASE row' # row
    BY <1>3, <2>1, <2>3, SilentPatch DEF RecordSubmitted, Cas, Patched
  <2> QED BY <2>2, <2>3
<1>4. ASSUME NEW w \in Workers, RecheckLater(w) \/ BumpAttempt(w)
      PROVE  Silent
  <2>1. wk[w].id \in Sagas
    BY <1>4, BusyWorker DEF RecheckLater, BumpAttempt
  <2>2. CASE row' = row
    BY <1>4, <2>2 DEF Silent, RecheckLater, BumpAttempt
  <2>3. CASE RecheckLater(w) /\ row' # row
    BY <2>1, <2>3, SilentPatch DEF RecheckLater, Cas, Patched
  <2>4. CASE BumpAttempt(w) /\ row' # row
    BY <2>1, <2>4, SilentPatch DEF BumpAttempt, Cas, Patched
  <2> QED BY <1>4, <2>2, <2>3, <2>4
<1>5. ASSUME NEW s \in Sagas, NEW a \in Amounts, EditRow(s, a)
      PROVE  Silent
  BY <1>5, SilentPatch DEF EditRow
<1>6. ASSUME NEW c \in Callers, SettleCommit(c), ~UNCHANGED <<row, books, outbox>>
      PROVE  Settles
  BY <1>6, SettleEnds DEF Settles
<1>7. ASSUME NEW w \in Workers, Step(w)
      PROVE  Silent \/ Fails
  <2>1. CASE SubmitStep(w) \/ CheckStep(w)
    BY <2>1 DEF Silent, SubmitStep, SubmitAccepted, SubmitFails, SubmitRefused,
                CheckStep, CheckSubmitted
  <2> QED BY <1>3, <1>4, <1>7, <2>1, DeadLetterKind DEF Step
<1>8. ASSUME NEW c \in Callers, SettleCommit(c) \/ ReverseCommit(c) \/ Abort(c)
      PROVE  Silent \/ Settles \/ Fails
  <2>1. CASE UNCHANGED <<row, books, outbox>>
    BY <2>1 DEF Silent
  <2>2. CASE SettleCommit(c) /\ ~UNCHANGED <<row, books, outbox>>
    BY <1>6, <2>2
  <2>3. CASE ReverseCommit(c)
    BY <2>3, ReverseKind
  <2>4. CASE Abort(c)
    BY <2>4 DEF Silent, Abort
  <2> QED BY <1>8, <2>1, <2>2, <2>3, <2>4
<1>9. ASSUME NEW w \in Workers, StoreFault(w) \/ Crash(w)
      PROVE  Silent
  BY <1>9 DEF Silent, StoreFault, Crash
<1>10. ASSUME NEW w \in Workers, NEW s \in Sagas, ClaimDue(w, s)
       PROVE  Silent
  BY <1>10 DEF Silent, ClaimDue
<1>11. ASSUME NEW c \in Callers, NEW s \in Sagas, NEW p \in BOOLEAN,
              SettleLoad(c, s) \/ ReverseLoad(c, s, p)
       PROVE  Silent
  BY <1>11 DEF Silent, SettleLoad, ReverseLoad, LoadInto
<1>12. ASSUME NEW s \in Sagas, RailResolves(s) \/ RailReturns(s)
       PROVE  Silent
  BY <1>12 DEF Silent, RailResolves, RailReturns
<1>13. CASE UNCHANGED vars
  BY <1>1, <1>13 DEF vars
<1> QED BY <1>2, <1>5, <1>7, <1>8, <1>9, <1>10, <1>11, <1>12, <1>13 DEF Next, Begins

(* A payout passes through its states once and in order. *)
THEOREM OrderKept == Spec => StatesInOrder
<1>1. IInv /\ [Next]_vars => [\A s \in Sagas : row'[s].state \in Later[row[s].state]]_vars
  <2> SUFFICES ASSUME IInv, [Next]_vars, NEW s \in Sagas
               PROVE  row'[s].state \in Later[row[s].state]
    OBVIOUS
  <2>1. row[s].state \in SagaState
    BY DEF IInv, TypeOK, Row
  <2>2. CASE Silent
    BY <2>1, <2>2 DEF Silent, Later, SagaState
  <2>3. CASE Begins
    <3>1. PICK t \in Sagas, a \in Amounts : RequestPayout(t, a)
      BY <2>3 DEF Begins
    <3>2. row'[s].state = IF s = t THEN "RESERVED" ELSE row[s].state
      BY <3>1 DEF RequestPayout, IInv, TypeOK
    <3>3. s = t => row[s].state = "NONE"
      BY <3>1 DEF RequestPayout
    <3> QED BY <2>1, <3>2, <3>3 DEF Later, SagaState
  <2>4. ASSUME NEW t \in Sagas, NEW to \in {"SETTLED", "FAILED"}, Ends(t, to),
               to = "SETTLED" => row[t].state = "SUBMITTED"
        PROVE  row'[s].state \in Later[row[s].state]
    <3>1. row'[s].state = IF s = t THEN to ELSE row[s].state
      BY <2>4 DEF Ends, MoveTo, Patched, IInv, TypeOK
    <3>2. row[t].state \in Open
      BY <2>4 DEF Ends
    <3> QED BY <2>1, <2>4, <3>1, <3>2 DEF Later, SagaState, Open
  <2> QED BY <2>2, <2>3, <2>4, StepKind DEF Settles, Fails
<1> QED BY <1>1, Invariance, PTL DEF Spec, StatesInOrder

(* A SUBMITTED payout is given up only on grounds that hold at that moment. *)
THEOREM SubmittedKept == Spec => LiveSubmittedKept
<1>1. IInv /\ [Next]_vars =>
        [\A s \in Sagas :
           row[s].state = "SUBMITTED" /\ row'[s].state = "FAILED" =>
             \/ rail[s].state \in {"failed", "returned"}
             \/ sinceSubmit[s] > MaxPayoutAge
             \/ \E w \in Workers : wk[w].pc = "giveUp" /\ wk[w].id = s]_vars
  <2> SUFFICES ASSUME IInv, [Next]_vars, NEW s \in Sagas,
                      row[s].state = "SUBMITTED", row'[s].state = "FAILED"
               PROVE  Grounds(s)
    BY DEF Grounds, Forsaken
  <2>1. ~Silent
    BY DEF Silent
  <2>2. ~Begins
    BY DEF Begins, RequestPayout, IInv, TypeOK
  <2>3. ASSUME NEW t \in Sagas, NEW to \in {"SETTLED", "FAILED"}, Ends(t, to)
        PROVE  row'[s].state = IF s = t THEN to ELSE row[s].state
    BY <2>3 DEF Ends, MoveTo, Patched, IInv, TypeOK
  <2> QED BY <2>1, <2>2, <2>3, StepKind DEF Settles, Fails
<1> QED BY <1>1, Invariance, PTL DEF Spec, LiveSubmittedKept

(* The saga machinery implements PayoutContract. *)
THEOREM ContractKept == Spec => KeepsContract
<1>1. Init => Contract!CInit
  BY DEF Init, Contract!CInit, StatusOf, Open
<1>2. IInv /\ [Next]_vars => [Contract!CNext]_(Contract!cvars)
  <2> SUFFICES ASSUME IInv, [Next]_vars
               PROVE  Contract!CNext \/ UNCHANGED Contract!cvars
    BY DEF Contract!cvars
  <2>1. CASE Silent
    BY <2>1 DEF Silent, Contract!cvars, StatusOf, Open
  <2>2. CASE Begins
    <3>1. PICK s \in Sagas, a \in Amounts : RequestPayout(s, a)
      BY <2>2 DEF Begins
    <3>2. /\ row[s].state = "NONE" /\ a \in Nat /\ outbox' = outbox
          /\ books[s] = [earned |-> 0, reserve |-> 0, revenue |-> 0, usd |-> 0]
      BY <3>1, ConstantsAssumption DEF RequestPayout, IInv, BooksMatchState, BooksOf, Open
    <3>3. \A t \in Sagas :
            /\ row'[t].state = IF t = s THEN "RESERVED" ELSE row[t].state
            /\ books'[t] = IF t = s THEN BooksOf("RESERVED", a) ELSE books[t]
      <4>1. Posted(books[s], 0 - a, a, 0, 0) = BooksOf("RESERVED", a)
        BY <3>2 DEF Posted, BooksOf, Open
      <4> QED BY <3>1, <4>1 DEF RequestPayout, PostReserve, IInv, TypeOK
    <3>4. \A t \in Sagas :
            /\ StatusOf(row'[t].state) = IF t = s THEN "open" ELSE StatusOf(row[t].state)
            /\ books'[t].earned = IF t = s THEN 0 - a ELSE books[t].earned
            /\ books'[t].reserve = IF t = s THEN a ELSE books[t].reserve
            /\ books'[t].revenue = books[t].revenue
      BY <3>2, <3>3 DEF StatusOf, BooksOf, Open
    <3>5. StatusOf(row[s].state) = "none"
      BY <3>2 DEF StatusOf, Open
    <3>6. Contract!Request(s, a)
      BY <3>2, <3>4, <3>5 DEF Contract!Request
    <3> QED BY <3>1, <3>6 DEF Contract!CNext
  <2>3. CASE Settles
    <3>1. PICK s \in Sagas : row[s].state = "SUBMITTED" /\ Ends(s, "SETTLED")
      BY <2>3 DEF Settles
    <3>2. /\ row[s].state \in Open /\ anchor[s] \in Nat
          /\ books[s] = BooksOf(row[s].state, anchor[s])
      BY <3>1 DEF Ends, IInv, TypeOK, BooksMatchState
    <3>3. \A t \in Sagas :
            /\ row'[t].state = IF t = s THEN "SETTLED" ELSE row[t].state
            /\ books'[t] = IF t = s THEN BooksOf("SETTLED", anchor[s]) ELSE books[t]
            /\ t # s => outbox'[t] = outbox[t]
            /\ outbox'[s].settled + outbox'[s].reversed = 1
      BY <3>1 DEF Ends, MoveTo, Patched, IInv, TypeOK
    <3>4. \A t \in Sagas :
            /\ StatusOf(row'[t].state) = IF t = s THEN "paid" ELSE StatusOf(row[t].state)
            /\ books'[t].earned = books[t].earned
            /\ books'[t].reserve = IF t = s THEN 0 ELSE books[t].reserve
            /\ books'[t].revenue = IF t = s THEN books[s].reserve ELSE books[t].revenue
            /\ outbox'[t].settled + outbox'[t].reversed =
                 IF t = s THEN 1 ELSE outbox[t].settled + outbox[t].reversed
      BY <3>2, <3>3 DEF StatusOf, BooksOf, Open
    <3>5. StatusOf(row[s].state) = "open"
      BY <3>2 DEF StatusOf, Open
    <3>6. Contract!Pay(s)
      BY <3>4, <3>5 DEF Contract!Pay
    <3> QED BY <3>1, <3>6 DEF Contract!CNext
  <2>4. CASE Fails
    <3>1. PICK s \in Sagas : Ends(s, "FAILED")
      BY <2>4 DEF Fails
    <3>2. /\ row[s].state \in Open /\ anchor[s] \in Nat
          /\ books[s] = BooksOf(row[s].state, anchor[s])
      BY <3>1 DEF Ends, IInv, TypeOK, BooksMatchState
    <3>3. \A t \in Sagas :
            /\ row'[t].state = IF t = s THEN "FAILED" ELSE row[t].state
            /\ books'[t] = IF t = s THEN BooksOf("FAILED", anchor[s]) ELSE books[t]
            /\ t # s => outbox'[t] = outbox[t]
            /\ outbox'[s].settled + outbox'[s].reversed = 1
      BY <3>1 DEF Ends, MoveTo, Patched, IInv, TypeOK
    <3>4. \A t \in Sagas :
            /\ StatusOf(row'[t].state) = IF t = s THEN "returned" ELSE StatusOf(row[t].state)
            /\ books'[t].earned = IF t = s THEN 0 ELSE books[t].earned
            /\ books'[t].reserve = IF t = s THEN 0 ELSE books[t].reserve
            /\ books'[t].revenue = books[t].revenue
            /\ outbox'[t].settled + outbox'[t].reversed =
                 IF t = s THEN 1 ELSE outbox[t].settled + outbox[t].reversed
      BY <3>2, <3>3 DEF StatusOf, BooksOf, Open
    <3>5. StatusOf(row[s].state) = "open"
      BY <3>2 DEF StatusOf, Open
    <3>6. Contract!GiveBack(s)
      BY <3>4, <3>5 DEF Contract!GiveBack
    <3> QED BY <3>1, <3>6 DEF Contract!CNext
  <2> QED BY <2>1, <2>2, <2>3, <2>4, StepKind
<1> QED BY <1>1, <1>2, Invariance, PTL DEF Spec, KeepsContract, Contract!CSpec

-----------------------------------------------------------------------------
(* The balances *)

Earned == [s \in Sagas |-> books[s].earned]
Held == [s \in Sagas |-> books[s].reserve]
OpenSagas == {s \in Sagas : row[s].state \in Open}

(* The values that are summed are integers, over finitely many payouts. *)
LEMMA SummedOK ==
  ASSUME TypeOK
  PROVE  /\ Ints(Earned, Sagas) /\ Ints(Held, Sagas) /\ Ints(anchor, Sagas)
         /\ \A u : IsFiniteSet(SagasOf(u)) /\ Ints(Earned, SagasOf(u))
  BY FinitelyManySagas, FS_Subset DEF TypeOK, Ints, Earned, Held, SagasOf

(* What the open payouts hold is what their sealed amounts add up to: each    *)
(* closed payout holds nothing.                                               *)
LEMMA ReserveIsBacked ==
  ASSUME TypeOK, BooksMatchState
  PROVE  ReserveBalance = Total(anchor, OpenSagas)
<1> DEFINE closed == Sagas \ OpenSagas
<1>1. /\ OpenSagas \subseteq Sagas /\ Sagas = OpenSagas \cup closed
      /\ OpenSagas \cap closed = {}
  BY DEF OpenSagas
<1>2. IsFiniteSet(OpenSagas) /\ IsFiniteSet(closed)
  BY <1>1, FinitelyManySagas, FS_Subset
<1>3. Ints(Held, OpenSagas) /\ Ints(Held, closed)
  BY <1>1, SummedOK DEF Ints
<1>0. \A s \in Sagas : books[s].reserve = IF row[s].state \in Open THEN anchor[s] ELSE 0
  <2> SUFFICES ASSUME NEW s \in Sagas
               PROVE  books[s].reserve = IF row[s].state \in Open THEN anchor[s] ELSE 0
    OBVIOUS
  <2>1. books[s] = BooksOf(row[s].state, anchor[s])
    BY DEF BooksMatchState
  <2> QED BY <2>1 DEF BooksOf
<1>4. \A s \in OpenSagas : Held[s] = anchor[s]
  BY <1>0 DEF OpenSagas, Held
<1>5. \A s \in closed : Held[s] = 0
  BY <1>0 DEF OpenSagas, Held
<1>6. Total(Held, OpenSagas) = Total(anchor, OpenSagas)
  BY <1>2, <1>4, TotalSame
<1>7. Total(Held, closed) = 0
  BY <1>2, <1>5, TotalZero
<1>8. Total(Held, Sagas) = Total(Held, OpenSagas) + Total(Held, closed)
  BY <1>1, <1>2, <1>3, TotalUnion
<1>9. Total(Held, OpenSagas) \in Int
  BY <1>2, <1>3, TotalType
<1> QED BY <1>6, <1>7, <1>8, <1>9 DEF ReserveBalance, Held

NobodyOverdrawn == \A u \in Users : EarnedBalance(u) >= 0

(* A step takes nothing from a seller's postings, or is the seller's request. *)
LEMMA EarnedStep ==
  ASSUME IInv, [Next]_vars, NEW t \in Sagas, books'[t].earned < books[t].earned
  PROVE  \E a \in Amounts : RequestPayout(t, a)
<1>1. ~Silent
  BY DEF Silent, IInv, TypeOK
<1>2. ASSUME NEW s \in Sagas, NEW to \in {"SETTLED", "FAILED"}, Ends(s, to)
      PROVE  FALSE
  <2>1. /\ books'[t] = IF t = s THEN BooksOf(to, anchor[s]) ELSE books[t]
        /\ books[t] = BooksOf(row[t].state, anchor[t]) /\ anchor[t] \in Nat
        /\ row[s].state \in Open
    BY <1>2 DEF Ends, IInv, TypeOK, BooksMatchState
  <2> QED BY <1>2, <2>1 DEF BooksOf, Open
<1>3. PICK s \in Sagas, a \in Amounts : RequestPayout(s, a)
  BY <1>1, <1>2, StepKind DEF Settles, Fails, Begins
<1>4. t = s
  BY <1>3 DEF RequestPayout, PostReserve, IInv, TypeOK
<1> QED BY <1>3, <1>4

(* The balance the handler checks under the seller's lock covers the amount   *)
(* it takes, and no other step takes anything.                                *)
LEMMA OverdrawnStep ==
  ASSUME IInv, NobodyOverdrawn, [Next]_vars, IInv'
  PROVE  NobodyOverdrawn'
<1> SUFFICES ASSUME NEW u \in Users
             PROVE  EarnedAtStart + Total(Earned', SagasOf(u)) >= 0
  BY DEF NobodyOverdrawn, EarnedBalance, Earned, SagasOf
<1>1. /\ IsFiniteSet(SagasOf(u)) /\ SagasOf(u) \subseteq Sagas
      /\ Ints(Earned, SagasOf(u)) /\ Ints(Earned', SagasOf(u))
  BY SummedOK DEF IInv, Ints, Earned, TypeOK, SagasOf
<1>2. EarnedAtStart + Total(Earned, SagasOf(u)) >= 0 /\ EarnedAtStart \in Nat
  BY ConstantsAssumption DEF NobodyOverdrawn, EarnedBalance, Earned
<1>3. Total(Earned, SagasOf(u)) \in Int /\ Total(Earned', SagasOf(u)) \in Int
  BY <1>1, TotalType
<1>4. CASE \A t \in SagasOf(u) : Earned[t] <= (Earned')[t]
  <2>1. Total(Earned, SagasOf(u)) <= Total(Earned', SagasOf(u))
    BY <1>1, <1>4, TotalLeq
  <2> QED BY <1>2, <1>3, <2>1
<1>5. CASE \E t \in SagasOf(u) : ~(Earned[t] <= (Earned')[t])
  <2>1. PICK s \in SagasOf(u), a \in Amounts : RequestPayout(s, a)
    <3>1. PICK t \in SagasOf(u) : ~(Earned[t] <= (Earned')[t])
      BY <1>5
    <3>2. t \in Sagas /\ Earned[t] = books[t].earned /\ (Earned')[t] = books'[t].earned
      BY DEF Earned, SagasOf
    <3>3. books[t].earned \in Int /\ books'[t].earned \in Int
      BY <3>2 DEF IInv, TypeOK
    <3>4. books'[t].earned < books[t].earned
      BY <3>1, <3>2, <3>3
    <3> QED BY <3>2, <3>4, EarnedStep
  <2>2. /\ s \in Sagas /\ Owner[s] = u /\ EarnedBalance(u) >= a /\ a \in Nat
    BY <2>1, ConstantsAssumption DEF SagasOf, RequestPayout
  <2>3. (Earned')[s] = Earned[s] - a
    BY <2>1, <2>2 DEF RequestPayout, PostReserve, Posted, IInv, TypeOK, Earned
  <2>4. \A t \in SagasOf(u) \ {s} : Earned[t] = (Earned')[t]
    BY <2>1 DEF RequestPayout, PostReserve, IInv, TypeOK, Earned, SagasOf
  <2>5. Total(Earned', SagasOf(u)) = Total(Earned, SagasOf(u)) - Earned[s] + (Earned')[s]
    BY <1>1, <2>4, TotalChange
  <2>6. Earned[s] \in Int
    BY <1>1 DEF Ints
  <2> QED BY <1>2, <1>3, <2>2, <2>3, <2>5, <2>6 DEF EarnedBalance, Earned
<1> QED BY <1>4, <1>5

LEMMA InitNobodyOverdrawn == Init => NobodyOverdrawn
<1> SUFFICES ASSUME Init, NEW u \in Users PROVE EarnedBalance(u) >= 0
  BY DEF NobodyOverdrawn
<1>1. IsFiniteSet(SagasOf(u)) /\ \A s \in SagasOf(u) : Earned[s] = 0
  BY FinitelyManySagas, FS_Subset DEF Init, Earned, SagasOf
<1>2. Total(Earned, SagasOf(u)) = 0
  BY <1>1, TotalZero
<1> QED BY <1>2, ConstantsAssumption DEF EarnedBalance, Earned

(* PAYOUT_RESERVE holds exactly what the open payouts reserved, and no seller *)
(* is overdrawn by concurrent requests.                                       *)
THEOREM ReserveBacked == Spec => []ReserveBacksOpenPayouts
<1>1. Spec => []NobodyOverdrawn
  <2>1. IInv /\ IInv' /\ NobodyOverdrawn /\ [Next]_vars => NobodyOverdrawn'
    BY OverdrawnStep
  <2> QED BY <2>1, InitNobodyOverdrawn, Invariance, PTL DEF Spec
<1>2. IInv /\ NobodyOverdrawn => ReserveBacksOpenPayouts
  BY ReserveIsBacked DEF IInv, ReserveBacksOpenPayouts, NobodyOverdrawn, OpenSagas
<1> QED BY <1>1, <1>2, Invariance, PTL
=============================================================================
