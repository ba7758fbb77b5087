----------------------------- MODULE PayoutSaga -----------------------------
(***************************************************************************)
(* The payout saga: a seller's earned credits move into PAYOUT_RESERVE when *)
(* a payout is requested, the worker's sweep hands the disbursement to an   *)
(* external rail, and the reserve is released once: into REVENUE when the   *)
(* rail settles, or back to the seller when the payout fails.               *)
(*                                                                          *)
(* Processes.  A worker is one claimed saga of one sweep: sweeps overlap,   *)
(* because claimDue is an autocommit statement whose row locks are gone     *)
(* before the batch is worked on.  Each worker therefore acts on a COPY of  *)
(* the row, and the only protection of the row is the compare-and-set of    *)
(* sagas.advance.  A caller is one submitted settlePayout or reversePayout: *)
(* its transaction loads the row in one step and writes in a later one, and *)
(* the autocommit advances of a worker fall in between.                     *)
(*                                                                          *)
(* Time is relative: wait is dueAt - now (0 when due) and age is            *)
(* now - updatedAt, capped at AgeCap, past every threshold the code         *)
(* compares it with, so the clock needs no bound.                           *)
(***************************************************************************)
EXTENDS Integers, Sums

CONSTANTS
  Sagas,              \* payout ids, each opened at most once
  Users,              \* sellers
  Workers,            \* claimed items of overlapping sweeps
  Callers,            \* concurrent settlePayout / reversePayout transactions
  Owner,              \* the seller of each saga
  Amounts,            \* the amounts a request may name
  EarnedAtStart,      \* every seller's matured earned balance
  PayoutMinimum,      \* config.payoutMinimumEarnedMinor
  MinInterval,        \* config.payoutMinIntervalMs
  PendingSla,         \* config.payoutSla.PENDING
  SubmittedSla,       \* config.payoutSla.SUBMITTED
  MaxPayoutAge,       \* config.maxPayoutAgeMs
  MaxPayoutAttempts,  \* config.maxPayoutAttempts
  RateNum, RateDen,   \* the payout rate, USD per credit
  HasProbe,           \* whether the processor offers payoutStatus
  MaxFaults,          \* bound: crashes, aborts and store faults
  MaxEdits            \* bound: out-of-band edits of a saga row

ASSUME ConstantsAssumption ==
  /\ Owner \in [Sagas -> Users]
  /\ Amounts \subseteq Nat \ {0}
  /\ EarnedAtStart \in Nat /\ PayoutMinimum \in Nat
  /\ MinInterval \in Nat /\ PendingSla \in Nat /\ SubmittedSla \in Nat
  /\ MaxPayoutAge \in Nat /\ MaxPayoutAttempts \in Nat \ {0}
  /\ RateNum \in Nat /\ RateDen \in Nat \ {0}
  /\ HasProbe \in BOOLEAN
  /\ MaxFaults \in Nat /\ MaxEdits \in Nat

(* A balance is the sum of finitely many postings. *)
ASSUME FinitelyManySagas == IsFiniteSet(Sagas)

VARIABLES
  row,         \* payout_sagas: the stored rows
  anchor,      \* the amount sealed in each saga's hashed reserve posting
  books,       \* net effect of the postings tagged with each sagaId
  outbox,      \* payout events enqueued for each saga
  rail,        \* the external payout rail
  wk,          \* the workers
  tx,          \* the callers
  sinceSubmit, \* history: time since the row entered SUBMITTED
  faults, edits

vars == <<row, anchor, books, outbox, rail, wk, tx, sinceSubmit, faults, edits>>

-----------------------------------------------------------------------------
(* State *)

AgeCap == IF MinInterval > MaxPayoutAge THEN MinInterval ELSE MaxPayoutAge + 1
Older(age) == IF age < AgeCap THEN age + 1 ELSE age
Sooner(wait) == IF wait > 0 THEN wait - 1 ELSE wait

SagaState == {"NONE", "RESERVED", "SUBMITTED", "SETTLED", "FAILED"}
Open == {"RESERVED", "SUBMITTED"}
RailState == {"none", "pending", "settled", "failed", "returned"}

Verdict == {"unknown", "pending", "settled", "failed", "returned"}

Row == [state : SagaState, reserve : Nat, attempts : 0..MaxPayoutAttempts,
        wait : Nat, age : 0..AgeCap]
Copy == [state : Open, reserve : Nat, attempts : 0..MaxPayoutAttempts,
         age : 0..AgeCap]
CopyOf(s) == [state |-> row[s].state, reserve |-> row[s].reserve,
              attempts |-> row[s].attempts, age |-> row[s].age]
Loaded == [state : Open, reserve : Nat]
LoadOf(s) == [state |-> row[s].state, reserve |-> row[s].reserve]

WorkerStep == {"submit", "record", "check", "recheck", "defer", "deadLetter",
               "bump", "giveUp"}
CallerStep == {"settle", "reverse"}
Idle == [pc |-> "idle"]

TypeOK ==
  /\ row \in [Sagas -> Row]
  /\ anchor \in [Sagas -> Nat]
  /\ books \in [Sagas -> [earned : Int, reserve : Int, revenue : Int, usd : Int]]
  /\ outbox \in [Sagas -> [settled : Nat, reversed : Nat]]
  /\ rail \in [Sagas -> [state : RailState, amount : Nat]]
  /\ wk \in [Workers -> {Idle} \cup
                       [pc : WorkerStep, id : Sagas, saga : Copy, told : Verdict]]
  /\ tx \in [Callers -> {Idle} \cup [pc : CallerStep, id : Sagas, saga : Loaded]]
  /\ sinceSubmit \in [Sagas -> 0..AgeCap]
  /\ faults \in 0..MaxFaults /\ edits \in 0..MaxEdits

(* The stored balances the code reads, from the postings of every saga. *)
SagasOf(u) == {s \in Sagas : Owner[s] = u}
EarnedBalance(u) ==
  EarnedAtStart + Total([s \in Sagas |-> books[s].earned], SagasOf(u))
ReserveBalance == Total([s \in Sagas |-> books[s].reserve], Sagas)

(* The USD quote sealed with the reserve: floor conversion at the payout rate. *)
Quote(a) == (a * RateNum) \div RateDen

(* assertSagaAnchored: the copy acted on re-derives from its reserve posting. *)
Anchored(s, saga) == saga.reserve = anchor[s]

(* sagas.advance applies only while the row is still in the expected state. *)
Cas(s, from) == row[s].state = from

(* ledger.postEntry refuses a posting that overdraws a guarded account. *)
NoOverdraft(a) == ReserveBalance >= a

Init ==
  /\ row = [s \in Sagas |-> [state |-> "NONE", reserve |-> 0, attempts |-> 0,
                             wait |-> 0, age |-> 0]]
  /\ anchor = [s \in Sagas |-> 0]
  /\ books = [s \in Sagas |-> [earned |-> 0, reserve |-> 0, revenue |-> 0, usd |-> 0]]
  /\ outbox = [s \in Sagas |-> [settled |-> 0, reversed |-> 0]]
  /\ rail = [s \in Sagas |-> [state |-> "none", amount |-> 0]]
  /\ wk = [w \in Workers |-> Idle]
  /\ tx = [c \in Callers |-> Idle]
  /\ sinceSubmit = [s \in Sagas |-> 0]
  /\ faults = 0 /\ edits = 0

-----------------------------------------------------------------------------
(* Postings, events and the row change they commit with *)

Posted(b, earned, reserve, revenue, usd) ==
  [earned |-> b.earned + earned, reserve |-> b.reserve + reserve,
   revenue |-> b.revenue + revenue, usd |-> b.usd + usd]
PostReserve(s, a) == books' = [books EXCEPT ![s] = Posted(@, 0 - a, a, 0, 0)]
PostSettlement(s, a) == books' = [books EXCEPT ![s] = Posted(@, 0, 0 - a, a, Quote(a))]
PostReturn(s, a) == books' = [books EXCEPT ![s] = Posted(@, a, 0 - a, 0, 0)]

(* The patch of sagas.advance: what it does not name stays as stored. *)
Patched(r, state, attempts, wait, age) ==
  [state |-> state, reserve |-> r.reserve, attempts |-> attempts,
   wait |-> wait, age |-> age]
MoveTo(s, state) ==
  row' = [row EXCEPT ![s] = Patched(@, state, @.attempts, @.wait, 0)]

Announce(s, settled, reversed) ==
  outbox' = [outbox EXCEPT ![s] = [settled |-> @.settled + settled,
                                   reversed |-> @.reversed + reversed]]

(* Slips a change to the undo could introduce: no compare-and-set, no anchor *)
(* check, no row change.                                                     *)
FailAndReturnNoCas(s, saga) ==
  /\ Anchored(s, saga) /\ NoOverdraft(saga.reserve)
  /\ MoveTo(s, "FAILED") /\ PostReturn(s, saga.reserve) /\ Announce(s, 0, 1)
FailAndReturnUnproved(s, saga) ==
  /\ Cas(s, saga.state) /\ NoOverdraft(saga.reserve)
  /\ MoveTo(s, "FAILED") /\ PostReturn(s, saga.reserve) /\ Announce(s, 0, 1)
FailAndReturnRowKept(s, saga) ==
  /\ Cas(s, saga.state) /\ Anchored(s, saga) /\ NoOverdraft(saga.reserve)
  /\ PostReturn(s, saga.reserve) /\ Announce(s, 0, 1) /\ UNCHANGED row

(* The undo shared by the worker's dead letter and reversePayout: row, *)
(* posting and event commit in one transaction.                        *)
FailAndReturn(s, saga) ==
  /\ Cas(s, saga.state)
  /\ Anchored(s, saga)
  /\ NoOverdraft(saga.reserve)
  /\ MoveTo(s, "FAILED")
  /\ PostReturn(s, saga.reserve)
  /\ Announce(s, 0, 1)

-----------------------------------------------------------------------------
(* requestPayout.  The submit pipeline locks the seller's earned account      *)
(* before the handler reads, so requests of one seller are serialized and the *)
(* handler is one step.  A refused request changes nothing and is no step;    *)
(* the payee, accrual-debt and maturity gates only refuse more requests.      *)

TooSoon(u) ==
  \E o \in SagasOf(u) : row[o].state # "NONE" /\ row[o].age < MinInterval

RequestPayout(s, a) ==
  /\ row[s].state = "NONE"
  /\ a >= PayoutMinimum
  /\ ~TooSoon(Owner[s])
  /\ EarnedBalance(Owner[s]) >= a
  /\ row' = [row EXCEPT ![s] = [state |-> "RESERVED", reserve |-> a,
                                attempts |-> 0, wait |-> PendingSla, age |-> 0]]
  /\ anchor' = [anchor EXCEPT ![s] = a]
  /\ PostReserve(s, a)
  /\ UNCHANGED <<outbox, rail, wk, tx, sinceSubmit, faults, edits>>

-----------------------------------------------------------------------------
(* The worker's payout sweep *)

At(item, pc, told) == [pc |-> pc, id |-> item.id, saga |-> item.saga, told |-> told]
Goto(w, pc) == wk' = [wk EXCEPT ![w] = At(@, pc, @.told)]
Finish(w) == wk' = [wk EXCEPT ![w] = Idle]

(* claimDue hands out copies of due open rows; several sweeps may get one row. *)
ClaimDue(w, s) ==
  /\ wk[w] = Idle
  /\ row[s].state \in Open
  /\ row[s].wait = 0
  /\ wk' = [wk EXCEPT ![w] =
       [pc |-> IF row[s].state = "RESERVED" THEN "submit" ELSE "check",
        id |-> s, saga |-> CopyOf(s), told |-> "unknown"]]
  /\ UNCHANGED <<row, anchor, books, outbox, rail, tx, sinceSubmit, faults, edits>>

(* Slip: the attempt limit compared with the count before this attempt. *)
OnErrorLate(saga, retryable) ==
  IF retryable /\ saga.attempts < MaxPayoutAttempts THEN "bump" ELSE "giveUp"

(* The error boundary of advanceOne: where a throwing step goes next. *)
OnError(saga, retryable) ==
  IF retryable /\ saga.attempts + 1 < MaxPayoutAttempts THEN "bump" ELSE "giveUp"

(* processor.submitPayout is keyed by the saga id: the rail takes it up once. *)
HandToRail(s, a) ==
  rail' = IF rail[s].state = "none"
          THEN [rail EXCEPT ![s] = [state |-> "pending", amount |-> a]]
          ELSE rail

(* Slip: the row goes to the rail without its anchor check. *)
SubmitUnproved(w) ==
  /\ wk[w].pc = "submit"
  /\ HandToRail(wk[w].id, wk[w].saga.reserve)
  /\ Goto(w, "record")
  /\ UNCHANGED <<row, anchor, books, outbox, tx, sinceSubmit, faults, edits>>

SubmitAccepted(w) ==
  /\ wk[w].pc = "submit"
  /\ Anchored(wk[w].id, wk[w].saga)
  /\ HandToRail(wk[w].id, wk[w].saga.reserve)
  /\ Goto(w, "record")
  /\ UNCHANGED <<row, anchor, books, outbox, tx, sinceSubmit, faults, edits>>

(* The provider call throws; the rail may have taken the payout up anyway. *)
SubmitFails(w, takenUp, retryable) ==
  /\ wk[w].pc = "submit"
  /\ Anchored(wk[w].id, wk[w].saga)
  /\ IF takenUp THEN HandToRail(wk[w].id, wk[w].saga.reserve) ELSE UNCHANGED rail
  /\ Goto(w, OnError(wk[w].saga, retryable))
  /\ UNCHANGED <<row, anchor, books, outbox, tx, sinceSubmit, faults, edits>>

(* An unverifiable row is refused before the provider is called. *)
SubmitRefused(w) ==
  /\ wk[w].pc = "submit"
  /\ ~Anchored(wk[w].id, wk[w].saga)
  /\ Goto(w, OnError(wk[w].saga, FALSE))
  /\ UNCHANGED <<row, anchor, books, outbox, rail, tx, sinceSubmit, faults, edits>>

(* The compare-and-set after the provider call; its result is not looked at. *)
RecordSubmitted(w) ==
  /\ wk[w].pc = "record"
  /\ LET s == wk[w].id IN
       \/ /\ Cas(s, "RESERVED")
          /\ row' = [row EXCEPT ![s] = Patched(@, "SUBMITTED", wk[w].saga.attempts + 1,
                                               SubmittedSla, 0)]
          /\ sinceSubmit' = [sinceSubmit EXCEPT ![s] = 0]
       \/ /\ ~Cas(s, "RESERVED")
          /\ UNCHANGED <<row, sinceSubmit>>
  /\ Finish(w)
  /\ UNCHANGED <<anchor, books, outbox, rail, tx, faults, edits>>

(* Slip: without the provider's word the sweep waits, whatever the age. *)
AfterVerdictNoTimeout(verdict, aged) ==
  CASE verdict \in {"failed", "returned"} -> "deadLetter"
    [] verdict = "settled"                -> "recheck"
    [] verdict = "pending"                -> IF aged THEN "defer" ELSE "recheck"
    [] OTHER                              -> "idle"

(* What the sweep does with a SUBMITTED copy, by the provider's verdict. *)
AfterVerdict(verdict, aged) ==
  CASE verdict \in {"failed", "returned"} -> "deadLetter"
    [] verdict = "settled"                -> "recheck"
    [] verdict = "pending"                -> IF aged THEN "defer" ELSE "recheck"
    [] OTHER                              -> IF aged THEN "deadLetter" ELSE "idle"

(* A probe answers with the rail's state, or fails; without one no evidence. *)
Answers(s) == {"unknown"} \cup IF HasProbe THEN {rail[s].state} ELSE {}

CheckSubmitted(w, verdict) ==
  /\ wk[w].pc = "check"
  /\ verdict \in Answers(wk[w].id)
  /\ LET next == AfterVerdict(verdict, wk[w].saga.age > MaxPayoutAge) IN
       IF next = "idle" THEN Finish(w)
       ELSE wk' = [wk EXCEPT ![w] = At(@, next, verdict)]
  /\ UNCHANGED <<row, anchor, books, outbox, rail, tx, sinceSubmit, faults, edits>>

(* recheckLater reschedules; the PENDING deferral also refreshes updatedAt. *)
RecheckLater(w) ==
  /\ wk[w].pc \in {"recheck", "defer"}
  /\ LET s == wk[w].id IN
       \/ /\ Cas(s, "SUBMITTED")
          /\ row' = [row EXCEPT ![s] = Patched(@, "SUBMITTED", @.attempts, SubmittedSla,
                                               IF wk[w].pc = "defer" THEN 0 ELSE @.age)]
       \/ ~Cas(s, "SUBMITTED") /\ UNCHANGED row
  /\ Finish(w)
  /\ UNCHANGED <<anchor, books, outbox, rail, tx, sinceSubmit, faults, edits>>

BumpAttempt(w) ==
  /\ wk[w].pc = "bump"
  /\ LET s == wk[w].id IN
       \/ /\ Cas(s, wk[w].saga.state)
          /\ row' = [row EXCEPT ![s] = Patched(@, @.state, wk[w].saga.attempts + 1,
                                               @.wait, 0)]
       \/ ~Cas(s, wk[w].saga.state) /\ UNCHANGED row
  /\ Finish(w)
  /\ UNCHANGED <<anchor, books, outbox, rail, tx, sinceSubmit, faults, edits>>

(* deadLetter, from checkSubmitted or from the error boundary.  A lost       *)
(* compare-and-set leaves the books to the actor that won; a refused posting *)
(* ends in the boundary's own dead letter, and there it wedges the saga      *)
(* where it stands.                                                          *)
Refused(s, saga) ==
  ~Anchored(s, saga) \/ (Cas(s, saga.state) /\ ~NoOverdraft(saga.reserve))

(* Slip: the event is queued although another actor finished the saga. *)
DeadLetterAlwaysTells(w) ==
  /\ wk[w].pc \in {"deadLetter", "giveUp"}
  /\ LET s == wk[w].id
         saga == wk[w].saga
     IN \/ FailAndReturn(s, saga)
        \/ ~Cas(s, saga.state) /\ Announce(s, 0, 1) /\ UNCHANGED <<row, books>>
  /\ Finish(w)
  /\ UNCHANGED <<anchor, rail, tx, sinceSubmit, faults, edits>>

DeadLetter(w) ==
  /\ wk[w].pc \in {"deadLetter", "giveUp"}
  /\ LET s == wk[w].id
         saga == wk[w].saga
     IN \/ FailAndReturn(s, saga) /\ Finish(w)
        \/ /\ Anchored(s, saga) /\ ~Cas(s, saga.state)
           /\ Finish(w) /\ UNCHANGED <<row, books, outbox>>
        \/ /\ Refused(s, saga)
           /\ IF wk[w].pc = "deadLetter" THEN Goto(w, OnError(saga, FALSE)) ELSE Finish(w)
           /\ UNCHANGED <<row, books, outbox>>
  /\ UNCHANGED <<anchor, rail, tx, sinceSubmit, faults, edits>>

(* A store call throws: inside the boundary it is retryable, inside the      *)
(* boundary's own dead letter or bump it ends the item.                      *)
StoreFault(w) ==
  /\ faults < MaxFaults
  /\ faults' = faults + 1
  /\ \/ /\ wk[w].pc \in {"record", "recheck", "defer", "deadLetter"}
        /\ Goto(w, OnError(wk[w].saga, TRUE))
     \/ /\ wk[w].pc \in {"bump", "giveUp"}
        /\ Finish(w)
  /\ UNCHANGED <<row, anchor, books, outbox, rail, tx, sinceSubmit, edits>>

(* The process dies between two steps; its copy is gone, the row stays. *)
Crash(w) ==
  /\ wk[w] # Idle
  /\ faults < MaxFaults
  /\ faults' = faults + 1
  /\ Finish(w)
  /\ UNCHANGED <<row, anchor, books, outbox, rail, tx, sinceSubmit, edits>>

-----------------------------------------------------------------------------
(* settlePayout and reversePayout: load, then compare-and-set and post.       *)
(* A load that is refused, or answered duplicate, changes nothing.            *)

LoadInto(c, pc, s) ==
  /\ tx[c] = Idle
  /\ tx' = [tx EXCEPT ![c] = [pc |-> pc, id |-> s, saga |-> LoadOf(s)]]
  /\ UNCHANGED <<row, anchor, books, outbox, rail, wk, sinceSubmit, faults, edits>>
Leave(c) == tx' = [tx EXCEPT ![c] = Idle]

(* The rail reports a settlement it made, any number of times and late. *)
SettleLoad(c, s) ==
  /\ rail[s].state \in {"settled", "returned"}
  /\ row[s].state = "SUBMITTED"
  /\ Anchored(s, row[s])
  /\ LoadInto(c, "settle", s)

SettleCommit(c) ==
  /\ tx[c].pc = "settle"
  /\ LET s == tx[c].id
         saga == tx[c].saga
     IN \/ /\ Cas(s, "SUBMITTED")
           /\ NoOverdraft(saga.reserve)
           /\ PostSettlement(s, saga.reserve)
           /\ MoveTo(s, "SETTLED")
           /\ Announce(s, 1, 0)
        \/ /\ ~(Cas(s, "SUBMITTED") /\ NoOverdraft(saga.reserve))
           /\ UNCHANGED <<row, books, outbox>>
  /\ Leave(c)
  /\ UNCHANGED <<anchor, rail, wk, sinceSubmit, faults, edits>>

(* Slip: the window closes one instant too early. *)
MayReverseEarly(s, providerReported) ==
  \/ providerReported
  \/ row[s].state = "RESERVED"
  \/ row[s].age >= MaxPayoutAge

(* refuseLiveSubmitted: only the rail's own report waives the age gate. *)
MayReverse(s, providerReported) ==
  \/ providerReported
  \/ row[s].state = "RESERVED"
  \/ row[s].age > MaxPayoutAge

ReverseLoad(c, s, providerReported) ==
  /\ providerReported => rail[s].state \in {"failed", "returned"}
  /\ row[s].state \in Open
  /\ MayReverse(s, providerReported)
  /\ LoadInto(c, "reverse", s)

ReverseCommit(c) ==
  /\ tx[c].pc = "reverse"
  /\ LET s == tx[c].id
         saga == tx[c].saga
     IN \/ FailAndReturn(s, saga)
        \/ /\ ~Cas(s, saga.state) \/ Refused(s, saga)
           /\ UNCHANGED <<row, books, outbox>>
  /\ Leave(c)
  /\ UNCHANGED <<anchor, rail, wk, sinceSubmit, faults, edits>>

(* The transaction is rolled back: a deadlock victim, a lost connection. *)
Abort(c) ==
  /\ tx[c] # Idle
  /\ faults < MaxFaults
  /\ faults' = faults + 1
  /\ Leave(c)
  /\ UNCHANGED <<row, anchor, books, outbox, rail, wk, sinceSubmit, edits>>

-----------------------------------------------------------------------------
(* The environment: the rail, the clock, and whoever can edit the table *)

RailResolves(s) ==
  /\ rail[s].state = "pending"
  /\ \E to \in {"settled", "failed"} :
       rail' = [rail EXCEPT ![s] = [state |-> to, amount |-> @.amount]]
  /\ UNCHANGED <<row, anchor, books, outbox, wk, tx, sinceSubmit, faults, edits>>

RailReturns(s) ==
  /\ rail[s].state = "settled"
  /\ rail' = [rail EXCEPT ![s] = [state |-> "returned", amount |-> @.amount]]
  /\ UNCHANGED <<row, anchor, books, outbox, wk, tx, sinceSubmit, faults, edits>>

Aged(saga) == [state |-> saga.state, reserve |-> saga.reserve,
               attempts |-> saga.attempts, age |-> Older(saga.age)]

Tick ==
  /\ row' = [s \in Sagas |-> IF row[s].state = "NONE" THEN row[s]
                             ELSE Patched(row[s], row[s].state, row[s].attempts,
                                          Sooner(row[s].wait), Older(row[s].age))]
  /\ sinceSubmit' = [s \in Sagas |-> IF row[s].state = "SUBMITTED"
                                     THEN Older(sinceSubmit[s]) ELSE sinceSubmit[s]]
  /\ wk' = [w \in Workers |-> IF wk[w].pc # "check" THEN wk[w]
                              ELSE [wk[w] EXCEPT !.saga = Aged(@)]]
  /\ UNCHANGED <<anchor, books, outbox, rail, tx, faults, edits>>

EditRow(s, a) ==
  /\ edits < MaxEdits
  /\ row[s].state \in Open
  /\ row' = [row EXCEPT ![s] = [state |-> @.state, reserve |-> a, wait |-> @.wait,
                                attempts |-> @.attempts, age |-> @.age]]
  /\ edits' = edits + 1
  /\ UNCHANGED <<anchor, books, outbox, rail, wk, tx, sinceSubmit, faults>>

-----------------------------------------------------------------------------
SubmitStep(w) ==
  \/ SubmitAccepted(w)
  \/ \E takenUp, retryable \in BOOLEAN : SubmitFails(w, takenUp, retryable)
  \/ SubmitRefused(w)
CheckStep(w) == \E verdict \in Verdict : CheckSubmitted(w, verdict)
Step(w) ==
  \/ SubmitStep(w) \/ RecordSubmitted(w) \/ CheckStep(w) \/ RecheckLater(w)
  \/ BumpAttempt(w) \/ DeadLetter(w)

Next ==
  \/ \E s \in Sagas, a \in Amounts : RequestPayout(s, a)
  \/ \E w \in Workers, s \in Sagas : ClaimDue(w, s)
  \/ \E w \in Workers : Step(w) \/ StoreFault(w) \/ Crash(w)
  \/ \E c \in Callers, s \in Sagas : SettleLoad(c, s)
  \/ \E c \in Callers, s \in Sagas, p \in BOOLEAN : ReverseLoad(c, s, p)
  \/ \E c \in Callers : SettleCommit(c) \/ ReverseCommit(c) \/ Abort(c)
  \/ \E s \in Sagas : RailResolves(s) \/ RailReturns(s)
  \/ \E s \in Sagas, a \in Amounts : EditRow(s, a)
  \/ Tick

Spec == Init /\ [][Next]_vars

(* Fairness, for liveness only.  The sweep runs on a schedule, so a due saga   *)
(* is claimed again and again and a claimed one is worked to its end; the rail *)
(* answers and repeats its report until it is applied; a submitted transaction *)
(* ends.  No fairness on crashes, faults, failing provider calls, operators    *)
(* or the probe's answers.                                                     *)
Fairness ==
  /\ \A s \in Sagas : SF_vars(\E w \in Workers : ClaimDue(w, s))
  /\ \A w \in Workers : WF_vars(Step(w))
  /\ \A s \in Sagas : WF_vars(RailResolves(s))
  /\ \A s \in Sagas : SF_vars(\E c \in Callers : SettleLoad(c, s))
  /\ \A c \in Callers : WF_vars(SettleCommit(c) \/ ReverseCommit(c))
  /\ WF_vars(Tick)

FairSpec == Spec /\ Fairness

-----------------------------------------------------------------------------
(* Properties *)

(* The postings of a payout are exactly the ones its state stands for: the    *)
(* sealed amount is held once while the row is RESERVED or SUBMITTED, went to *)
(* REVENUE with its USD quote once if SETTLED, is back with the seller once   *)
(* if FAILED - whichever of a late settle, an operator's reverse, a dead      *)
(* letter on a stale copy and a second sweep won the compare-and-set.         *)
BooksOf(state, a) ==
  [earned  |-> IF state \in {"RESERVED", "SUBMITTED", "SETTLED"} THEN 0 - a ELSE 0,
   reserve |-> IF state \in Open THEN a ELSE 0,
   revenue |-> IF state = "SETTLED" THEN a ELSE 0,
   usd     |-> IF state = "SETTLED" THEN Quote(a) ELSE 0]
BooksMatchState == \A s \in Sagas : books[s] = BooksOf(row[s].state, anchor[s])

(* PAYOUT_RESERVE holds exactly what the open payouts reserved, and no seller *)
(* was overdrawn by concurrent requests.                                      *)
ReserveBacksOpenPayouts ==
  /\ ReserveBalance = Total(anchor, {s \in Sagas : row[s].state \in Open})
  /\ \A u \in Users : EarnedBalance(u) >= 0

(* One payout event per finished payout, of the kind of its outcome, and none *)
(* while it is open: the event commits with the row and the posting.          *)
EventsMatchOutcome ==
  \A s \in Sagas :
    outbox[s] = [settled  |-> IF row[s].state = "SETTLED" THEN 1 ELSE 0,
                 reversed |-> IF row[s].state = "FAILED" THEN 1 ELSE 0]

(* The rail only ever gets the amount sealed at request time, and a payout is *)
(* booked as settled only for an amount the rail did disburse: an edited row  *)
(* moves no money, whenever the edit happens.                                 *)
RailGetsSealedAmount ==
  \A s \in Sagas :
    /\ rail[s].state # "none" => rail[s].amount = anchor[s]
    /\ row[s].state = "SUBMITTED" => rail[s].state # "none"
    /\ row[s].state = "SETTLED" => /\ rail[s].state \in {"settled", "returned"}
                                   /\ books[s].usd = Quote(rail[s].amount)

(* A payout passes through its states once and in order, and a finished one  *)
(* never moves again: no stale copy, retry or late report revives it.        *)
Later ==
  [NONE |-> {"NONE", "RESERVED"}, RESERVED |-> {"RESERVED", "SUBMITTED", "FAILED"},
   SUBMITTED |-> {"SUBMITTED", "SETTLED", "FAILED"},
   SETTLED |-> {"SETTLED"}, FAILED |-> {"FAILED"}]
StatesInOrder ==
  [][\A s \in Sagas : row'[s].state \in Later[row[s].state]]_vars

(* A SUBMITTED payout is given up only when the rail itself gave it up, when  *)
(* maxPayoutAgeMs has passed since it was submitted, or when a sweep's error  *)
(* boundary ran out of attempts: not on a copy from before, not by an         *)
(* operator inside the settlement window.                                     *)
LiveSubmittedKept ==
  [][\A s \in Sagas :
       row[s].state = "SUBMITTED" /\ row'[s].state = "FAILED" =>
         \/ rail[s].state \in {"failed", "returned"}
         \/ sinceSubmit[s] > MaxPayoutAge
         \/ \E w \in Workers : wk[w].pc = "giveUp" /\ wk[w].id = s]_vars

(* The saga machinery implements the contract of a payout: seen through the   *)
(* status its state stands for and through its postings and events, every     *)
(* step of a sweep, a callback or an operator is a step of PayoutContract or  *)
(* changes nothing there.  FinishContract adds the contract's progress: every *)
(* payout is finished in the end, through crashes, faults and overlapping     *)
(* sweeps, for the retry budget and the rail's reports leave none stuck.      *)
StatusOf(state) ==
  CASE state \in Open    -> "open"
    [] state = "SETTLED" -> "paid"
    [] state = "FAILED"  -> "returned"
    [] OTHER             -> "none"
Contract == INSTANCE PayoutContract WITH
  status    <- [s \in Sagas |-> StatusOf(row[s].state)],
  seller    <- [s \in Sagas |-> books[s].earned],
  held      <- [s \in Sagas |-> books[s].reserve],
  platform  <- [s \in Sagas |-> books[s].revenue],
  announced <- [s \in Sagas |-> outbox[s].settled + outbox[s].reversed]
KeepsContract == Contract!CSpec
FinishContract == Contract!CProgress

-----------------------------------------------------------------------------
(* What comments and docs say of this code, and the code does not keep *)

(* reversePayout.ts: "RESERVED is not gated; it was never handed to the       *)
(* provider."  A sweep between its provider call and its compare-and-set, or  *)
(* one whose call failed after the rail took the payout up, leaves a RESERVED *)
(* row behind a live disbursement.                                            *)
ReservedNotHandedOver ==
  \A s \in Sagas : row[s].state = "RESERVED" => rail[s].state = "none"

(* payout-saga.mdx: "a reported SETTLED blocks the force-fail".  When the      *)
(* reschedule that answers SETTLED meets a store fault and the attempts are    *)
(* used up, the error boundary dead-letters the disbursed payout.              *)
SettledBlocksForceFail ==
  [][\A w \in Workers :
       wk[w] # Idle /\ wk[w].told = "settled" /\ wk'[w] = Idle =>
         ~(row[wk[w].id].state # "FAILED" /\ row'[wk[w].id].state = "FAILED")]_vars

(* payouts.ts: a PENDING answer past the timeout defers it "by refreshing      *)
(* updatedAt".  The compare-and-set of a dead letter or a reversal looks at    *)
(* the state only, so one that read the row before the deferral still fails    *)
(* the live disbursement after it.                                             *)
DeferralRespected ==
  [][\A s \in Sagas :
       row[s].state = "SUBMITTED" /\ row'[s].state = "FAILED" /\ rail[s].state = "pending" =>
         row[s].age > MaxPayoutAge]_vars
=============================================================================
