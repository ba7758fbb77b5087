---------------------------- MODULE Queues_proofs ----------------------------
(***************************************************************************)
(* The two queues of the worker.  The inbox: a row marked applied stands    *)
(* for exactly one posting and stays applied, and its attempts pass their   *)
(* cap by no more than the overlapping drains, for any sets of events,      *)
(* requests and drains and any limits.  The outbox: a relayed event was     *)
(* delivered, a dead one was tried out, and both stay what they are, for    *)
(* any number of events and overlapping relays.                             *)
(***************************************************************************)
EXTENDS Inbox, OutboxRelay, FiniteSetTheorems, TLAPS

-----------------------------------------------------------------------------
(* The inbox. *)

Entry == [status : Status, attempts : Nat]
Call == [pc : {"handle"}, event : Events]
Batch == [pc : DrainStep, entry : Copy, rest : SUBSET Copy]

Shape ==
  /\ row \in [Events -> Entry]
  /\ posts \in [Events -> {0, 1}]
  /\ request \in [Requests -> {Idle} \cup Call]
  /\ drain \in [Drains -> {Idle} \cup Batch]

(* What a drain relies on between submit's answer and its mark: by then the  *)
(* row may have been marked, failed or revived by others.                    *)
MarksArePosted ==
  \A d \in Drains : drain[d].pc = "markApplied" => posts[drain[d].entry.event] = 1

IInv == Shape /\ MarksArePosted /\ AppliedIsReal

-----------------------------------------------------------------------------
(* Going to the next entry of a batch keeps the drains in shape and marks none. *)
LEMMA WorkOn ==
  ASSUME NEW d \in Drains, NEW batch \in SUBSET Copy,
         drain \in [Drains -> {Idle} \cup Batch], Work(d, batch)
  PROVE  /\ drain' \in [Drains -> {Idle} \cup Batch]
         /\ drain'[d].pc # "markApplied"
         /\ \A o \in Drains : o # d => drain'[o] = drain[o]
<1>1. CASE drain' = [drain EXCEPT ![d] = Idle]
  BY <1>1 DEF Idle
<1>2. ASSUME NEW c \in batch,
             drain' = [drain EXCEPT ![d] = [pc |-> "submit", entry |-> c, rest |-> batch \ {c}]]
      PROVE  /\ drain' \in [Drains -> {Idle} \cup Batch]
             /\ drain'[d].pc # "markApplied"
             /\ \A o \in Drains : o # d => drain'[o] = drain[o]
  <2>1. [pc |-> "submit", entry |-> c, rest |-> batch \ {c}] \in Batch
    BY DEF Batch, DrainStep
  <2> QED BY <1>2, <2>1
<1> QED BY <1>1, <1>2 DEF Work

(* A drain at work is no idle one and has an entry. *)
LEMMA AtWork ==
  ASSUME NEW d \in Drains, drain \in [Drains -> {Idle} \cup Batch], drain[d].pc \in DrainStep
  PROVE  /\ drain[d] \in Batch
         /\ drain[d].entry.event \in Events
         /\ drain[d].entry.attempts \in Nat
         /\ drain[d].rest \in SUBSET Copy
BY DEF Idle, Batch, Copy, DrainStep

(* A step of a drain to another step keeps the drains in shape. *)
LEMMA GoOn ==
  ASSUME NEW d \in Drains, NEW pc \in DrainStep,
         drain \in [Drains -> {Idle} \cup Batch], drain[d] \in Batch, Goto(d, pc)
  PROVE  /\ drain' \in [Drains -> {Idle} \cup Batch]
         /\ drain'[d].pc = pc /\ drain'[d].entry = drain[d].entry
         /\ \A o \in Drains : o # d => drain'[o] = drain[o]
<1>1. [drain[d] EXCEPT !.pc = pc] \in Batch
  BY DEF Batch
<1> QED BY <1>1 DEF Goto, Batch

-----------------------------------------------------------------------------
(* The invariant holds of the empty inbox. *)
LEMMA InitInv == Init => IInv
BY DEF Init, IInv, Shape, MarksArePosted, AppliedIsReal, Entry, Status, Idle

(* The webhook route adds pending rows only. *)
LEMMA EdgeStep ==
  ASSUME IInv, NEW e \in Events,
         Record(e) \/ UNCHANGED row,
         request' \in [Requests -> {Idle} \cup Call],
         UNCHANGED <<posts, drain>>
  PROVE  IInv'
<1> USE DEF IInv
<1>1. row' \in [Events -> Entry]
  BY DEF Shape, Record, Entry, Status
<1>2. \A f \in Events : row'[f].status = "applied" => row[f].status = "applied"
  BY DEF Shape, Record, Entry
<1> QED BY <1>1, <1>2 DEF Shape, MarksArePosted, AppliedIsReal

(* The webhook route keeps the invariant. *)
LEMMA RouteStep ==
  ASSUME IInv,
         \/ \E r \in Requests, e \in Events : ReplayGate(r, e)
         \/ \E r \in Requests : HandleWebhook(r) \/ RequestFails(r)
         \/ \E e \in Events : HandleDirectly(e)
  PROVE  IInv'
<1> USE DEF IInv
<1>1. ASSUME NEW r \in Requests, NEW e \in Events, ReplayGate(r, e)
      PROVE  IInv'
  <2>1. request' \in [Requests -> {Idle} \cup Call]
    BY <1>1 DEF ReplayGate, Shape, Call
  <2> QED BY <1>1, <2>1, EdgeStep DEF ReplayGate
<1>2. ASSUME NEW r \in Requests, HandleWebhook(r)
      PROVE  IInv'
  <2>1. request[r].event \in Events
    BY <1>2 DEF HandleWebhook, Shape, Idle, Call
  <2>2. request' \in [Requests -> {Idle} \cup Call]
    BY <1>2 DEF HandleWebhook, Close, Shape
  <2> QED BY <1>2, <2>1, <2>2, EdgeStep DEF HandleWebhook
<1>3. ASSUME NEW r \in Requests, RequestFails(r)
      PROVE  IInv'
  <2>1. request[r].event \in Events
    BY <1>3 DEF RequestFails, Shape, Call
  <2>2. request' \in [Requests -> {Idle} \cup Call]
    BY <1>3 DEF RequestFails, Close, Shape
  <2> QED BY <1>3, <2>1, <2>2, EdgeStep DEF RequestFails
<1>4. ASSUME NEW e \in Events, HandleDirectly(e)
      PROVE  IInv'
  BY <1>4, EdgeStep DEF HandleDirectly, Shape
<1> QED BY <1>1, <1>2, <1>3, <1>4

(* An answer of submit leaves the rows alone and takes no posting back. *)
LEMMA AnswerStep ==
  ASSUME IInv, NEW d \in Drains, Submit(d)
  PROVE  IInv'
<1> USE DEF IInv
<1>0. drain[d].pc = "submit"
  BY DEF Submit, SubmitApplies, SubmitDeclines, SubmitThrows
<1>1. drain[d] \in Batch /\ drain[d].entry.event \in Events
  BY <1>0, AtWork DEF Shape, DrainStep
<1>2. /\ posts' \in [Events -> {0, 1}] /\ UNCHANGED <<row, request>>
      /\ \A e \in Events : posts[e] = 1 => posts'[e] = 1
  BY <1>1 DEF Submit, SubmitApplies, SubmitDeclines, SubmitThrows, Shape, edge
<1>3. PICK pc \in DrainStep :
        Goto(d, pc) /\ (pc = "markApplied" => posts'[drain[d].entry.event] = 1)
  <2>1. CASE SubmitApplies(d)
    BY <1>1, <2>1 DEF SubmitApplies, DrainStep, Shape
  <2>2. CASE SubmitDeclines(d)
    BY <2>2 DEF SubmitDeclines, DrainStep
  <2>3. ASSUME NEW retryable \in BOOLEAN, NEW landed \in BOOLEAN, SubmitThrows(d, retryable, landed)
        PROVE  \E pc \in DrainStep : Goto(d, pc) /\ pc # "markApplied"
    BY <2>3 DEF SubmitThrows, OnFailure, DrainStep
  <2> QED BY <2>1, <2>2, <2>3 DEF Submit
<1>4. /\ drain' \in [Drains -> {Idle} \cup Batch]
      /\ drain'[d].pc = pc /\ drain'[d].entry = drain[d].entry
      /\ \A o \in Drains : o # d => drain'[o] = drain[o]
  BY <1>1, <1>3, GoOn DEF Shape
<1>5. \A o \in Drains : drain[o].pc = "markApplied" => drain[o].entry.event \in Events
  BY AtWork DEF Shape, DrainStep
<1>6. MarksArePosted'
  BY <1>2, <1>3, <1>4, <1>5 DEF MarksArePosted
<1> QED BY <1>2, <1>4, <1>6 DEF Shape, AppliedIsReal

(* A write of a drain, then the next entry. *)
LEMMA WriteStep ==
  ASSUME IInv, NEW d \in Drains, MarkApplied(d) \/ BumpAttempt(d) \/ DeadLetter(d)
  PROVE  IInv'
<1> USE DEF IInv
<1> DEFINE e == drain[d].entry.event
<1>1. e \in Events /\ drain[d].rest \in SUBSET Copy
  BY AtWork DEF MarkApplied, BumpAttempt, DeadLetter, DrainStep, Shape
<1>2. /\ drain' \in [Drains -> {Idle} \cup Batch]
      /\ drain'[d].pc # "markApplied"
      /\ \A o \in Drains : o # d => drain'[o] = drain[o]
  BY <1>1, WorkOn DEF MarkApplied, BumpAttempt, DeadLetter, NextEntry, Shape
<1>3. UNCHANGED <<posts, request>>
  BY DEF MarkApplied, BumpAttempt, DeadLetter, edge
<1>4. /\ row' \in [Events -> Entry]
      /\ \A f \in Events : row'[f].status = "applied" =>
           row[f].status = "applied" \/ (f = e /\ drain[d].pc = "markApplied")
  BY <1>1 DEF MarkApplied, BumpAttempt, DeadLetter, Update, Shape, Entry, Status
<1> QED BY <1>1, <1>2, <1>3, <1>4 DEF Shape, MarksArePosted, AppliedIsReal

(* Every step keeps it. *)
LEMMA NextInv == IInv /\ [Next]_vars => IInv'
<1> SUFFICES ASSUME IInv, [Next]_vars PROVE IInv'
  OBVIOUS
<1>1. CASE UNCHANGED vars
  BY <1>1 DEF IInv, Shape, MarksArePosted, AppliedIsReal, vars
<1>2. CASE \/ \E r \in Requests, e \in Events : ReplayGate(r, e)
           \/ \E r \in Requests : HandleWebhook(r) \/ RequestFails(r)
           \/ \E e \in Events : HandleDirectly(e)
  BY <1>2, RouteStep
<1>3. ASSUME NEW d \in Drains, Claim(d) PROVE IInv'
  <2>1. PICK n \in 1..Limit : ClaimInbound(d, n)
    BY <1>3 DEF Claim
  <2>2. {[event |-> e, attempts |-> row[e].attempts] : e \in Oldest("pending", n)} \in SUBSET Copy
    <3>1. Oldest("pending", n) \subseteq Events
      BY DEF Oldest
    <3>2. \A e \in Events : [event |-> e, attempts |-> row[e].attempts] \in Copy
      BY DEF Copy, IInv, Shape, Entry
    <3> QED BY <3>1, <3>2
  <2>3. /\ drain' \in [Drains -> {Idle} \cup Batch]
        /\ drain'[d].pc # "markApplied"
        /\ \A o \in Drains : o # d => drain'[o] = drain[o]
    BY <2>1, <2>2, WorkOn DEF ClaimInbound, IInv, Shape
  <2> QED BY <2>1, <2>3 DEF ClaimInbound, edge, IInv, Shape, MarksArePosted, AppliedIsReal
<1>4. ASSUME NEW d \in Drains, DrainStepOf(d) PROVE IInv'
  BY <1>4, AnswerStep, WriteStep DEF DrainStepOf
<1>5. ASSUME NEW d \in Drains, DrainDies(d) PROVE IInv'
  BY <1>5 DEF DrainDies, edge, Idle, IInv, Shape, MarksArePosted, AppliedIsReal
<1>6. CASE SupervisorActs
  <2>1. /\ row' \in [Events -> Entry]
        /\ \A e \in Events : row'[e].status = "applied" => row[e].status = "applied"
    BY <1>6 DEF SupervisorActs, Revived, IInv, Shape, Entry, Status
  <2> QED BY <1>6, <2>1 DEF SupervisorActs, edge, IInv, Shape, MarksArePosted, AppliedIsReal
<1>7. CASE \E e \in Events : TurnAway(e)
  BY <1>1, <1>7 DEF TurnAway
<1> QED BY <1>1, <1>2, <1>3, <1>4, <1>5, <1>6, <1>7 DEF Next

(* So it holds in every reachable state. *)
LEMMA Invariant == Spec => []IInv
BY InitInv, NextInv, PTL DEF Spec

-----------------------------------------------------------------------------
(* A row marked applied stands for exactly one posting (applyOne). *)
THEOREM AppliedAlwaysReal == Spec => []AppliedIsReal
<1>1. IInv => AppliedIsReal
  BY DEF IInv
<1> QED BY <1>1, Invariant, PTL

(* No step of an actor with an old copy, and no revival, undoes an applied row *)
(* (the status guards of the inbox store).                                     *)
LEMMA AppliedStays ==
  IInv /\ [Next]_vars => \A e \in Events : row[e].status = "applied" => row'[e].status = "applied"
<1> SUFFICES ASSUME IInv, [Next]_vars, NEW e \in Events, row[e].status = "applied"
             PROVE  row'[e].status = "applied"
  OBVIOUS
<1>0. row \in [Events -> Entry]
  BY DEF IInv, Shape
<1>1. ASSUME NEW f \in Events, Record(f) PROVE row'[e].status = "applied"
  BY <1>0, <1>1 DEF Record, Entry
<1>2. ASSUME NEW r \in Requests, HandleWebhook(r) PROVE row'[e].status = "applied"
  <2>1. request[r].event \in Events
    BY <1>2 DEF HandleWebhook, IInv, Shape, Idle, Call
  <2> QED BY <1>1, <1>2, <2>1 DEF HandleWebhook
<1>3. ASSUME NEW d \in Drains, MarkApplied(d) \/ BumpAttempt(d) \/ DeadLetter(d)
      PROVE  row'[e].status = "applied"
  BY <1>0, <1>3 DEF MarkApplied, BumpAttempt, DeadLetter, Update, Entry
<1>4. CASE SupervisorActs
  <2>1. e \notin Oldest("dead", ReviveLimit)
    BY DEF Oldest
  <2> QED BY <1>0, <1>4, <2>1 DEF SupervisorActs, Revived
<1>5. CASE UNCHANGED row
  BY <1>5
<1>6. ASSUME NEW d \in Drains, Claim(d) \/ Submit(d) \/ DrainDies(d) PROVE UNCHANGED row
  BY <1>6 DEF Claim, ClaimInbound, Submit, SubmitApplies, SubmitDeclines, SubmitThrows, DrainDies
<1>7. ASSUME NEW r \in Requests, NEW f \in Events, ReplayGate(r, f) PROVE UNCHANGED row
  BY <1>7 DEF ReplayGate
<1>8. ASSUME NEW r \in Requests, RequestFails(r) PROVE UNCHANGED row
  BY <1>8 DEF RequestFails
<1>9. ASSUME NEW f \in Events, TurnAway(f) \/ HandleDirectly(f)
      PROVE  UNCHANGED row \/ Record(f)
  BY <1>9 DEF TurnAway, HandleDirectly, vars
<1>10. CASE UNCHANGED vars
  BY <1>10 DEF vars
<1> QED BY <1>1, <1>2, <1>3, <1>4, <1>5, <1>6, <1>7, <1>8, <1>9, <1>10 DEF Next, DrainStepOf

(* An applied row stays applied. *)
THEOREM AppliedAlwaysFinal == Spec => AppliedIsFinal
BY Invariant, AppliedStays, PTL DEF Spec, AppliedIsFinal

-----------------------------------------------------------------------------
(* How far the attempts of a row go.  A drain bumps a row once for the copy *)
(* it holds, and only a copy two below the cap is ever bumped: so a row's   *)
(* attempts and the drains that may still bump it share one budget.         *)
HeldIn(b) == IF b = Idle THEN {} ELSE {b.entry} \cup b.rest
Bumps(c) == c.attempts + 1 < MaxInboxAttempts
Bumpers(e) == {d \in Drains : \E c \in HeldIn(drain[d]) : c.event = e /\ Bumps(c)}

(* A batch holds one copy of an event, and bumps only a copy it may bump. *)
OneCopy(b) ==
  b # Idle =>
    /\ b.entry \notin b.rest
    /\ \A x, y \in {b.entry} \cup b.rest : x.event = y.event => x = y
    /\ b.pc = "bumpAttempt" => Bumps(b.entry)

OnceEach == \A d \in Drains : OneCopy(drain[d])
Capped == \A e \in Events : row[e].attempts + Cardinality(Bumpers(e)) <= MostAttempts

Ranges ==
  /\ gated \in BOOLEAN
  /\ seen \subseteq Events
  /\ received \in [Events -> 0..Cardinality(Events)]
  /\ signals \in 0..Threshold /\ revives \in 0..MaxActionAttempts
  /\ faults \in 0..MaxFaults

TInv == IInv /\ OnceEach /\ Capped /\ Ranges

(* The drains are counted by a number, and fewer count less. *)
LEMMA FewerBumpers ==
  ASSUME InboxAssumption, NEW B, B \subseteq Drains, NEW C, C \subseteq B
  PROVE  /\ Cardinality(C) \in Nat /\ Cardinality(B) \in Nat /\ Cardinality(Drains) \in Nat
         /\ Cardinality(C) <= Cardinality(B) /\ Cardinality(B) <= Cardinality(Drains)
         /\ Cardinality(Drains) >= 1
         /\ \A d \in B : d \notin C => Cardinality(C) + 1 <= Cardinality(B)
<1>1. IsFiniteSet(Drains) /\ Drains # {}
  BY DEF InboxAssumption
<1>2. IsFiniteSet(B) /\ IsFiniteSet(C)
  BY <1>1, FS_Subset
<1>3. /\ Cardinality(C) \in Nat /\ Cardinality(B) \in Nat /\ Cardinality(Drains) \in Nat
  BY <1>1, <1>2, FS_CardinalityType
<1>4. Cardinality(C) <= Cardinality(B) /\ Cardinality(B) <= Cardinality(Drains)
  BY <1>1, <1>2, FS_Subset
<1>5. Cardinality(Drains) # 0
  BY <1>1, FS_EmptySet
<1>6. ASSUME NEW d \in B, d \notin C PROVE Cardinality(C) + 1 <= Cardinality(B)
  <2>1. C \cup {d} \subseteq B
    BY <1>6
  <2>2. Cardinality(C \cup {d}) = Cardinality(C) + 1
    BY <1>2, <1>6, FS_AddElement
  <2>3. Cardinality(C \cup {d}) <= Cardinality(B)
    BY <1>2, <2>1, FS_Subset
  <2> QED BY <2>2, <2>3
<1> QED BY <1>3, <1>4, <1>5, <1>6

(* A row that loses its bumpers, gains none, or loses one for an attempt. *)
LEMMA RowCapped ==
  ASSUME InboxAssumption, NEW m \in Nat, NEW n \in Nat,
         NEW B, B \subseteq Drains, NEW C, C \subseteq Drains,
         m + Cardinality(B) <= MostAttempts,
         \/ C \subseteq B /\ n <= m
         \/ n + 1 < MaxInboxAttempts
         \/ n = m + 1 /\ C \subseteq B /\ \E d \in B : d \notin C
  PROVE  n + Cardinality(C) <= MostAttempts
<1>1. /\ Cardinality(C) \in Nat /\ Cardinality(B) \in Nat /\ Cardinality(Drains) \in Nat
      /\ Cardinality(C) <= Cardinality(Drains)
  BY FewerBumpers
<1>2. MaxInboxAttempts \in Nat
  BY DEF InboxAssumption
<1>3. CASE C \subseteq B /\ n <= m
  <2>1. Cardinality(C) <= Cardinality(B)
    BY <1>3, FewerBumpers
  <2> QED BY <1>1, <1>2, <1>3, <2>1 DEF MostAttempts
<1>4. CASE n + 1 < MaxInboxAttempts
  BY <1>1, <1>2, <1>4 DEF MostAttempts
<1>5. CASE n = m + 1 /\ C \subseteq B /\ \E d \in B : d \notin C
  <2>1. Cardinality(C) + 1 <= Cardinality(B)
    BY <1>5, FewerBumpers
  <2> QED BY <1>1, <1>2, <1>5, <2>1 DEF MostAttempts
<1> QED BY <1>3, <1>4, <1>5

(* A drain that moves alone: the others bump what they did. *)
LEMMA OthersBump ==
  ASSUME NEW d \in Drains, \A o \in Drains : o # d => drain'[o] = drain[o], NEW e
  PROVE  /\ Bumpers(e)' \subseteq Bumpers(e) \cup {d}
         /\ HeldIn(drain'[d]) \subseteq HeldIn(drain[d]) => Bumpers(e)' \subseteq Bumpers(e)
<1>1. ASSUME NEW o \in Bumpers(e)', o # d PROVE o \in Bumpers(e)
  BY <1>1 DEF Bumpers, Bumps
<1>2. ASSUME HeldIn(drain'[d]) \subseteq HeldIn(drain[d]), d \in Bumpers(e)'
      PROVE  d \in Bumpers(e)
  BY <1>2 DEF Bumpers, Bumps
<1> QED BY <1>1, <1>2

(* The next entry of a batch: the drain holds the batch. *)
LEMMA WorkHolds ==
  ASSUME IInv, NEW d \in Drains, NEW batch \in SUBSET Copy, Work(d, batch),
         \A x, y \in batch : x.event = y.event => x = y
  PROVE  /\ HeldIn(drain'[d]) = batch /\ OneCopy(drain'[d])
         /\ \A o \in Drains : o # d => drain'[o] = drain[o]
<1>1. drain \in [Drains -> {Idle} \cup Batch]
  BY DEF IInv, Shape
<1>2. CASE batch = {} /\ drain' = [drain EXCEPT ![d] = Idle]
  BY <1>1, <1>2 DEF HeldIn, OneCopy
<1>3. ASSUME NEW c \in batch,
             drain' = [drain EXCEPT ![d] = [pc |-> "submit", entry |-> c, rest |-> batch \ {c}]]
      PROVE  /\ HeldIn(drain'[d]) = batch /\ OneCopy(drain'[d])
             /\ \A o \in Drains : o # d => drain'[o] = drain[o]
  <2>1. drain'[d] = [pc |-> "submit", entry |-> c, rest |-> batch \ {c}]
    BY <1>1, <1>3
  <2>2. drain'[d] # Idle /\ drain'[d].pc = "submit" /\ drain'[d].entry = c
        /\ drain'[d].rest = batch \ {c}
    BY <2>1 DEF Idle
  <2>3. {c} \cup (batch \ {c}) = batch
    OBVIOUS
  <2>4. HeldIn(drain'[d]) = batch
    BY <2>2, <2>3 DEF HeldIn
  <2>5. OneCopy(drain'[d])
    BY <2>2, <2>3 DEF OneCopy
  <2> QED BY <1>1, <1>3, <2>4, <2>5
<1> QED BY <1>2, <1>3 DEF Work

(* A step that leaves every drain what it held, or less, and bumps no row. *)
LEMMA QuietStep ==
  ASSUME InboxAssumption, TInv, IInv',
         \A e \in Events : row'[e].attempts <= row[e].attempts,
         \A e \in Events : Bumpers(e)' \subseteq Bumpers(e)
  PROVE  Capped'
<1>1. SUFFICES ASSUME NEW e \in Events
               PROVE  row'[e].attempts + Cardinality(Bumpers(e)') <= MostAttempts
  BY DEF Capped
<1>2. row[e].attempts \in Nat /\ row'[e].attempts \in Nat
  BY DEF TInv, IInv, Shape, Entry
<1>3. Bumpers(e) \subseteq Drains /\ Bumpers(e)' \subseteq Drains
  BY DEF Bumpers
<1>4. row[e].attempts + Cardinality(Bumpers(e)) <= MostAttempts
  BY DEF TInv, Capped
<1>5. PICK B, C : B = Bumpers(e) /\ C = Bumpers(e)'
  OBVIOUS
<1> QED BY <1>2, <1>3, <1>4, <1>5, RowCapped

(* The first budget of each row is whole. *)
LEMMA CappedInit ==
  ASSUME InboxAssumption, Init
  PROVE  TInv
<1>1. IInv
  BY InitInv
<1>2. ASSUME NEW e \in Events PROVE row[e].attempts + Cardinality(Bumpers(e)) <= MostAttempts
  <2>1. row[e].attempts = 0
    BY DEF Init
  <2>2. Bumpers(e) = {}
    BY DEF Init, Bumpers, HeldIn
  <2>3. Cardinality(Bumpers(e)) = 0
    BY <2>2, FS_EmptySet
  <2>4. Cardinality(Drains) \in Nat /\ Cardinality(Drains) >= 1
    BY <2>2, FewerBumpers DEF Bumpers
  <2>5. MaxInboxAttempts \in Nat /\ MaxInboxAttempts >= 1
    BY DEF InboxAssumption
  <2> QED BY <2>1, <2>3, <2>4, <2>5 DEF MostAttempts
<1>3. OnceEach
  BY DEF Init, OnceEach, OneCopy
<1>4. Ranges
  <2>1. Cardinality(Events) \in Nat
    BY FS_CardinalityType DEF InboxAssumption
  <2>2. 0 \in 0..Cardinality(Events)
    BY <2>1
  <2> QED BY <2>2 DEF Init, Ranges, InboxAssumption
<1> QED BY <1>1, <1>2, <1>3, <1>4 DEF TInv, Capped

(* A row inserted keeps its attempts; its rank is below the events' number. *)
LEMMA RecordRanges ==
  ASSUME InboxAssumption, TInv, NEW e \in Events, Record(e)
  PROVE  /\ received' \in [Events -> 0..Cardinality(Events)]
         /\ \A f \in Events : row'[f].attempts = row[f].attempts
<1>1. Cardinality(Rows) \in 0..Cardinality(Events)
  <2>1. Rows \subseteq Events /\ IsFiniteSet(Events)
    BY DEF Rows, InboxAssumption
  <2>2. /\ Cardinality(Rows) \in Nat /\ Cardinality(Events) \in Nat
        /\ Cardinality(Rows) <= Cardinality(Events)
    BY <2>1, FS_Subset, FS_CardinalityType
  <2> QED BY <2>2
<1>2. received' \in [Events -> 0..Cardinality(Events)]
  BY <1>1 DEF Record, TInv, Ranges
<1>3. row \in [Events -> Entry]
  BY DEF TInv, IInv, Shape
<1> QED BY <1>2, <1>3 DEF Record, Entry

(* The webhook route bumps nothing. *)
LEMMA RouteCapped ==
  ASSUME InboxAssumption, TInv, IInv',
         \/ \E r \in Requests, e \in Events : ReplayGate(r, e)
         \/ \E r \in Requests : HandleWebhook(r) \/ RequestFails(r)
         \/ \E e \in Events : HandleDirectly(e)
  PROVE  TInv'
<1>1. /\ gated' = gated /\ UNCHANGED <<drain, signals, revives>>
      /\ seen' \subseteq Events /\ faults' \in 0..MaxFaults
  <2>1. seen \subseteq Events /\ faults \in 0..MaxFaults /\ MaxFaults \in Nat
    BY DEF TInv, Ranges, InboxAssumption
  <2>2. ASSUME NEW r \in Requests, NEW e \in Events, ReplayGate(r, e)
        PROVE  /\ gated' = gated /\ UNCHANGED <<drain, signals, revives>>
               /\ seen' \subseteq Events /\ faults' \in 0..MaxFaults
    BY <2>1, <2>2 DEF ReplayGate, ops
  <2>3. ASSUME NEW r \in Requests, HandleWebhook(r)
        PROVE  /\ gated' = gated /\ UNCHANGED <<drain, signals, revives>>
               /\ seen' \subseteq Events /\ faults' \in 0..MaxFaults
    BY <2>1, <2>3 DEF HandleWebhook, ops
  <2>4. ASSUME NEW r \in Requests, RequestFails(r)
        PROVE  /\ gated' = gated /\ UNCHANGED <<drain, signals, revives>>
               /\ seen' \subseteq Events /\ faults' \in 0..MaxFaults
    BY <2>1, <2>4 DEF RequestFails, ops
  <2>5. ASSUME NEW e \in Events, HandleDirectly(e)
        PROVE  /\ gated' = gated /\ UNCHANGED <<drain, signals, revives>>
               /\ seen' \subseteq Events /\ faults' \in 0..MaxFaults
    BY <2>1, <2>5 DEF HandleDirectly, ops
  <2> QED BY <2>2, <2>3, <2>4, <2>5
<1>2. UNCHANGED <<row, received>> \/ \E e \in Events : Record(e)
  <2>1. ASSUME NEW r \in Requests, HandleWebhook(r)
        PROVE  \E e \in Events : Record(e)
    <3>1. request[r].event \in Events
      BY <2>1 DEF HandleWebhook, TInv, IInv, Shape, Idle, Call
    <3> QED BY <2>1, <3>1 DEF HandleWebhook
  <2> QED BY <2>1 DEF ReplayGate, RequestFails, HandleDirectly
<1>3. /\ received' \in [Events -> 0..Cardinality(Events)]
      /\ \A f \in Events : row'[f].attempts = row[f].attempts
  BY <1>2, RecordRanges DEF TInv, Ranges
<1>4. Ranges'
  BY <1>1, <1>3 DEF TInv, Ranges
<1>5. OnceEach'
  BY <1>1 DEF TInv, OnceEach
<1>6. \A e \in Events : Bumpers(e)' = Bumpers(e) /\ row'[e].attempts <= row[e].attempts
  BY <1>1, <1>3 DEF Bumpers, TInv, IInv, Shape, Entry
<1>7. Capped'
  BY <1>6, QuietStep
<1> QED BY <1>4, <1>5, <1>7 DEF TInv

(* A claim copies each row once; a copy that may bump has a row far from its *)
(* cap.                                                                      *)
LEMMA ClaimCapped ==
  ASSUME InboxAssumption, TInv, IInv', NEW d \in Drains, NEW n \in 1..Limit, ClaimInbound(d, n)
  PROVE  TInv'
<1>1. PICK batch : batch = {[event |-> e, attempts |-> row[e].attempts] : e \in Oldest("pending", n)}
  OBVIOUS
<1>2. Oldest("pending", n) \subseteq Events
  BY DEF Oldest
<1>3. batch \in SUBSET Copy
  BY <1>1, <1>2 DEF Copy, TInv, IInv, Shape, Entry
<1>4. \A c \in batch : c.event \in Events /\ c = [event |-> c.event, attempts |-> row[c.event].attempts]
  BY <1>1, <1>2
<1>5. /\ HeldIn(drain'[d]) = batch /\ OneCopy(drain'[d])
      /\ \A o \in Drains : o # d => drain'[o] = drain[o]
  <2>1. \A x, y \in batch : x.event = y.event => x = y
    BY <1>4
  <2> QED BY <1>1, <1>3, <2>1, WorkHolds DEF ClaimInbound, TInv
<1>6. OnceEach'
  BY <1>5 DEF OnceEach, TInv
<1>7. Ranges'
  BY DEF ClaimInbound, edge, ops, Ranges, TInv
<1>8. ASSUME NEW e \in Events
      PROVE  row'[e].attempts + Cardinality(Bumpers(e)') <= MostAttempts
  <2>1. row'[e].attempts = row[e].attempts /\ row[e].attempts \in Nat
    BY DEF ClaimInbound, TInv, IInv, Shape, Entry
  <2>2. PICK B, C : B = Bumpers(e) /\ C = Bumpers(e)'
    OBVIOUS
  <2>3. B \subseteq Drains /\ C \subseteq Drains /\ B = Bumpers(e)
    BY <2>2 DEF Bumpers
  <2>4. B \subseteq Drains /\ row[e].attempts + Cardinality(B) <= MostAttempts
    BY <2>2, <2>3 DEF TInv, Capped
  <2>5. CASE d \in C
    <3>1. PICK c \in batch : c.event = e /\ Bumps(c)
      BY <1>5, <2>2, <2>5 DEF Bumpers, Bumps
    <3>2. row[e].attempts + 1 < MaxInboxAttempts
      BY <1>4, <3>1 DEF Bumps
    <3> QED BY <2>1, <2>2, <2>3, <2>4, <3>2, RowCapped
  <2>6. CASE d \notin C
    <3>1. C \subseteq B
      BY <1>5, <2>2, <2>6, OthersBump
    <3> QED BY <2>1, <2>2, <2>3, <2>4, <3>1, RowCapped
  <2> QED BY <2>5, <2>6
<1> QED BY <1>6, <1>7, <1>8 DEF TInv, Capped

(* An answer of submit leaves the drain its copies, and has the one at hand  *)
(* bumped only below the cap.                                                *)
LEMMA AnswerCapped ==
  ASSUME InboxAssumption, TInv, IInv', NEW d \in Drains, Submit(d)
  PROVE  TInv'
<1>1. drain[d].pc = "submit"
  BY DEF Submit, SubmitApplies, SubmitDeclines, SubmitThrows
<1>2. drain[d] \in Batch
  BY <1>1, AtWork DEF TInv, IInv, Shape, DrainStep
<1>3. PICK pc \in DrainStep : Goto(d, pc) /\ (pc = "bumpAttempt" => Bumps(drain[d].entry))
  <2>1. CASE SubmitApplies(d)
    BY <2>1 DEF SubmitApplies, DrainStep
  <2>2. CASE SubmitDeclines(d)
    BY <2>2 DEF SubmitDeclines, DrainStep
  <2>3. ASSUME NEW retryable \in BOOLEAN, NEW landed \in BOOLEAN, SubmitThrows(d, retryable, landed)
        PROVE  \E pc \in DrainStep : Goto(d, pc) /\ (pc = "bumpAttempt" => Bumps(drain[d].entry))
    <3>1. drain[d].entry.attempts \in Nat /\ MaxInboxAttempts \in Nat
      BY <1>2 DEF Batch, Copy, InboxAssumption
    <3>2. PICK next : /\ next = OnFailure(drain[d].entry, retryable) /\ Goto(d, next)
      BY <2>3 DEF SubmitThrows
    <3>3. next \in DrainStep /\ (next = "bumpAttempt" => Bumps(drain[d].entry))
      BY <3>1, <3>2 DEF OnFailure, Bumps, DrainStep
    <3> QED BY <3>2, <3>3
  <2> QED BY <2>1, <2>2, <2>3 DEF Submit
<1>4. drain'[d] = [drain[d] EXCEPT !.pc = pc] /\ \A o \in Drains : o # d => drain'[o] = drain[o]
  BY <1>3 DEF Goto, TInv, IInv, Shape
<1>5. /\ drain'[d].pc = pc /\ drain'[d].entry = drain[d].entry /\ drain'[d].rest = drain[d].rest
      /\ drain'[d] # Idle /\ drain[d] # Idle
  BY <1>2, <1>4 DEF Batch, DrainStep, Idle
<1>6. HeldIn(drain'[d]) = HeldIn(drain[d])
  BY <1>5 DEF HeldIn
<1>7. OnceEach'
  <2>1. OneCopy(drain[d])
    BY DEF TInv, OnceEach
  <2>2. OneCopy(drain'[d])
    BY <1>3, <1>5, <2>1 DEF OneCopy
  <2> QED BY <1>4, <2>2 DEF TInv, OnceEach
<1>8. /\ UNCHANGED <<edge, row, revives, faults>>
      /\ signals' \in {signals} \cup {signals + 1} /\ (signals' # signals => signals < Threshold)
  BY DEF Submit, SubmitApplies, SubmitDeclines, SubmitThrows, Log, ops
<1>9. Ranges'
  <2>1. signals' \in 0..Threshold
    BY <1>8 DEF TInv, Ranges, InboxAssumption
  <2> QED BY <1>8, <2>1 DEF TInv, Ranges, edge
<1>10. \A e \in Events : row'[e].attempts <= row[e].attempts
  BY <1>8 DEF TInv, IInv, Shape, Entry
<1>11. \A e \in Events : Bumpers(e)' \subseteq Bumpers(e)
  BY <1>4, <1>6, OthersBump
<1>12. Capped'
  BY <1>10, <1>11, QuietStep
<1> QED BY <1>7, <1>9, <1>12 DEF TInv


(* A write ends the copy at hand.  A bump is one attempt more, and one drain *)
(* less that may still bump the row.                                         *)
LEMMA WriteCapped ==
  ASSUME InboxAssumption, TInv, IInv', NEW d \in Drains,
         MarkApplied(d) \/ BumpAttempt(d) \/ DeadLetter(d)
  PROVE  TInv'
<1>1. drain[d] \in Batch /\ drain[d] # Idle /\ drain[d].entry.event \in Events
  <2>1. drain[d].pc \in DrainStep /\ drain[d].pc # "idle"
    BY DEF MarkApplied, BumpAttempt, DeadLetter, DrainStep
  <2> QED BY <2>1, AtWork DEF TInv, IInv, Shape, Idle
<1>2. PICK f, rest : f = drain[d].entry.event /\ rest = drain[d].rest
  OBVIOUS
<1>3. /\ HeldIn(drain[d]) = {drain[d].entry} \cup rest /\ rest \in SUBSET Copy
      /\ OneCopy(drain[d]) /\ drain[d].entry \notin rest
      /\ \A x, y \in {drain[d].entry} \cup rest : x.event = y.event => x = y
  BY <1>1, <1>2 DEF HeldIn, Batch, TInv, OnceEach, OneCopy
<1>4. /\ HeldIn(drain'[d]) = rest /\ OneCopy(drain'[d])
      /\ \A o \in Drains : o # d => drain'[o] = drain[o]
  <2>1. \A x, y \in rest : x.event = y.event => x = y
    BY <1>3
  <2>2. Work(d, rest)
    BY <1>2 DEF MarkApplied, BumpAttempt, DeadLetter, NextEntry
  <2> QED BY <1>3, <2>1, <2>2, WorkHolds DEF TInv
<1>5. OnceEach'
  BY <1>4 DEF OnceEach, TInv
<1>6. Ranges'
  BY DEF MarkApplied, BumpAttempt, DeadLetter, edge, ops, Ranges, TInv
<1>7. row \in [Events -> Entry] /\ \A e \in Events : row[e].attempts \in Nat
  BY DEF TInv, IInv, Shape, Entry
<1>8. \A e \in Events : Bumpers(e)' \subseteq Bumpers(e)
  BY <1>3, <1>4, OthersBump
<1>9. CASE \A e \in Events : row'[e].attempts <= row[e].attempts
  BY <1>5, <1>6, <1>8, <1>9, QuietStep DEF TInv
<1>10. CASE BumpAttempt(d) /\ row[f].status = "pending"
  <2>1. row' = [row EXCEPT ![f] = [row[f] EXCEPT !.attempts = @ + 1]]
    BY <1>2, <1>10 DEF BumpAttempt, Update
  <2>2. row[f] \in Entry /\ f \in Events
    BY <1>1, <1>2, <1>7
  <2>3. row'[f].attempts = row[f].attempts + 1
    BY <1>7, <2>1, <2>2 DEF Entry
  <2>4. \A e \in Events : e # f => row'[e] = row[e]
    BY <1>7, <2>1
  <2>5. Bumps(drain[d].entry)
    BY <1>1, <1>3, <1>10 DEF BumpAttempt, OneCopy
  <2>6. d \in Bumpers(f)
    BY <1>2, <1>3, <2>5 DEF Bumpers
  <2>7. d \notin Bumpers(f)'
    <3>1. \A c \in rest : c.event # f
      BY <1>2, <1>3
    <3> QED BY <1>4, <3>1 DEF Bumpers
  <2>8. ASSUME NEW e \in Events
        PROVE  row'[e].attempts + Cardinality(Bumpers(e)') <= MostAttempts
    <3>1. row[e].attempts \in Nat /\ row'[e].attempts \in Nat
      BY DEF TInv, IInv, Shape, Entry
    <3>2. PICK B, C : B = Bumpers(e) /\ C = Bumpers(e)'
      OBVIOUS
    <3>3. B \subseteq Drains /\ C \subseteq Drains /\ C \subseteq B
      BY <1>8, <3>2 DEF Bumpers
    <3>4. row[e].attempts + Cardinality(B) <= MostAttempts
      BY <3>2 DEF TInv, Capped
    <3>5. CASE e = f
      BY <2>3, <2>6, <2>7, <3>1, <3>2, <3>3, <3>4, <3>5, RowCapped
    <3>6. CASE e # f
      <4>1. row'[e].attempts <= row[e].attempts
        BY <2>4, <3>1, <3>6
      <4> QED BY <3>1, <3>2, <3>3, <3>4, <4>1, RowCapped
    <3> QED BY <3>5, <3>6
  <2> QED BY <1>5, <1>6, <2>8 DEF TInv, Capped
<1>11. CASE ~(BumpAttempt(d) /\ row[f].status = "pending")
  <2>1. \/ row' = row
        \/ \E s \in Status : row' = [row EXCEPT ![f] = [status |-> s, attempts |-> 0]]
    BY <1>2, <1>11 DEF MarkApplied, BumpAttempt, DeadLetter, Update, Status
  <2>2. \A e \in Events : row'[e].attempts <= row[e].attempts
    BY <1>7, <2>1
  <2> QED BY <1>9, <2>2
<1> QED BY <1>10, <1>11

(* A drain that stops holds nothing; a revival starts a row over. *)
LEMMA OpsCapped ==
  ASSUME InboxAssumption, TInv, IInv',
         SupervisorActs \/ \E d \in Drains : DrainDies(d)
  PROVE  TInv'
<1>1. row \in [Events -> Entry] /\ drain \in [Drains -> {Idle} \cup Batch]
  BY DEF TInv, IInv, Shape
<1>2. \A e \in Events : row'[e].attempts <= row[e].attempts
  <2>1. row' = row \/ row' = Revived(Oldest("dead", ReviveLimit))
    BY DEF SupervisorActs, DrainDies
  <2> QED BY <1>1, <2>1 DEF Revived, Entry
<1>3. OnceEach' /\ \A e \in Events : Bumpers(e)' \subseteq Bumpers(e)
  <2>1. ASSUME NEW d \in Drains, DrainDies(d)
        PROVE  OnceEach' /\ \A e \in Events : Bumpers(e)' \subseteq Bumpers(e)
    <3>1. drain'[d] = Idle /\ \A o \in Drains : o # d => drain'[o] = drain[o]
      BY <1>1, <2>1 DEF DrainDies
    <3>2. HeldIn(drain'[d]) \subseteq HeldIn(drain[d]) /\ OneCopy(drain'[d])
      BY <3>1 DEF HeldIn, OneCopy
    <3> QED BY <3>1, <3>2, OthersBump DEF TInv, OnceEach
  <2>2. CASE SupervisorActs
    <3>1. drain' = drain
      BY <2>2 DEF SupervisorActs
    <3> QED BY <3>1 DEF TInv, OnceEach, Bumpers
  <2> QED BY <2>1, <2>2
<1>4. Ranges'
  <2>1. /\ Ranges /\ Threshold \in Nat /\ MaxActionAttempts \in Nat /\ MaxFaults \in Nat
    BY DEF TInv, InboxAssumption
  <2>2. CASE SupervisorActs
    BY <2>1, <2>2 DEF SupervisorActs, edge, Ranges
  <2>3. ASSUME NEW d \in Drains, DrainDies(d) PROVE Ranges'
    BY <2>1, <2>3 DEF DrainDies, edge, ops, Ranges
  <2> QED BY <2>2, <2>3
<1> QED BY <1>2, <1>3, <1>4, QuietStep DEF TInv

(* Every step keeps the budgets. *)
LEMMA TypesKept ==
  ASSUME TInv, [Next]_vars
  PROVE  TInv'
<1>1. IInv'
  BY NextInv DEF TInv
<1>2. CASE UNCHANGED vars
  BY <1>1, <1>2 DEF vars, TInv, OnceEach, Capped, Bumpers, Ranges
<1>3. CASE Next
  <2>1. ASSUME NEW d \in Drains, Claim(d) PROVE TInv'
    BY <1>1, <2>1, InboxAssumption, ClaimCapped DEF Claim
  <2>2. ASSUME NEW d \in Drains, DrainStepOf(d) PROVE TInv'
    BY <1>1, <2>2, InboxAssumption, AnswerCapped, WriteCapped DEF DrainStepOf
  <2>3. CASE SupervisorActs \/ \E d \in Drains : DrainDies(d)
    BY <1>1, <2>3, InboxAssumption, OpsCapped
  <2>4. CASE \/ \E r \in Requests, e \in Events : ReplayGate(r, e)
             \/ \E r \in Requests : HandleWebhook(r) \/ RequestFails(r)
             \/ \E e \in Events : HandleDirectly(e)
    BY <1>1, <2>4, InboxAssumption, RouteCapped
  <2>5. CASE \E e \in Events : TurnAway(e)
    BY <1>2, <2>5 DEF TurnAway
  <2> QED BY <1>3, <2>1, <2>2, <2>3, <2>4, <2>5 DEF Next
<1> QED BY <1>2, <1>3

(* Overlapping drains take the attempts of a row past config.maxInboxAttempts *)
(* by no more than one bump for each drain but the first (recordFailure of    *)
(* inbox.ts counts on the copy, bumpAttempt on the row).                      *)
THEOREM TypeCorrect == Spec => []TypeOK
<1>1. Init => TInv
  BY InboxAssumption, CappedInit
<1>2. TInv /\ [Next]_vars => TInv'
  BY TypesKept
<1>3. TInv => TypeOK
  <2> SUFFICES ASSUME TInv PROVE TypeOK
    OBVIOUS
  <2>1. Shape /\ Ranges
    BY DEF TInv, IInv
  <2>2. ASSUME NEW e \in Events PROVE row[e].attempts \in 0..MostAttempts
    <3>1. row[e].attempts \in Nat
      BY <2>1 DEF Shape, Entry
    <3>2. row[e].attempts + Cardinality(Bumpers(e)) <= MostAttempts
      BY DEF TInv, Capped
    <3>3. /\ Cardinality(Bumpers(e)) \in Nat /\ Cardinality(Drains) \in Nat
      BY InboxAssumption, FewerBumpers DEF Bumpers
    <3>4. MostAttempts \in Int
      BY InboxAssumption, <3>3 DEF InboxAssumption, MostAttempts
    <3> QED BY <3>1, <3>2, <3>3, <3>4
  <2>3. row \in [Events -> [status : Status, attempts : 0..MostAttempts]]
    BY <2>1, <2>2 DEF Shape, Entry
  <2>4. posts \in [Events -> Nat]
    BY <2>1 DEF Shape
  <2> QED BY <2>1, <2>3, <2>4 DEF TypeOK, Shape, Ranges, Batch, Call
<1> QED BY <1>1, <1>2, <1>3, PTL DEF Spec

-----------------------------------------------------------------------------
(* The outbox. *)

MessageEntry == [status : MessageStatus, attempts : Nat]

RelayShape ==
  /\ outbox \in [Messages -> MessageEntry]
  /\ failures \in [Messages -> Nat]
  /\ relay \in [Relays -> {RelayIdle} \cup Run]

(* The attempts of rows are failures that were written down. *)
RowsCounted == \A m \in Messages : outbox[m].attempts <= failures[m]

(* So are those of every copy, however stale. *)
Counted(c, count) == c.attempts <= count[c.id]
CopiesCounted(r, count) == Counted(r.message, count) /\ \A c \in r.rest : Counted(c, count)

(* What a relay relies on while other relays change its rows. *)
RunOK(r, count, got) ==
  r # RelayIdle =>
    /\ CopiesCounted(r, count)
    /\ r.relayed \subseteq got
    /\ r.pc = "deadLetter" => r.message.attempts + 1 >= MaxOutboxAttempts

RelayInv ==
  /\ RelayShape /\ RowsCounted
  /\ \A w \in Relays : RunOK(relay[w], failures, delivered)
  /\ RelayedWasDelivered /\ DeadWasTriedOut

-----------------------------------------------------------------------------
LEMMA RelayInitInv == RelayInit => RelayInv
BY DEF RelayInit, RelayInv, RelayShape, RowsCounted, RunOK, RelayedWasDelivered, DeadWasTriedOut, MessageEntry, MessageStatus

(* A relay at work holds a run. *)
LEMMA RelayAtWork ==
  ASSUME RelayShape, NEW w \in Relays, relay[w].pc \in RelayStep
  PROVE  /\ relay[w] \in Run /\ relay[w] # RelayIdle
         /\ relay[w].message \in MessageCopy /\ relay[w].message.id \in Messages
         /\ relay[w].message.attempts \in Nat
         /\ relay[w].rest \in SUBSET MessageCopy /\ relay[w].relayed \in SUBSET Messages
BY DEF RelayShape, RelayIdle, Run, MessageCopy, RelayStep

(* Failures only grow and deliveries are not taken back, so what the other *)
(* relays rely on stays.                                                   *)
LEMMA OthersKeep ==
  ASSUME NEW r \in {RelayIdle} \cup Run,
         NEW count \in [Messages -> Nat], NEW more \in [Messages -> Nat], NEW got, NEW now,
         RunOK(r, count, got),
         \A m \in Messages : count[m] <= more[m],
         got \subseteq now
  PROVE  RunOK(r, more, now)
<1>1. ASSUME NEW c \in MessageCopy, Counted(c, count) PROVE Counted(c, more)
  BY <1>1 DEF Counted, MessageCopy
<1>2. CASE r = RelayIdle
  BY <1>2 DEF RunOK
<1>3. CASE r \in Run /\ r # RelayIdle
  <2>1. CopiesCounted(r, more)
    BY <1>3, <1>1 DEF CopiesCounted, RunOK, Run
  <2> QED BY <1>3, <2>1 DEF RunOK
<1> QED BY <1>2, <1>3

(* The run that RelayWork makes of the rest of a batch and of its tally. *)
LEMMA RelayWorksOn ==
  ASSUME RelayShape, NEW w \in Relays, NEW batch \in SUBSET MessageCopy, NEW relayed \in SUBSET Messages,
         NEW count, NEW got,
         relayed = {} \/ (relay[w] \in Run /\ CopiesCounted(relay[w], count)),
         \A c \in batch : Counted(c, count),
         relayed \subseteq got,
         RelayWork(w, batch, relayed)
  PROVE  /\ relay' \in [Relays -> {RelayIdle} \cup Run]
         /\ RunOK(relay'[w], count, got)
         /\ \A o \in Relays : o # w => relay'[o] = relay[o]
<1> SUFFICES \E r \in {RelayIdle} \cup Run : RunOK(r, count, got) /\ relay' = [relay EXCEPT ![w] = r]
  BY DEF RelayShape
<1>1. CASE relay' = [relay EXCEPT ![w] = RelayIdle]
  BY <1>1 DEF RunOK
<1>2. CASE /\ relayed # {}
           /\ relay' = [relay EXCEPT ![w].pc = "markRelayed", ![w].relayed = relayed]
  <2> DEFINE r == [relay[w] EXCEPT !.pc = "markRelayed", !.relayed = relayed]
  <2>1. /\ r \in Run /\ r.pc = "markRelayed" /\ r.relayed = relayed
        /\ r.message = relay[w].message /\ r.rest = relay[w].rest
    BY <1>2 DEF Run, RelayStep
  <2>2. relay' = [relay EXCEPT ![w] = r]
    BY <1>2
  <2>3. RunOK(r, count, got)
    BY <1>2, <2>1 DEF RunOK, CopiesCounted
  <2> HIDE DEF r
  <2> QED BY <2>1, <2>2, <2>3
<1>3. ASSUME NEW c \in batch,
             relay' = [relay EXCEPT ![w] = [pc |-> "dispatch", message |-> c,
                                            rest |-> batch \ {c}, relayed |-> relayed]]
      PROVE  \E r \in {RelayIdle} \cup Run : RunOK(r, count, got) /\ relay' = [relay EXCEPT ![w] = r]
  <2> DEFINE r == [pc |-> "dispatch", message |-> c, rest |-> batch \ {c}, relayed |-> relayed]
  <2>1. r \in Run
    BY DEF Run, RelayStep
  <2>2. RunOK(r, count, got)
    BY DEF RunOK, CopiesCounted
  <2>3. relay' = [relay EXCEPT ![w] = r]
    BY <1>3
  <2> HIDE DEF r
  <2> QED BY <2>1, <2>2, <2>3
<1> QED BY <1>1, <1>2, <1>3 DEF RelayWork

-----------------------------------------------------------------------------
(* What every step of a relay owes the rest of the invariant: it keeps the   *)
(* other runs, adds failures and deliveries only, and leaves a good run.     *)
LEMMA RelayStepOK ==
  ASSUME RelayInv, NEW w \in Relays,
         failures' \in [Messages -> Nat],
         \A m \in Messages : failures[m] <= failures'[m],
         delivered \subseteq delivered',
         relay' \in [Relays -> {RelayIdle} \cup Run],
         RunOK(relay'[w], failures', delivered'),
         \A o \in Relays : o # w => relay'[o] = relay[o],
         outbox' \in [Messages -> MessageEntry],
         \A m \in Messages :
           /\ outbox'[m].attempts <= failures'[m]
           /\ outbox'[m].status = "relayed" => outbox[m].status = "relayed" \/ m \in delivered'
           /\ outbox'[m].status = "dead" =>
                outbox[m].status = "dead" \/ failures'[m] >= MaxOutboxAttempts
  PROVE  RelayInv'
<1>1. ASSUME NEW o \in Relays PROVE RunOK(relay'[o], failures', delivered')
  <2>1. CASE o = w
    BY <2>1
  <2>2. CASE o # w
    <3>1. relay[o] \in {RelayIdle} \cup Run /\ RunOK(relay[o], failures, delivered)
      BY DEF RelayInv, RelayShape
    <3>2. RunOK(relay[o], failures', delivered')
      BY <3>1, OthersKeep DEF RelayInv, RelayShape
    <3> QED BY <2>2, <3>2
  <2> QED BY <2>1, <2>2
<1>2. RelayShape' /\ RowsCounted'
  BY DEF RelayShape, RowsCounted
<1>3. RelayedWasDelivered'
  BY DEF RelayInv, RelayedWasDelivered
<1>4. DeadWasTriedOut'
  <2>1. ASSUME NEW m \in Messages, outbox'[m].status = "dead" PROVE failures'[m] >= MaxOutboxAttempts
    <3>1. CASE outbox[m].status = "dead"
      BY <3>1, OutboxAssumption DEF RelayInv, DeadWasTriedOut, RelayShape
    <3> QED BY <2>1, <3>1
  <2> QED BY <2>1 DEF DeadWasTriedOut
<1> QED BY <1>1, <1>2, <1>3, <1>4 DEF RelayInv

(* A step that changes no row and writes no failure down. *)
LEMMA QuietRows ==
  ASSUME RelayInv, UNCHANGED <<outbox, failures>>
  PROVE  /\ failures' \in [Messages -> Nat] /\ outbox' \in [Messages -> MessageEntry]
         /\ \A m \in Messages : failures[m] <= failures'[m]
         /\ \A m \in Messages :
              /\ outbox'[m].attempts <= failures'[m]
              /\ outbox'[m].status = "relayed" => outbox[m].status = "relayed"
              /\ outbox'[m].status = "dead" => outbox[m].status = "dead"
BY DEF RelayInv, RelayShape, RowsCounted

LEMMA EnqueueStep ==
  ASSUME RelayInv, NEW n \in Messages, Enqueue(n)
  PROVE  RelayInv'
<1>1. RelayShape' /\ RowsCounted'
  BY DEF Enqueue, RelayInv, RelayShape, RowsCounted, MessageEntry, MessageStatus
<1>2. \A m \in Messages : outbox'[m].status \in {"relayed", "dead"} => outbox'[m] = outbox[m]
  BY DEF Enqueue, RelayInv, RelayShape
<1> QED BY <1>1, <1>2 DEF Enqueue, RelayInv, RelayedWasDelivered, DeadWasTriedOut

LEMMA ClaimStep ==
  ASSUME RelayInv, NEW w \in Relays, NEW n \in 1..RelayLimit, ClaimBatch(w, n)
  PROVE  RelayInv'
<1> DEFINE batch == {[id |-> m, attempts |-> outbox[m].attempts] : m \in OldestMessages(n)}
<1>1. OldestMessages(n) \subseteq Messages
  BY DEF OldestMessages
<1>2. \A m \in Messages : LET c == [id |-> m, attempts |-> outbox[m].attempts] IN
        c \in MessageCopy /\ Counted(c, failures)
  BY DEF RelayInv, RelayShape, MessageEntry, MessageCopy, RowsCounted, Counted
<1>3. batch \in SUBSET MessageCopy /\ \A c \in batch : Counted(c, failures)
  BY <1>1, <1>2
<1>4. RelayWork(w, batch, {}) /\ UNCHANGED <<outbox, delivered, failures>>
  BY DEF ClaimBatch
<1>5. {} \in SUBSET Messages /\ {} \subseteq delivered
  OBVIOUS
<1> HIDE DEF batch
<1>6. /\ relay' \in [Relays -> {RelayIdle} \cup Run]
      /\ RunOK(relay'[w], failures, delivered)
      /\ \A o \in Relays : o # w => relay'[o] = relay[o]
  BY <1>3, <1>4, <1>5, RelayWorksOn DEF RelayInv
<1> QED BY <1>4, <1>6, QuietRows, RelayStepOK

LEMMA SucceedStep ==
  ASSUME RelayInv, NEW w \in Relays, DispatchSucceeds(w)
  PROVE  RelayInv'
<1>0. relay[w].pc = "dispatch" /\ UNCHANGED <<outbox, failures>>
  BY DEF DispatchSucceeds
<1>1. /\ relay[w] \in Run /\ relay[w] # RelayIdle /\ relay[w].message.id \in Messages
      /\ relay[w].rest \in SUBSET MessageCopy /\ relay[w].relayed \in SUBSET Messages
  BY <1>0, RelayAtWork DEF RelayInv, RelayStep
<1> DEFINE relayed == relay[w].relayed \cup {relay[w].message.id}
<1>2. CopiesCounted(relay[w], failures) /\ relay[w].relayed \subseteq delivered
  BY <1>1 DEF RelayInv, RunOK
<1>3. /\ relayed \in SUBSET Messages /\ relayed \subseteq delivered' /\ delivered \subseteq delivered'
      /\ \A c \in relay[w].rest : Counted(c, failures)
  BY <1>1, <1>2 DEF DispatchSucceeds, CopiesCounted
<1>4. RelayWork(w, relay[w].rest, relayed)
  BY DEF DispatchSucceeds
<1> HIDE DEF relayed
<1>5. /\ relay' \in [Relays -> {RelayIdle} \cup Run]
      /\ RunOK(relay'[w], failures, delivered')
      /\ \A o \in Relays : o # w => relay'[o] = relay[o]
  BY <1>1, <1>2, <1>3, <1>4, RelayWorksOn DEF RelayInv
<1> QED BY <1>0, <1>3, <1>5, QuietRows, RelayStepOK

LEMMA ThrowStep ==
  ASSUME RelayInv, NEW w \in Relays, NEW arrived \in BOOLEAN, DispatchThrows(w, arrived)
  PROVE  RelayInv'
<1>0. relay[w].pc = "dispatch" /\ UNCHANGED <<outbox, failures>> /\ delivered \subseteq delivered'
  BY DEF DispatchThrows
<1>1. relay[w] \in Run /\ relay[w] # RelayIdle /\ relay[w].message.attempts \in Nat
  BY <1>0, RelayAtWork DEF RelayInv, RelayStep
<1> DEFINE r == [relay[w] EXCEPT !.pc = OnDispatchFailure(relay[w].message)]
<1>2. /\ r \in Run /\ r.message = relay[w].message /\ r.rest = relay[w].rest
      /\ r.relayed = relay[w].relayed /\ r.pc = OnDispatchFailure(relay[w].message)
  BY <1>1 DEF Run, RelayStep, OnDispatchFailure
<1>3. r.pc = "deadLetter" => r.message.attempts + 1 >= MaxOutboxAttempts
  BY <1>2 DEF OnDispatchFailure
<1>4. relay' = [relay EXCEPT ![w] = r]
  BY DEF DispatchThrows
<1> HIDE DEF r
<1>5. RunOK(r, failures, delivered')
  BY <1>0, <1>1, <1>2, <1>3 DEF RelayInv, RunOK, CopiesCounted
<1>6. /\ relay' \in [Relays -> {RelayIdle} \cup Run]
      /\ RunOK(relay'[w], failures, delivered')
      /\ \A o \in Relays : o # w => relay'[o] = relay[o]
  BY <1>2, <1>4, <1>5 DEF RelayInv, RelayShape
<1> QED BY <1>0, <1>6, QuietRows, RelayStepOK

(* A failure is written down, on the row if that is still pending. *)
LEMMA FailStep ==
  ASSUME RelayInv, NEW w \in Relays, RecordFailure(w) \/ DeadLetterMessage(w)
  PROVE  RelayInv'
<1> DEFINE m == relay[w].message.id
<1>1. /\ relay[w] \in Run /\ relay[w] # RelayIdle /\ m \in Messages /\ relay[w].message.attempts \in Nat
      /\ relay[w].rest \in SUBSET MessageCopy /\ relay[w].relayed \in SUBSET Messages
  BY RelayAtWork DEF RecordFailure, DeadLetterMessage, RelayStep, RelayInv
<1>2. /\ RunOK(relay[w], failures, delivered)
      /\ CopiesCounted(relay[w], failures) /\ relay[w].relayed \subseteq delivered
  BY <1>1 DEF RelayInv, RunOK
<1>3. failures' = [failures EXCEPT ![m] = @ + 1] /\ UNCHANGED delivered
  BY DEF RecordFailure, DeadLetterMessage, WriteDown
<1>4. failures' \in [Messages -> Nat] /\ \A n \in Messages : failures[n] <= failures'[n]
  BY <1>1, <1>3 DEF RelayInv, RelayShape
<1>5. RunOK(relay[w], failures', delivered')
  BY <1>1, <1>2, <1>3, <1>4, OthersKeep DEF RelayInv, RelayShape
<1>6. /\ relay' \in [Relays -> {RelayIdle} \cup Run]
      /\ RunOK(relay'[w], failures', delivered')
      /\ \A o \in Relays : o # w => relay'[o] = relay[o]
  <2>1. RelayWork(w, relay[w].rest, relay[w].relayed)
    BY DEF RecordFailure, DeadLetterMessage
  <2>2. CopiesCounted(relay[w], failures') /\ relay[w].relayed \subseteq delivered'
    BY <1>1, <1>5 DEF RunOK
  <2> QED BY <1>1, <2>1, <2>2, RelayWorksOn DEF CopiesCounted, RelayInv
<1>7. outbox' \in [Messages -> MessageEntry]
  BY <1>1 DEF RecordFailure, DeadLetterMessage, UpdateMessage, RelayInv, RelayShape, MessageEntry, MessageStatus
<1>8. ASSUME NEW n \in Messages
      PROVE  /\ outbox'[n].attempts <= failures'[n]
             /\ outbox'[n].status = "relayed" => outbox[n].status = "relayed"
             /\ outbox'[n].status = "dead" => outbox[n].status = "dead" \/ failures'[n] >= MaxOutboxAttempts
  <2>1. CASE outbox'[n] = outbox[n]
    BY <1>4, <1>7, <2>1 DEF RelayInv, RowsCounted, RelayShape, MessageEntry
  <2>2. CASE n = m /\ RecordFailure(w) /\ outbox'[m] = [status |-> "pending", attempts |-> outbox[m].attempts + 1]
    BY <1>1, <1>3, <2>2 DEF RelayInv, RowsCounted, RelayShape, MessageEntry
  <2>3. CASE n = m /\ DeadLetterMessage(w) /\ outbox'[m] = [status |-> "dead", attempts |-> 0]
    <3>1. relay[w].message.attempts <= failures[m]
      BY <1>2 DEF CopiesCounted, Counted
    <3>2. relay[w].message.attempts + 1 >= MaxOutboxAttempts
      BY <1>1, <1>2, <2>3 DEF DeadLetterMessage, RunOK
    <3>3. failures'[m] = failures[m] + 1 /\ failures[m] \in Nat
      BY <1>1, <1>3 DEF RelayInv, RelayShape
    <3>4. failures'[m] >= MaxOutboxAttempts
      BY <1>1, <3>1, <3>2, <3>3, OutboxAssumption
    <3> QED BY <2>3, <3>3, <3>4
  <2> QED BY <1>1, <2>1, <2>2, <2>3 DEF RecordFailure, DeadLetterMessage, UpdateMessage, RelayInv, RelayShape
<1> QED BY <1>3, <1>4, <1>6, <1>7, <1>8, RelayStepOK

LEMMA MarkStep ==
  ASSUME RelayInv, NEW w \in Relays, MarkRelayed(w)
  PROVE  RelayInv'
<1>1. relay[w] # RelayIdle /\ relay[w].relayed \subseteq delivered
  BY RelayAtWork DEF MarkRelayed, RelayStep, RelayInv, RunOK
<1>2. /\ relay' = [relay EXCEPT ![w] = RelayIdle] /\ UNCHANGED <<failures, delivered>>
      /\ RunOK(RelayIdle, failures', delivered')
  BY DEF MarkRelayed, RunOK
<1>3. outbox' \in [Messages -> MessageEntry]
  BY DEF MarkRelayed, RelayInv, RelayShape, MessageEntry, MessageStatus
<1>4. ASSUME NEW m \in Messages
      PROVE  /\ outbox'[m].attempts <= failures'[m]
             /\ outbox'[m].status = "relayed" => outbox[m].status = "relayed" \/ m \in delivered'
             /\ outbox'[m].status = "dead" => outbox[m].status = "dead"
  BY <1>1, <1>2 DEF MarkRelayed, RelayInv, RelayShape, RowsCounted, MessageEntry
<1>5. /\ relay' \in [Relays -> {RelayIdle} \cup Run] /\ relay'[w] = RelayIdle
      /\ \A o \in Relays : o # w => relay'[o] = relay[o]
      /\ failures' \in [Messages -> Nat] /\ \A m \in Messages : failures[m] <= failures'[m]
  BY <1>2 DEF RelayInv, RelayShape
<1> QED BY <1>2, <1>3, <1>4, <1>5, RelayStepOK

LEMMA DiesStep ==
  ASSUME RelayInv, NEW w \in Relays, RelayDies(w)
  PROVE  RelayInv'
<1>1. /\ relay' = [relay EXCEPT ![w] = RelayIdle] /\ UNCHANGED <<outbox, failures, delivered>>
      /\ RunOK(RelayIdle, failures', delivered')
  BY DEF RelayDies, RunOK
<1>2. /\ relay' \in [Relays -> {RelayIdle} \cup Run] /\ relay'[w] = RelayIdle
      /\ \A o \in Relays : o # w => relay'[o] = relay[o]
  BY <1>1 DEF RelayInv, RelayShape
<1> QED BY <1>1, <1>2, QuietRows, RelayStepOK

LEMMA RelayNextInv == RelayInv /\ [RelayNext]_relayVars => RelayInv'
<1> SUFFICES ASSUME RelayInv, [RelayNext]_relayVars PROVE RelayInv'
  OBVIOUS
<1>1. CASE UNCHANGED relayVars
  BY <1>1 DEF relayVars, RelayInv, RelayShape, RowsCounted, RunOK, CopiesCounted, Counted,
              RelayedWasDelivered, DeadWasTriedOut
<1>2. CASE RelayNext
  BY <1>2, EnqueueStep, ClaimStep, SucceedStep, ThrowStep, FailStep, MarkStep, DiesStep
     DEF RelayNext, Step, RelayClaims, Dispatch
<1> QED BY <1>1, <1>2

LEMMA RelayInvariant == RelaySpec => []RelayInv
BY RelayInitInv, RelayNextInv, PTL DEF RelaySpec

-----------------------------------------------------------------------------
(* A row marked relayed was delivered (dispatchOne, markRelayed). *)
THEOREM RelayedAlwaysDelivered == RelaySpec => []RelayedWasDelivered
<1>1. RelayInv => RelayedWasDelivered
  BY DEF RelayInv
<1> QED BY <1>1, RelayInvariant, PTL

(* A dead row's deliveries failed maxOutboxAttempts times (dispatchOne). *)
THEOREM DeadAlwaysTriedOut == RelaySpec => []DeadWasTriedOut
<1>1. RelayInv => DeadWasTriedOut
  BY DEF RelayInv
<1> QED BY <1>1, RelayInvariant, PTL

LEMMA EndStays ==
  RelayInv /\ [RelayNext]_relayVars =>
    \A m \in Messages : outbox[m].status \in {"relayed", "dead"} => outbox'[m] = outbox[m]
<1> SUFFICES ASSUME RelayInv, [RelayNext]_relayVars, NEW m \in Messages, outbox[m].status \in {"relayed", "dead"}
             PROVE  outbox'[m] = outbox[m]
  OBVIOUS
<1>0. outbox \in [Messages -> MessageEntry]
  BY DEF RelayInv, RelayShape
<1>1. ASSUME NEW n \in Messages, Enqueue(n) PROVE outbox'[m] = outbox[m]
  BY <1>0, <1>1 DEF Enqueue
<1>2. ASSUME NEW w \in Relays, RecordFailure(w) \/ DeadLetterMessage(w) PROVE outbox'[m] = outbox[m]
  BY <1>0, <1>2 DEF RecordFailure, DeadLetterMessage, UpdateMessage
<1>3. ASSUME NEW w \in Relays, MarkRelayed(w) PROVE outbox'[m] = outbox[m]
  BY <1>3 DEF MarkRelayed
<1>4. ASSUME NEW w \in Relays, RelayClaims(w) \/ Dispatch(w) \/ RelayDies(w) PROVE outbox'[m] = outbox[m]
  BY <1>4 DEF RelayClaims, ClaimBatch, Dispatch, DispatchSucceeds, DispatchThrows, RelayDies
<1>5. CASE UNCHANGED relayVars
  BY <1>5 DEF relayVars
<1> QED BY <1>1, <1>2, <1>3, <1>4, <1>5 DEF RelayNext, Step

(* A relayed or dead row never changes again (the status guards of the store). *)
THEOREM EndAlwaysFinal == RelaySpec => EndIsFinal
BY RelayInvariant, EndStays, PTL DEF RelaySpec, EndIsFinal
=============================================================================
