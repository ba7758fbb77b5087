------------------------ MODULE Subscriptions_proofs ------------------------
(***************************************************************************)
(* What holds of the billing of subscriptions for any number of users,      *)
(* subscriptions and overlapping sweeps.  A sweep goes on with copies of    *)
(* the rows it claimed, so the invariant says how far a copy can lag behind *)
(* its row: until a retry overwrites the row, the row only moves on by a    *)
(* billing, which moves its period and its due date together and leaves the *)
(* key of the period behind.                                                *)
(***************************************************************************)
EXTENDS Subscriptions, TLAPS

(* The copies a sweep still works on. *)
Copies(w) == IF sweep[w] = Idle THEN {} ELSE {sweep[w].sub} \cup sweep[w].rest

(* A row counts one period for each due date at least, from the first on. *)
RowOK(s) ==
  /\ row[s].state # "none" => 1 <= row[s].period /\ row[s].period <= row[s].due
  /\ row[s].state = "none" => row[s].period = 0 /\ s \notin rewrote

(* What a copy tells of its row: it was due and active when it was claimed, and a *)
(* row no retry has overwritten is as many periods ahead of it as due dates.      *)
CopyOK(c) ==
  /\ c.state = "ACTIVE" /\ c.attempts < MaxSubscriptionAttempts
  /\ c.period <= c.due /\ c.due <= now
  /\ row[c.id].state # "none"
  /\ c.id \notin rewrote =>
       /\ c.due <= row[c.id].due
       /\ row[c.id].due - c.due = row[c.id].period - c.period
       /\ late[c.id] # 0 => c.due < row[c.id].due

(* Until a retry overwrites the row, exactly the periods up to the row's are charged *)
(* and those after the first were claimed.                                           *)
Paid(s) ==
  \A p \in Period :
    /\ charges[<<s, p>>] = IF p <= row[s].period THEN 1 ELSE 0
    /\ <<s, p>> \in keys <=> (2 <= p /\ p <= row[s].period)

(* A perk no other subscription of the user touches ends with the period. *)
Owned(s) ==
  row[s].state = "ACTIVE" /\ Only(s) =>
    ~perk[UserOf[s]].revoked /\ perk[UserOf[s]].until = row[s].due

(* A charge after the cancel was the last. *)
LateOnce(s) ==
  late[s] <= 1 /\ (late[s] # 0 => row[s].state \in {"CANCELED", "LAPSED"})

Keyed ==
  \A s \in Subs : \A p \in Period \ {1} :
    charges[<<s, p>>] \in (IF <<s, p>> \in keys THEN {0, 1} ELSE {0})

SweepsOK == sweep \in [Sweeps -> {Idle} \cup Run]
RetriesOK ==
  \A w \in Sweeps :
    sweep[w].pc = "retry" => sweep[w].sub.attempts + 1 < MaxSubscriptionAttempts
CopiesOK == \A w \in Sweeps : \A c \in Copies(w) : CopyOK(c)
RowsOK == \A s \in Subs : RowOK(s)
Truth == \A s \in Subs \ rewrote : Paid(s) /\ Owned(s) /\ LateOnce(s)

IInv == TypeOK /\ RowsOK /\ CopiesOK /\ RetriesOK /\ Keyed /\ Truth

-----------------------------------------------------------------------------
(* The sweeps and their copies. *)

(* A running sweep holds copies, the one it is at among them. *)
LEMMA Holding ==
  ASSUME SweepsOK, NEW w \in Sweeps
  PROVE  /\ Copies(w) \in SUBSET Copy
         /\ sweep[w] = Idle \/ sweep[w].pc \in {"renew", "retry", "lapse"}
         /\ sweep[w] # Idle =>
              sweep[w] \in Run /\ sweep[w].sub \in Copies(w) /\ sweep[w].rest \in SUBSET Copies(w)
<1>1. sweep[w] = Idle \/ sweep[w] \in Run
  BY DEF SweepsOK
<1>2. CASE sweep[w] = Idle
  BY <1>2 DEF Copies, Idle, Run
<1>3. CASE sweep[w] \in Run
  BY <1>3 DEF Copies, Idle, Run
<1> QED BY <1>1, <1>2, <1>3

(* Every step but a claim only drops copies, and retries within the cap. *)
Moves ==
  /\ SweepsOK'
  /\ \A v \in Sweeps : Copies(v)' \subseteq Copies(v)
  /\ RetriesOK'

(* Going on with a batch: a copy of it, or the end of the sweep. *)
LEMMA WorkOn ==
  ASSUME SweepsOK, NEW w \in Sweeps, NEW batch \in SUBSET Copy, Work(w, batch)
  PROVE  /\ SweepsOK'
         /\ \A v \in Sweeps : v # w => sweep'[v] = sweep[v] /\ Copies(v)' = Copies(v)
         /\ Copies(w)' \subseteq batch
         /\ sweep'[w].pc # "retry"
<1>1. CASE sweep' = [sweep EXCEPT ![w] = Idle]
  BY <1>1 DEF SweepsOK, Copies, Idle
<1>2. CASE \E c \in batch : sweep' = [sweep EXCEPT ![w] =
            [pc |-> "renew", sub |-> c, rest |-> batch \ {c}, caught |-> FALSE]]
  <2>1. PICK c \in batch : sweep' = [sweep EXCEPT ![w] =
            [pc |-> "renew", sub |-> c, rest |-> batch \ {c}, caught |-> FALSE]]
    BY <1>2
  <2>2. [pc |-> "renew", sub |-> c, rest |-> batch \ {c}, caught |-> FALSE] \in Run
    BY DEF Run
  <2> QED BY <2>1, <2>2 DEF SweepsOK, Copies, Idle
<1> QED BY <1>1, <1>2 DEF Work

(* A run that takes its next row. *)
LEMMA WorkMoves ==
  ASSUME SweepsOK, RetriesOK, NEW w \in Sweeps, sweep[w] # Idle, Work(w, sweep[w].rest)
  PROVE  Moves
<1>1. sweep[w].rest \in SUBSET Copy /\ sweep[w].rest \subseteq Copies(w)
  BY Holding
<1> DEFINE batch == sweep[w].rest
<1>2. /\ SweepsOK'
      /\ \A v \in Sweeps : v # w => sweep'[v] = sweep[v] /\ Copies(v)' = Copies(v)
      /\ Copies(w)' \subseteq batch
      /\ sweep'[w].pc # "retry"
  BY <1>1, WorkOn
<1> QED BY <1>1, <1>2 DEF Moves, RetriesOK

(* A run that ends. *)
LEMMA StopMoves ==
  ASSUME SweepsOK, RetriesOK, NEW w \in Sweeps, sweep' = [sweep EXCEPT ![w] = Idle]
  PROVE  Moves
BY DEF Moves, SweepsOK, RetriesOK, Copies, Idle

(* Turning to the retry or the lapse of the copy it is at. *)
LEMMA TurnMoves ==
  ASSUME SweepsOK, RetriesOK, NEW w \in Sweeps, sweep[w] # Idle, NEW caught \in BOOLEAN,
         Retrying(w, caught) \/ Lapsing(w, caught)
  PROVE  Moves
<1>1. sweep[w] \in Run
  BY Holding
<1>2. sweep[w].sub.attempts \in Nat
  BY <1>1 DEF Run, Copy
<1>3. \E pc \in {"retry", "lapse"} :
        /\ sweep' = [sweep EXCEPT ![w] = [@ EXCEPT !.caught = caught, !.pc = pc]]
        /\ pc = "retry" => sweep[w].sub.attempts + 1 < MaxSubscriptionAttempts
  <2>1. ASSUME NEW pc, sweep' = [sweep EXCEPT ![w].pc = pc, ![w].caught = caught]
               \/ sweep' = [sweep EXCEPT ![w].caught = caught, ![w].pc = pc]
        PROVE  sweep' = [sweep EXCEPT ![w] = [@ EXCEPT !.caught = caught, !.pc = pc]]
    <3> DEFINE r == [sweep[w] EXCEPT !.caught = caught, !.pc = pc]
    <3>1. r = [[sweep[w] EXCEPT !.pc = pc] EXCEPT !.caught = caught]
      BY <1>1 DEF Run
    <3> QED BY <2>1, <3>1 DEF SweepsOK
  <2>2. CASE Lapsing(w, caught)
    BY <2>1, <2>2 DEF Lapsing
  <2>3. CASE Retrying(w, caught)
    <3>1. PICK pc \in {"retry", "lapse"} :
             /\ pc = IF sweep[w].sub.attempts + 1 >= MaxSubscriptionAttempts
                     THEN "lapse" ELSE "retry"
      OBVIOUS
    <3>2. sweep' = [sweep EXCEPT ![w].caught = caught, ![w].pc = pc]
      BY <2>3, <3>1 DEF Retrying
    <3>3. pc = "retry" => sweep[w].sub.attempts + 1 < MaxSubscriptionAttempts
      BY <1>2, <3>1, SubscriptionsAssumption
    <3> QED BY <2>1, <3>2, <3>3
  <2> QED BY <2>2, <2>3
<1>4. PICK pc \in {"retry", "lapse"} :
        /\ sweep' = [sweep EXCEPT ![w] = [@ EXCEPT !.caught = caught, !.pc = pc]]
        /\ pc = "retry" => sweep[w].sub.attempts + 1 < MaxSubscriptionAttempts
  BY <1>3
<1> DEFINE r == [sweep[w] EXCEPT !.caught = caught, !.pc = pc]
<1>5. r \in Run /\ r.pc = pc /\ r.sub = sweep[w].sub /\ r.rest = sweep[w].rest /\ r # Idle
  BY <1>1 DEF Run, Idle
<1>6. sweep' = [sweep EXCEPT ![w] = r]
  BY <1>4
<1> HIDE DEF r
<1> QED BY <1>4, <1>5, <1>6 DEF Moves, SweepsOK, RetriesOK, Copies

(* A step of no run. *)
LEMMA SameMoves ==
  ASSUME SweepsOK, RetriesOK, UNCHANGED sweep
  PROVE  Moves
BY DEF Moves, SweepsOK, RetriesOK, Copies

-----------------------------------------------------------------------------
(* The steps. *)

(* The types the invariant gives. *)
LEMMA InvTypes ==
  ASSUME IInv
  PROVE  SweepsOK /\ RetriesOK /\ MaxTime \in Nat /\ now \in 0..MaxTime
BY SubscriptionsAssumption DEF IInv, TypeOK, SweepsOK

(* The copy a sweep is at. *)
LEMMA AtCopy ==
  ASSUME IInv, NEW w \in Sweeps, sweep[w] # Idle
  PROVE  \E c \in Copy : c = sweep[w].sub /\ CopyOK(c) /\ UserOf[c.id] \in Users
<1>1. sweep[w].sub \in Copies(w) /\ Copies(w) \in SUBSET Copy
  BY Holding, InvTypes
<1>2. CopyOK(sweep[w].sub)
  BY <1>1 DEF IInv, CopiesOK
<1> QED BY <1>1, <1>2, SubscriptionsAssumption DEF Copy

(* Copies still tell of their rows after a step that claims none. *)
LEMMA CopiesKept ==
  ASSUME IInv, Moves, \A c \in Copy : CopyOK(c) => CopyOK(c)'
  PROVE  CopiesOK'
<1> SUFFICES ASSUME NEW w \in Sweeps, NEW c \in Copies(w)' PROVE CopyOK(c)'
  BY DEF CopiesOK
<1>1. c \in Copies(w) /\ c \in Copy
  BY Holding, InvTypes DEF Moves
<1> QED BY <1>1 DEF IInv, CopiesOK

(* A step that changes no row, no key and no charge. *)
LEMMA StoreKept ==
  ASSUME IInv, Moves, TypeOK', now <= now',
         UNCHANGED <<row, keys, perk, charges, late, rewrote>>
  PROVE  IInv'
<1>1. RowsOK' /\ Keyed' /\ Truth'
  BY DEF IInv, RowsOK, RowOK, Keyed, Truth, Paid, Owned, LateOnce, Only
<1>2. ASSUME NEW c \in Copy, CopyOK(c) PROVE CopyOK(c)'
  <2>1. c.due \in Nat /\ now \in Nat /\ now' \in Nat
    BY SubscriptionsAssumption DEF IInv, TypeOK, Copy, Period
  <2> QED BY <1>2, <2>1 DEF CopyOK
<1> QED BY <1>1, <1>2, CopiesKept DEF IInv, Moves

LEMMA InitInv == Init => IInv
<1> SUFFICES ASSUME Init PROVE IInv OBVIOUS
<1>1. MaxTime \in Nat /\ MaxSubscriptionAttempts \in Nat \ {0}
  BY SubscriptionsAssumption
<1>2. TypeOK
  BY <1>1, SubscriptionsAssumption DEF Init, TypeOK, Row, NoRow, State, Period, Idle
<1>3. RowsOK /\ Keyed /\ Truth
  BY <1>1 DEF Init, RowsOK, RowOK, Keyed, Truth, Paid, Owned, LateOnce, NoRow, Period
<1>4. CopiesOK /\ RetriesOK
  BY DEF Init, CopiesOK, Copies, RetriesOK, Idle
<1> QED BY <1>2, <1>3, <1>4 DEF IInv

LEMMA QuietSteps ==
  ASSUME IInv, Tick \/ \E u \in Users : Mature(u) \/ SpendElsewhere(u)
  PROVE  IInv'
<1>1. MaxTime \in Nat /\ Price \in Nat /\ MaxSpends \in Nat /\ now \in 0..MaxTime
  BY SubscriptionsAssumption DEF IInv, TypeOK
<1>2. CASE Tick
  <2>1. TypeOK'
    BY <1>1, <1>2 DEF IInv, TypeOK, Tick
  <2> QED BY <1>1, <1>2, <2>1, StoreKept, SameMoves, InvTypes DEF Tick
<1>3. ASSUME NEW u \in Users, Mature(u) PROVE IInv'
  <2>1. funds' \in [Users -> [promo : Nat, cleared : Nat, held : Nat]]
    BY <1>3 DEF IInv, TypeOK, Mature
  <2>2. TypeOK'
    BY <1>3, <2>1 DEF IInv, TypeOK, Mature
  <2> QED BY <1>1, <1>3, <2>2, StoreKept, SameMoves, InvTypes DEF Mature
<1>4. ASSUME NEW u \in Users, SpendElsewhere(u) PROVE IInv'
  <2>1. funds' \in [Users -> [promo : Nat, cleared : Nat, held : Nat]]
    BY <1>1, <1>4 DEF IInv, TypeOK, SpendElsewhere
  <2>2. TypeOK'
    BY <1>1, <1>4, <2>1 DEF IInv, TypeOK, SpendElsewhere
  <2> QED BY <1>1, <1>4, <2>2, StoreKept, SameMoves, InvTypes DEF SpendElsewhere
<1> QED BY <1>2, <1>3, <1>4

(* A step of a sweep alone that claims nothing. *)
LEMMA SweepOnly ==
  ASSUME IInv, Moves,
         UNCHANGED <<now, row, keys, funds, perk, history, spends>>, faults' \in 0..MaxFaults
  PROVE  IInv'
<1>1. TypeOK'
  BY DEF IInv, TypeOK, Moves, SweepsOK, history
<1>2. now <= now'
  BY InvTypes
<1> QED BY <1>1, <1>2, StoreKept DEF history

LEMMA FailingSteps ==
  ASSUME IInv, NEW w \in Sweeps, RenewRefused(w) \/ RetryOrLapseFails(w) \/ Crash(w)
  PROVE  IInv'
<1>0. faults \in 0..MaxFaults /\ MaxFaults \in Nat
  BY SubscriptionsAssumption DEF IInv, TypeOK
<1>1. CASE RenewRefused(w)
  <2>1. sweep[w] # Idle
    BY <1>1 DEF RenewRefused, Idle
  <2>2. Moves
    BY <1>1, <2>1, InvTypes, TurnMoves DEF RenewRefused
  <2> QED BY <1>0, <1>1, <2>2, SweepOnly DEF RenewRefused
<1>2. CASE RetryOrLapseFails(w)
  <2>1. sweep[w] # Idle
    BY <1>2 DEF RetryOrLapseFails, Idle
  <2>2. Moves
    BY <1>2, <2>1, InvTypes, TurnMoves, StopMoves DEF RetryOrLapseFails
  <2> QED BY <1>0, <1>2, <2>2, SweepOnly DEF RetryOrLapseFails
<1>3. CASE Crash(w)
  <2>1. Moves
    BY <1>3, InvTypes, StopMoves DEF Crash
  <2> QED BY <1>0, <1>3, <2>1, SweepOnly DEF Crash
<1> QED BY <1>1, <1>2, <1>3

(* A claim copies rows that are due, so a copy agrees with its row. *)
LEMMA Claiming ==
  ASSUME IInv, NEW w \in Sweeps, NEW n \in 1..Limit, ClaimDue(w, n)
  PROVE  IInv'
<1>0. MaxTime \in Nat /\ now \in 0..MaxTime /\ row \in [Subs -> Row] /\ SweepsOK
      /\ late \in [Subs -> Nat] /\ MaxSubscriptionAttempts \in Nat
  BY SubscriptionsAssumption DEF IInv, TypeOK, SweepsOK
<1>1. PICK claim \in Oldest(n) : Work(w, {CopyOf(s) : s \in claim})
  BY DEF ClaimDue
<1> DEFINE batch == {CopyOf(s) : s \in claim}
<1>2. ASSUME NEW c \in batch PROVE c \in Copy /\ CopyOK(c)
  <2>1. PICK s \in Subs : Due(s) /\ c = CopyOf(s)
    BY <1>1 DEF Oldest
  <2>2. row[s].attempts < MaxSubscriptionAttempts /\ RowOK(s)
    BY DEF IInv, TypeOK, RowsOK
  <2>3. row[s] \in Row /\ row[s].state = "ACTIVE" /\ row[s].due <= now
    BY <1>0, <2>1 DEF Due
  <2>4. row[s].period \in Period /\ row[s].due \in Period /\ row[s].period <= row[s].due
    BY <1>0, <2>2, <2>3 DEF RowOK, Row, Period
  <2>5. c \in Copy
    BY <2>1, <2>3, <2>4 DEF CopyOf, Copy, Row
  <2>6. s \notin rewrote => LateOnce(s)
    BY DEF IInv, Truth
  <2> QED BY <1>0, <2>1, <2>2, <2>3, <2>4, <2>5, <2>6 DEF CopyOf, CopyOK, LateOnce, Period
<1>3. batch \in SUBSET Copy
  BY <1>2
<1> HIDE DEF batch
<1>4. /\ SweepsOK'
      /\ \A v \in Sweeps : v # w => sweep'[v] = sweep[v] /\ Copies(v)' = Copies(v)
      /\ Copies(w)' \subseteq batch
      /\ sweep'[w].pc # "retry"
  <2>1. Work(w, batch)
    BY <1>1 DEF batch
  <2> QED BY <1>0, <1>3, <2>1, WorkOn
<1>5. ASSUME NEW c \in Copy, CopyOK(c) PROVE CopyOK(c)'
  BY <1>5 DEF CopyOK, ClaimDue, history
<1>6. CopiesOK'
  <2> SUFFICES ASSUME NEW v \in Sweeps, NEW c \in Copies(v)' PROVE CopyOK(c)'
    BY DEF CopiesOK
  <2>1. c \in Copy /\ CopyOK(c)
    <3>1. CASE v = w
      BY <1>2, <1>4, <3>1
    <3>2. CASE v # w
      BY <1>0, <1>4, <3>2, Holding DEF IInv, CopiesOK
    <3> QED BY <3>1, <3>2
  <2> QED BY <1>5, <2>1
<1>7. RetriesOK'
  BY <1>4 DEF IInv, RetriesOK
<1>8. RowsOK' /\ Keyed' /\ Truth'
  BY DEF IInv, RowsOK, RowOK, Keyed, Truth, Paid, Owned, LateOnce, Only, ClaimDue, history
<1>9. TypeOK'
  BY <1>4 DEF IInv, TypeOK, SweepsOK, ClaimDue, history
<1> QED BY <1>6, <1>7, <1>8, <1>9 DEF IInv

(* The next period of a copy is a period of the instance, and for a row no retry has *)
(* overwritten its key is free exactly when the row has not moved since.             *)
LEMMA KeyOfCopy ==
  ASSUME IInv, NEW c \in Copy, CopyOK(c)
  PROVE  /\ c.id \in Subs /\ c.period \in Nat /\ 1 <= c.period
         /\ c.due \in Nat /\ c.period <= c.due /\ c.due <= MaxTime
         /\ BillingKey(c) = <<c.id, c.period + 1>> /\ c.period + 1 \in Period \ {1}
         /\ row[c.id] \in Row /\ row[c.id].state # "none"
         /\ row[c.id].due = c.due => row[c.id].period + 1 \in 0..(MaxTime + 1)
         /\ c.id \notin rewrote => (Unbilled(c) <=> row[c.id].due = c.due)
         /\ c.id \notin rewrote /\ row[c.id].due = c.due => row[c.id].period = c.period
<1>1. MaxTime \in Nat /\ now \in 0..MaxTime /\ row \in [Subs -> Row]
  BY SubscriptionsAssumption DEF IInv, TypeOK
<1>2. c.id \in Subs /\ c.period \in 1..(MaxTime + 1) /\ c.due \in 1..(MaxTime + 1)
      /\ c.period <= c.due /\ c.due <= now
  BY DEF Copy, CopyOK, Period
<1>3. c.period + 1 \in Period \ {1}
  BY <1>1, <1>2 DEF Period
<1>4. row[c.id] \in Row /\ RowOK(c.id) /\ row[c.id].state # "none"
  BY <1>1, <1>2 DEF IInv, RowsOK, CopyOK
<1>5. row[c.id].period \in 0..(MaxTime + 1) /\ row[c.id].due \in 0..(MaxTime + 1)
      /\ row[c.id].period <= row[c.id].due
  BY <1>4 DEF Row, RowOK
<1>6. ASSUME c.id \notin rewrote
      PROVE  (Unbilled(c) <=> row[c.id].due = c.due)
             /\ (row[c.id].due = c.due => row[c.id].period = c.period)
  <2>1. c.due <= row[c.id].due /\ row[c.id].due - c.due = row[c.id].period - c.period
    BY <1>6 DEF CopyOK
  <2>2. <<c.id, c.period + 1>> \in keys <=> (2 <= c.period + 1 /\ c.period + 1 <= row[c.id].period)
    BY <1>2, <1>3, <1>6 DEF IInv, Truth, Paid
  <2> QED BY <1>1, <1>2, <1>5, <2>1, <2>2 DEF Unbilled, BillingKey
<1> QED BY <1>1, <1>2, <1>3, <1>4, <1>5, <1>6 DEF BillingKey

(* A claim that commits although the due date has moved can only be of a row a retry *)
(* has overwritten.                                                                  *)
LEMMA ClaimAlone ==
  ASSUME IInv, Moves, NEW c \in Copy, CopyOK(c), Unbilled(c), row[c.id].due # c.due,
         keys' = keys \cup {BillingKey(c)},
         UNCHANGED <<now, row, funds, perk, charges, late, lapses, rewrote, spends, faults>>
  PROVE  IInv'
<1>1. c.id \in Subs /\ BillingKey(c) = <<c.id, c.period + 1>> /\ c.period + 1 \in Period \ {1}
      /\ c.id \in rewrote
  BY KeyOfCopy
<1>2. TypeOK'
  BY <1>1 DEF IInv, TypeOK, Moves, SweepsOK
<1>3. \A s \in Subs \ rewrote : \A p : <<s, p>> \in keys' <=> <<s, p>> \in keys
  BY <1>1
<1>4. Keyed'
  BY <1>1 DEF IInv, Keyed
<1>5. Truth'
  BY <1>3 DEF IInv, Truth, Paid, Owned, LateOnce, Only
<1>6. RowsOK'
  BY DEF IInv, RowsOK, RowOK
<1>7. ASSUME NEW d \in Copy, CopyOK(d) PROVE CopyOK(d)'
  BY <1>7 DEF CopyOK
<1>8. CopiesOK'
  BY <1>7, CopiesKept
<1> QED BY <1>2, <1>4, <1>5, <1>6, <1>8 DEF IInv, Moves

(* A charged renewal moves the row by one period and one due date together. *)
LEMMA Billing ==
  ASSUME IInv, Moves, NEW c \in Copy, CopyOK(c), Unbilled(c), row[c.id].due = c.due,
         UserOf[c.id] \in Users, funds[UserOf[c.id]].cleared >= Price, Billed(c),
         UNCHANGED <<now, lapses, rewrote, spends>>, faults' \in 0..MaxFaults
  PROVE  IInv'
<1>0. MaxTime \in Nat /\ now \in 0..MaxTime /\ row \in [Subs -> Row] /\ Price \in Nat
      /\ MaxSubscriptionAttempts \in Nat \ {0} /\ late \in [Subs -> Nat]
      /\ UserOf \in [Subs -> Users]
  BY SubscriptionsAssumption DEF IInv, TypeOK
<1>1. PICK s \in Subs : s = c.id
  BY KeyOfCopy
<1>2. PICK q \in Period \ {1} : q = c.period + 1
  BY KeyOfCopy
<1>3. PICK u \in Users : u = UserOf[s]
  BY <1>1
<1>4. /\ row[s] \in Row /\ row[s].state # "none" /\ row[s].due = c.due
      /\ row[s].period + 1 \in 0..(MaxTime + 1)
      /\ s \notin rewrote => row[s].period = c.period
      /\ c.due \in Nat /\ c.due <= MaxTime /\ c.period \in Nat
  BY <1>1, KeyOfCopy
<1>5. /\ row' \in [Subs -> Row]
      /\ row'[s] = [state |-> row[s].state, period |-> row[s].period + 1,
                    attempts |-> 0, due |-> c.due + 1]
      /\ \A t \in Subs : t # s => row'[t] = row[t]
  <2>1. row' = [row EXCEPT ![s].due = c.due + 1, ![s].period = row[s].period + 1, ![s].attempts = 0]
    BY <1>0, <1>1, <1>4 DEF Billed, Row
  <2>2. row'[s] = [[[row[s] EXCEPT !.due = c.due + 1] EXCEPT !.period = row[s].period + 1]
                     EXCEPT !.attempts = 0]
    BY <1>0, <2>1
  <2>3. row'[s] = [state |-> row[s].state, period |-> row[s].period + 1,
                   attempts |-> 0, due |-> c.due + 1]
    BY <1>4, <2>2 DEF Row
  <2>4. row'[s] \in Row
    BY <1>0, <1>4, <2>3 DEF Row
  <2>5. \A t \in Subs : t # s => row'[t] = row[t]
    BY <1>0, <2>1
  <2>6. DOMAIN row' = Subs /\ row' = [t \in Subs |-> row'[t]]
    BY <1>0, <2>1
  <2> QED BY <1>0, <2>3, <2>4, <2>5, <2>6
<1>6. /\ keys' = keys \cup {<<s, q>>} /\ <<s, q>> \notin keys
  BY <1>1, <1>2 DEF Billed, Unbilled, BillingKey
<1>7. /\ charges' \in [Subs \X Period -> Nat]
      /\ \A t \in Subs : \A p \in Period :
           charges'[<<t, p>>] = IF t = s /\ p = q THEN charges[<<t, p>>] + 1 ELSE charges[<<t, p>>]
  <2>1. charges \in [Subs \X Period -> Nat] /\ charges' = [charges EXCEPT ![<<s, q>>] = @ + 1]
    BY <1>1, <1>2 DEF Billed, Charge, IInv, TypeOK
  <2>2. \A t \in Subs : \A p \in Period : <<t, p>> \in Subs \X Period
    OBVIOUS
  <2> QED BY <2>1, <2>2
<1>8. /\ late' \in [Subs -> Nat]
      /\ \A t \in Subs : late'[t] = IF t = s /\ row[s].state = "CANCELED"
                                    THEN late[t] + 1 ELSE late[t]
  BY <1>0, <1>1 DEF Billed
<1>9. /\ perk' \in [Users -> [revoked : BOOLEAN, until : 0..(MaxTime + 1)]]
      /\ perk'[u] = [revoked |-> FALSE, until |-> c.due + 1]
      /\ \A v \in Users : v # u => perk'[v] = perk[v]
  <2>1. perk' = [perk EXCEPT ![u] = [revoked |-> FALSE, until |-> c.due + 1]]
    BY <1>1, <1>3 DEF Billed, Grant
  <2>2. c.due + 1 \in 0..(MaxTime + 1)
    BY <1>0, <1>4
  <2> QED BY <2>1, <2>2 DEF IInv, TypeOK
<1>10. funds' \in [Users -> [promo : Nat, cleared : Nat, held : Nat]]
  <2>1. funds \in [Users -> [promo : Nat, cleared : Nat, held : Nat]] /\ funds[u].cleared >= Price
        /\ funds' = [funds EXCEPT ![u].cleared = @ - Price]
    BY <1>1, <1>3 DEF Billed, IInv, TypeOK
  <2> QED BY <1>0, <2>1
<1>11. TypeOK'
  <2>1. \A t \in Subs : row'[t].attempts < MaxSubscriptionAttempts
    BY <1>0, <1>5 DEF IInv, TypeOK
  <2> QED BY <1>5, <1>6, <1>7, <1>8, <1>9, <1>10, <2>1 DEF IInv, TypeOK, Moves, SweepsOK
<1>12. RowsOK'
  <2>1. RowOK(s)'
    BY <1>0, <1>4, <1>5 DEF IInv, RowsOK, RowOK, Row
  <2>2. \A t \in Subs : t # s => RowOK(t)'
    BY <1>5 DEF IInv, RowsOK, RowOK
  <2> QED BY <2>1, <2>2 DEF RowsOK
<1>13. Keyed'
  <2> SUFFICES ASSUME NEW t \in Subs, NEW p \in Period \ {1}
               PROVE  charges'[<<t, p>>] \in (IF <<t, p>> \in keys' THEN {0, 1} ELSE {0})
    BY DEF Keyed
  <2>1. charges[<<t, p>>] \in (IF <<t, p>> \in keys THEN {0, 1} ELSE {0})
    BY DEF IInv, Keyed
  <2>2. CASE t = s /\ p = q
    BY <1>6, <1>7, <2>1, <2>2
  <2>3. CASE ~(t = s /\ p = q)
    BY <1>6, <1>7, <2>1, <2>3
  <2> QED BY <2>2, <2>3
<1>14. Truth'
  <2> SUFFICES ASSUME NEW t \in Subs, t \notin rewrote
               PROVE  (Paid(t) /\ Owned(t) /\ LateOnce(t))'
    BY DEF Truth
  <2>1. Paid(t) /\ Owned(t) /\ LateOnce(t)
    BY DEF IInv, Truth
  <2>2. Paid(t)'
    <3> SUFFICES ASSUME NEW p \in Period
                 PROVE  /\ charges'[<<t, p>>] = IF p <= row'[t].period THEN 1 ELSE 0
                        /\ <<t, p>> \in keys' <=> (2 <= p /\ p <= row'[t].period)
      BY DEF Paid
    <3>1. charges[<<t, p>>] = (IF p <= row[t].period THEN 1 ELSE 0)
          /\ (<<t, p>> \in keys <=> (2 <= p /\ p <= row[t].period))
      BY <2>1 DEF Paid
    <3>2. CASE t # s
      BY <1>5, <1>6, <1>7, <3>1, <3>2
    <3>3. CASE t = s
      <4>1. row[s].period = c.period /\ row'[s].period = q /\ q = row[s].period + 1 /\ 2 <= q
            /\ p \in Nat /\ row[s].period \in Nat
        BY <1>0, <1>2, <1>4, <1>5, <3>3 DEF Period
      <4>2. CASE p = q
        BY <1>6, <1>7, <3>1, <3>3, <4>1, <4>2
      <4>3. CASE p # q
        BY <1>6, <1>7, <3>1, <3>3, <4>1, <4>3
      <4> QED BY <4>2, <4>3
    <3> QED BY <3>2, <3>3
  <2>3. Owned(t)'
    <3> SUFFICES ASSUME row'[t].state = "ACTIVE",
                        \A r \in Subs \ {t} : UserOf[r] = UserOf[t] => row'[r].state = "none"
                 PROVE  ~perk'[UserOf[t]].revoked /\ perk'[UserOf[t]].until = row'[t].due
      BY DEF Owned, Only
    <3>1. CASE t = s
      BY <1>3, <1>5, <1>9, <3>1
    <3>2. CASE t # s
      <4>1. UserOf[t] # u
        BY <1>3, <1>4, <1>5, <3>2
      <4>2. \A r \in Subs \ {t} : UserOf[r] = UserOf[t] => row[r].state = "none"
        BY <1>3, <1>5, <4>1
      <4> QED BY <1>0, <1>5, <1>9, <2>1, <3>2, <4>1, <4>2 DEF Owned, Only
    <3> QED BY <3>1, <3>2
  <2>4. LateOnce(t)'
    <3>1. CASE t # s
      BY <1>5, <1>8, <2>1, <3>1 DEF LateOnce
    <3>2. CASE t = s
      <4>1. late[s] = 0
        BY <1>0, <1>1, <1>4, <3>2 DEF CopyOK
      <4> QED BY <1>5, <1>8, <2>1, <3>2, <4>1 DEF LateOnce
    <3> QED BY <3>1, <3>2
  <2> QED BY <2>2, <2>3, <2>4
<1>15. CopiesOK'
  <2> SUFFICES ASSUME NEW d \in Copy, CopyOK(d) PROVE CopyOK(d)'
    BY CopiesKept
  <2>1. d.id \in Subs /\ d.due \in Nat /\ d.period \in Nat
    BY KeyOfCopy
  <2>2. CASE d.id # s
    BY <1>5, <1>8, <2>1, <2>2 DEF CopyOK
  <2>3. CASE d.id = s
    <3>1. /\ d.state = "ACTIVE" /\ d.attempts < MaxSubscriptionAttempts
          /\ d.period <= d.due /\ d.due <= now /\ row[s].state # "none"
          /\ s \notin rewrote => d.due <= row[s].due /\ row[s].due - d.due = row[s].period - d.period
      BY <2>3 DEF CopyOK
    <3>2. row[s].period \in Nat /\ row[s].due = c.due
      BY <1>4 DEF Row
    <3>3. s \notin rewrote =>
            /\ d.due < row'[s].due
            /\ row'[s].due - d.due = row'[s].period - d.period
      BY <1>4, <1>5, <2>1, <3>1, <3>2
    <3>4. row'[s].state = row[s].state
      BY <1>5
    <3>5. s \notin rewrote => d.due <= row'[s].due
      BY <1>4, <1>5, <2>1, <3>3
    <3> QED BY <2>3, <3>1, <3>3, <3>4, <3>5 DEF CopyOK
  <2> QED BY <2>2, <2>3
<1> QED BY <1>11, <1>12, <1>13, <1>14, <1>15 DEF IInv, Moves

LEMMA RenewStep ==
  ASSUME IInv, NEW w \in Sweeps, Renew(w)
  PROVE  IInv'
<1>0. faults \in 0..MaxFaults /\ sweep[w] # Idle
  BY DEF IInv, TypeOK, Renew, Idle
<1>1. PICK c \in Copy : c = sweep[w].sub /\ CopyOK(c) /\ UserOf[c.id] \in Users
  BY <1>0, AtCopy
<1>2. ASSUME \/ Lapsing(w, FALSE) \/ Retrying(w, FALSE) \/ Work(w, sweep[w].rest)
      PROVE  Moves
  BY <1>0, <1>2, InvTypes, TurnMoves, WorkMoves
<1>3. Moves
  BY <1>2 DEF Renew
<1>4. CASE UNCHANGED <<row, keys, funds, perk, charges, late>>
  BY <1>0, <1>3, <1>4, SweepOnly DEF Renew, history
<1>5. CASE /\ Unbilled(c) /\ row[c.id].due # c.due
           /\ keys' = keys \cup {BillingKey(c)}
           /\ UNCHANGED <<row, funds, perk, charges, late>>
  BY <1>1, <1>3, <1>5, ClaimAlone DEF Renew
<1>6. CASE /\ funds[UserOf[c.id]].cleared >= Price /\ Unbilled(c)
           /\ row[c.id].due = c.due /\ Billed(c)
  BY <1>0, <1>1, <1>3, <1>6, Billing DEF Renew
<1> QED BY <1>1, <1>4, <1>5, <1>6 DEF Renew

LEMMA RenewFailsStep ==
  ASSUME IInv, NEW w \in Sweeps, NEW committed \in BOOLEAN, RenewFails(w, committed)
  PROVE  IInv'
<1>0. faults' \in 0..MaxFaults /\ sweep[w] # Idle
  BY SubscriptionsAssumption DEF IInv, TypeOK, RenewFails, Idle
<1>1. PICK c \in Copy : c = sweep[w].sub /\ CopyOK(c) /\ UserOf[c.id] \in Users
  BY <1>0, AtCopy
<1>2. Moves
  BY <1>0, InvTypes, TurnMoves DEF RenewFails
<1>3. CASE UNCHANGED <<row, keys, funds, perk, charges, late>>
  BY <1>0, <1>2, <1>3, SweepOnly DEF RenewFails, history
<1>4. CASE /\ funds[UserOf[c.id]].cleared >= Price /\ Unbilled(c)
           /\ row[c.id].due = c.due /\ Billed(c)
  BY <1>0, <1>1, <1>2, <1>4, Billing DEF RenewFails
<1> QED BY <1>1, <1>3, <1>4 DEF RenewFails

(* A retry that finds its row as it copied it only bumps the attempts; any other marks *)
(* the row as overwritten.                                                             *)
LEMMA RetryStep ==
  ASSUME IInv, NEW w \in Sweeps, Retry(w)
  PROVE  IInv'
<1>0. sweep[w] # Idle /\ row \in [Subs -> Row] /\ MaxSubscriptionAttempts \in Nat \ {0}
  BY SubscriptionsAssumption DEF Retry, Idle, IInv, TypeOK
<1>1. PICK c \in Copy : c = sweep[w].sub /\ CopyOK(c) /\ UserOf[c.id] \in Users
  BY <1>0, AtCopy
<1>2. PICK s \in Subs : s = c.id
  BY <1>1, KeyOfCopy
<1>3. /\ c.state = "ACTIVE" /\ c.period \in 1..(MaxTime + 1) /\ c.due \in 1..(MaxTime + 1)
      /\ c.period <= c.due /\ c.attempts \in Nat
  BY <1>1 DEF Copy, CopyOK, Period
<1>4. c.attempts + 1 < MaxSubscriptionAttempts
  BY <1>1 DEF Retry, IInv, RetriesOK
<1>5. Moves
  BY <1>0, InvTypes, WorkMoves DEF Retry
<1>6. /\ row' \in [Subs -> Row]
      /\ row'[s] = [state |-> "ACTIVE", period |-> c.period, attempts |-> c.attempts + 1,
                    due |-> c.due]
      /\ \A t \in Subs : t # s => row'[t] = row[t]
  <2>1. row' = [row EXCEPT ![s] = [state |-> "ACTIVE", period |-> c.period,
                                   attempts |-> c.attempts + 1, due |-> c.due]]
    BY <1>1, <1>2, <1>3 DEF Retry
  <2>2. [state |-> "ACTIVE", period |-> c.period, attempts |-> c.attempts + 1, due |-> c.due] \in Row
    BY <1>3, SubscriptionsAssumption DEF Row, State
  <2> QED BY <1>0, <2>1, <2>2
<1>7. /\ rewrote \subseteq rewrote' /\ rewrote' \subseteq rewrote \cup {s}
      /\ s \notin rewrote' =>
           /\ s \notin rewrote /\ row[s].state = "ACTIVE"
           /\ row[s].period = c.period /\ row[s].due = c.due
  <2>1. rewrote' = IF CopyOf(s) = c THEN rewrote ELSE rewrote \cup {s}
    BY <1>1, <1>2 DEF Retry
  <2>2. CopyOf(s) = c => row[s].state = "ACTIVE" /\ row[s].period = c.period /\ row[s].due = c.due
    BY <1>3 DEF CopyOf
  <2> QED BY <2>1, <2>2
<1>8. UNCHANGED <<now, keys, funds, perk, charges, lapses, late, spends, faults>>
  BY DEF Retry
<1>9. TypeOK'
  <2>1. \A t \in Subs : row'[t].attempts < MaxSubscriptionAttempts
    BY <1>4, <1>6 DEF IInv, TypeOK
  <2>2. rewrote' \subseteq Subs
    BY <1>7 DEF IInv, TypeOK
  <2> QED BY <1>5, <1>6, <1>8, <2>1, <2>2 DEF IInv, TypeOK, Moves, SweepsOK
<1>10. RowsOK'
  <2>1. RowOK(s)'
    BY <1>3, <1>6 DEF RowOK
  <2>2. \A t \in Subs : t # s => RowOK(t)'
    BY <1>6, <1>7 DEF IInv, RowsOK, RowOK
  <2> QED BY <2>1, <2>2 DEF RowsOK
<1>11. Keyed'
  BY <1>8 DEF IInv, Keyed
<1>12. row[s].state # "none"
  BY <1>1, <1>2 DEF CopyOK
<1>13. Truth'
  <2> SUFFICES ASSUME NEW t \in Subs, t \notin rewrote'
               PROVE  (Paid(t) /\ Owned(t) /\ LateOnce(t))'
    BY DEF Truth
  <2>1. Paid(t) /\ Owned(t) /\ LateOnce(t)
    BY <1>7 DEF IInv, Truth
  <2>2. row'[t].state = row[t].state /\ row'[t].period = row[t].period /\ row'[t].due = row[t].due
    BY <1>6, <1>7
  <2>3. Only(t)' => Only(t)
    BY <1>6, <1>12 DEF Only
  <2> QED BY <1>8, <2>1, <2>2, <2>3 DEF Paid, Owned, LateOnce
<1>14. CopiesOK'
  <2> SUFFICES ASSUME NEW d \in Copy, CopyOK(d) PROVE CopyOK(d)'
    BY <1>5, CopiesKept
  <2>1. d.id \in Subs
    BY KeyOfCopy
  <2>2. row'[d.id].state # "none"
    BY <1>6, <2>1 DEF CopyOK
  <2>3. d.id \notin rewrote' =>
          /\ d.id \notin rewrote
          /\ row'[d.id].period = row[d.id].period /\ row'[d.id].due = row[d.id].due
    BY <1>6, <1>7, <2>1
  <2> QED BY <1>8, <2>2, <2>3 DEF CopyOK
<1> QED BY <1>5, <1>9, <1>10, <1>11, <1>13, <1>14 DEF IInv, Moves

(* A change of the state of one row that keeps its dates. *)
LEMMA StateOnly ==
  ASSUME IInv, Moves, NEW s \in Subs, NEW state \in {"LAPSED", "CANCELED"},
         row[s].state # "none", row' = [row EXCEPT ![s].state = state],
         perk' \in [Users -> [revoked : BOOLEAN, until : 0..(MaxTime + 1)]],
         \A v \in Users : v # UserOf[s] => perk'[v] = perk[v],
         lapses' \subseteq Subs \X Period,
         UNCHANGED <<now, keys, funds, charges, late, rewrote, spends, faults>>
  PROVE  IInv'
<1>0. row \in [Subs -> Row] /\ UserOf \in [Subs -> Users]
  BY SubscriptionsAssumption DEF IInv, TypeOK
<1>1. /\ row' \in [Subs -> Row]
      /\ \A t \in Subs : /\ row'[t].period = row[t].period /\ row'[t].due = row[t].due
                         /\ row'[t].attempts = row[t].attempts
                         /\ row'[t].state = IF t = s THEN state ELSE row[t].state
  <2>1. [row[s] EXCEPT !.state = state] \in Row
    BY <1>0 DEF Row, State
  <2>2. row' = [row EXCEPT ![s] = [row[s] EXCEPT !.state = state]]
    BY <1>0
  <2>3. row' \in [Subs -> Row]
    BY <1>0, <2>1, <2>2
  <2> QED BY <1>0, <2>2, <2>3 DEF Row
<1>2. TypeOK'
  BY <1>1 DEF IInv, TypeOK, Moves, SweepsOK
<1>3. RowsOK'
  BY <1>1 DEF IInv, RowsOK, RowOK
<1>4. Keyed'
  BY DEF IInv, Keyed
<1>5. Truth'
  <2> SUFFICES ASSUME NEW t \in Subs, t \notin rewrote
               PROVE  (Paid(t) /\ Owned(t) /\ LateOnce(t))'
    BY DEF Truth
  <2>1. Paid(t) /\ Owned(t) /\ LateOnce(t)
    BY DEF IInv, Truth
  <2>2. Paid(t)' /\ LateOnce(t)'
    BY <1>1, <2>1 DEF Paid, LateOnce
  <2>3. Owned(t)'
    <3> SUFFICES ASSUME row'[t].state = "ACTIVE", Only(t)'
                 PROVE  ~perk'[UserOf[t]].revoked /\ perk'[UserOf[t]].until = row'[t].due
      BY DEF Owned
    <3>1. t # s /\ row[t].state = "ACTIVE"
      BY <1>1
    <3>2. \A r \in Subs \ {t} : UserOf[r] = UserOf[t] => row'[r].state = "none"
      BY DEF Only
    <3>3. UserOf[t] # UserOf[s]
      BY <1>1, <3>1, <3>2
    <3>4. Only(t)
      BY <1>1, <3>2, <3>3 DEF Only
    <3> QED BY <1>0, <1>1, <2>1, <3>1, <3>3, <3>4 DEF Owned
  <2> QED BY <2>2, <2>3
<1>6. CopiesOK'
  <2> SUFFICES ASSUME NEW d \in Copy, CopyOK(d) PROVE CopyOK(d)'
    BY CopiesKept
  <2>1. d.id \in Subs
    BY KeyOfCopy
  <2>2. row'[d.id].state # "none"
    BY <1>1, <2>1 DEF CopyOK
  <2> QED BY <1>1, <2>1, <2>2 DEF CopyOK
<1> QED BY <1>2, <1>3, <1>4, <1>5, <1>6 DEF IInv, Moves

LEMMA CancelStep ==
  ASSUME IInv, NEW s \in Subs, CancelSubscription(s)
  PROVE  IInv'
<1>1. Moves /\ row[s].state # "none"
  BY InvTypes, SameMoves DEF CancelSubscription
<1>2. perk' \in [Users -> [revoked : BOOLEAN, until : 0..(MaxTime + 1)]]
      /\ lapses' \subseteq Subs \X Period
  BY DEF CancelSubscription, IInv, TypeOK
<1> QED BY <1>1, <1>2, StateOnly DEF CancelSubscription

LEMMA LapseStep ==
  ASSUME IInv, NEW w \in Sweeps, Lapse(w)
  PROVE  IInv'
<1>0. sweep[w] # Idle
  BY DEF Lapse, Idle
<1>1. PICK c \in Copy : c = sweep[w].sub /\ CopyOK(c) /\ UserOf[c.id] \in Users
  BY <1>0, AtCopy
<1>2. PICK s \in Subs : s = c.id
  BY <1>1, KeyOfCopy
<1>3. Moves
  BY <1>0, InvTypes, WorkMoves DEF Lapse
<1>4. lapses' \subseteq Subs \X Period
  BY <1>1 DEF Lapse, IInv, TypeOK, Copy
<1>5. perk' = [perk EXCEPT ![UserOf[s]].revoked = TRUE] /\ UserOf[s] \in Users
  BY <1>1, <1>2 DEF Lapse
<1>6. perk' \in [Users -> [revoked : BOOLEAN, until : 0..(MaxTime + 1)]]
  BY <1>5 DEF IInv, TypeOK
<1>7. \A v \in Users : v # UserOf[s] => perk'[v] = perk[v]
  BY <1>5 DEF IInv, TypeOK
<1>8. row[s].state # "none" /\ row' = [row EXCEPT ![s].state = "LAPSED"]
  BY <1>1, <1>2 DEF Lapse, CopyOK
<1>9. UNCHANGED <<now, keys, funds, charges, late, rewrote, spends, faults>>
  BY DEF Lapse
<1> QED BY <1>3, <1>4, <1>6, <1>7, <1>8, <1>9, StateOnly

(* A first charge: the row starts active, paid for its first period, and owned. *)
LEMMA SubscribeStep ==
  ASSUME IInv, NEW s \in Subs, Subscribe(s)
  PROVE  IInv'
<1>0. /\ MaxTime \in Nat /\ now \in 0..MaxTime /\ row \in [Subs -> Row] /\ Price \in Nat
      /\ MaxSubscriptionAttempts \in Nat \ {0} /\ UserOf \in [Subs -> Users]
      /\ funds \in [Users -> [promo : Nat, cleared : Nat, held : Nat]]
  BY SubscriptionsAssumption DEF IInv, TypeOK
<1>1. PICK u \in Users : u = UserOf[s]
  BY <1>0
<1>2. row[s].state = "none" /\ row[s].period = 0 /\ s \notin rewrote
  BY DEF Subscribe, IInv, RowsOK, RowOK
<1>3. /\ row' \in [Subs -> Row]
      /\ row'[s] = [state |-> "ACTIVE", period |-> 1, attempts |-> 0, due |-> now + 1]
      /\ \A t \in Subs : t # s => row'[t] = row[t]
  <2>1. row' = [row EXCEPT ![s] = [state |-> "ACTIVE", period |-> 1, attempts |-> 0,
                                   due |-> now + 1]]
    BY DEF Subscribe
  <2>2. [state |-> "ACTIVE", period |-> 1, attempts |-> 0, due |-> now + 1] \in Row
    BY <1>0 DEF Row, State
  <2> QED BY <1>0, <2>1, <2>2
<1>4. /\ charges' \in [Subs \X Period -> Nat]
      /\ \A t \in Subs : \A p \in Period :
           charges'[<<t, p>>] = IF t = s /\ p = 1 THEN charges[<<t, p>>] + 1 ELSE charges[<<t, p>>]
  <2>1. charges \in [Subs \X Period -> Nat] /\ charges' = [charges EXCEPT ![<<s, 1>>] = @ + 1]
    BY DEF Subscribe, Charge, IInv, TypeOK
  <2>2. \A t \in Subs : \A p \in Period : <<t, p>> \in Subs \X Period
    OBVIOUS
  <2>3. 1 \in Period
    BY <1>0 DEF Period
  <2> QED BY <2>1, <2>2, <2>3
<1>5. /\ perk' \in [Users -> [revoked : BOOLEAN, until : 0..(MaxTime + 1)]]
      /\ perk'[u] = [revoked |-> FALSE, until |-> now + 1]
      /\ \A v \in Users : v # u => perk'[v] = perk[v]
  <2>1. perk' = [perk EXCEPT ![u] = [revoked |-> FALSE, until |-> now + 1]]
    BY <1>1 DEF Subscribe, Grant
  <2>2. now + 1 \in 0..(MaxTime + 1)
    BY <1>0
  <2> QED BY <2>1, <2>2 DEF IInv, TypeOK
<1>6. funds' \in [Users -> [promo : Nat, cleared : Nat, held : Nat]]
  <2>1. PICK part \in Nat : part = PromoPart(u)
    BY <1>0 DEF PromoPart
  <2>2. part <= funds[u].promo /\ part <= Price
    BY <1>0, <2>1 DEF PromoPart
  <2>3. funds[u].cleared >= Price - part
        /\ funds' = [funds EXCEPT ![u].promo = @ - part, ![u].cleared = @ - (Price - part)]
    BY <1>1, <2>1 DEF Subscribe
  <2>4. funds[u].promo - part \in Nat /\ funds[u].cleared - (Price - part) \in Nat
    BY <1>0, <2>1, <2>2, <2>3
  <2> QED BY <1>0, <2>3, <2>4
<1>7. UNCHANGED <<now, keys, sweep, lapses, late, rewrote, spends, faults>>
  BY DEF Subscribe
<1>8. Moves
  BY <1>7, InvTypes, SameMoves
<1>9. TypeOK'
  <2>1. \A t \in Subs : row'[t].attempts < MaxSubscriptionAttempts
    BY <1>0, <1>3 DEF IInv, TypeOK
  <2> QED BY <1>3, <1>4, <1>5, <1>6, <1>7, <2>1 DEF IInv, TypeOK
<1>10. RowsOK'
  <2>1. RowOK(s)'
    BY <1>0, <1>3 DEF RowOK
  <2>2. \A t \in Subs : t # s => RowOK(t)'
    BY <1>3, <1>7 DEF IInv, RowsOK, RowOK
  <2> QED BY <2>1, <2>2 DEF RowsOK
<1>11. Keyed'
  <2>1. \A t \in Subs : \A p \in Period \ {1} : charges'[<<t, p>>] = charges[<<t, p>>]
    BY <1>4
  <2> QED BY <1>7, <2>1 DEF IInv, Keyed
<1>12. Truth'
  <2> SUFFICES ASSUME NEW t \in Subs, t \notin rewrote
               PROVE  (Paid(t) /\ Owned(t) /\ LateOnce(t))'
    BY <1>7 DEF Truth
  <2>1. Paid(t) /\ Owned(t) /\ LateOnce(t)
    BY DEF IInv, Truth
  <2>2. Paid(t)'
    <3> SUFFICES ASSUME NEW p \in Period
                 PROVE  /\ charges'[<<t, p>>] = IF p <= row'[t].period THEN 1 ELSE 0
                        /\ <<t, p>> \in keys' <=> (2 <= p /\ p <= row'[t].period)
      BY DEF Paid
    <3>1. charges[<<t, p>>] = (IF p <= row[t].period THEN 1 ELSE 0)
          /\ (<<t, p>> \in keys <=> (2 <= p /\ p <= row[t].period))
      BY <2>1 DEF Paid
    <3>2. CASE t # s
      BY <1>3, <1>4, <1>7, <3>1, <3>2
    <3>3. CASE t = s
      <4>1. row'[s].period = 1 /\ p \in Nat /\ 1 <= p
        BY <1>0, <1>3 DEF Period
      <4> QED BY <1>2, <1>4, <1>7, <3>1, <3>3, <4>1
    <3> QED BY <3>2, <3>3
  <2>3. Owned(t)'
    <3> SUFFICES ASSUME row'[t].state = "ACTIVE",
                        \A r \in Subs \ {t} : UserOf[r] = UserOf[t] => row'[r].state = "none"
                 PROVE  ~perk'[UserOf[t]].revoked /\ perk'[UserOf[t]].until = row'[t].due
      BY DEF Owned, Only
    <3>1. CASE t = s
      BY <1>1, <1>3, <1>5, <3>1
    <3>2. CASE t # s
      <4>1. UserOf[t] # u
        BY <1>1, <1>3, <3>2
      <4>2. \A r \in Subs \ {t} : UserOf[r] = UserOf[t] => row[r].state = "none"
        BY <1>1, <1>3, <4>1
      <4> QED BY <1>0, <1>3, <1>5, <2>1, <3>2, <4>1, <4>2 DEF Owned, Only
    <3> QED BY <3>1, <3>2
  <2>4. LateOnce(t)'
    BY <1>2, <1>3, <1>7, <2>1 DEF LateOnce
  <2> QED BY <2>2, <2>3, <2>4
<1>13. CopiesOK'
  <2> SUFFICES ASSUME NEW d \in Copy, CopyOK(d) PROVE CopyOK(d)'
    BY <1>8, CopiesKept
  <2>1. d.id \in Subs /\ d.id # s
    BY <1>2, KeyOfCopy
  <2> QED BY <1>3, <1>7, <2>1 DEF CopyOK
<1> QED BY <1>8, <1>9, <1>10, <1>11, <1>12, <1>13 DEF IInv, Moves

-----------------------------------------------------------------------------
(* The theorems. *)

(* Every reachable state satisfies the invariant. *)
THEOREM Invariance == Spec => []IInv
<1>1. Init => IInv
  BY InitInv
<1>2. IInv /\ [Next]_vars => IInv'
  <2> SUFFICES ASSUME IInv, [Next]_vars PROVE IInv' OBVIOUS
  <2>1. CASE Tick \/ \E u \in Users : Mature(u) \/ SpendElsewhere(u)
    BY <2>1, QuietSteps
  <2>2. CASE \E s \in Subs : Subscribe(s) \/ CancelSubscription(s)
    BY <2>2, SubscribeStep, CancelStep
  <2>3. CASE \E w \in Sweeps : SweepStep(w)
    BY <2>3, Claiming, RenewStep, RetryStep, LapseStep DEF SweepStep
  <2>4. CASE \E w \in Sweeps : \/ \E committed \in BOOLEAN : RenewFails(w, committed)
                               \/ RenewRefused(w) \/ RetryOrLapseFails(w) \/ Crash(w)
    BY <2>4, RenewFailsStep, FailingSteps
  <2>5. CASE UNCHANGED vars
    <3>1. TypeOK' /\ now <= now'
      BY <2>5, InvTypes DEF vars, IInv, TypeOK
    <3>2. Moves
      BY <2>5, InvTypes, SameMoves DEF vars
    <3> QED BY <2>5, <3>1, <3>2, StoreKept DEF vars
  <2> QED BY <2>1, <2>2, <2>3, <2>4, <2>5 DEF Next
<1> QED BY <1>1, <1>2, PTL DEF Spec

(* Every variable of the model has its type: in particular no balance is overdrawn by *)
(* a renewal, and the stored attempts stay below config.maxSubscriptionAttempts.      *)
THEOREM TypeCorrect == Spec => []TypeOK
<1>1. IInv => TypeOK
  BY DEF IInv
<1> QED BY <1>1, Invariance, PTL

(* claimBilling: no period is charged twice, and none is claimed without its charge *)
(* unless a retry overwrote the row.                                                *)
THEOREM ChargedOnce == Spec => []ChargedOncePerClaim
<1>1. IInv => ChargedOncePerClaim
  <2> SUFFICES ASSUME IInv, NEW s \in Subs, NEW p \in Period \ {1}
               PROVE  /\ charges[<<s, p>>] \in (IF <<s, p>> \in keys THEN {0, 1} ELSE {0})
                      /\ s \notin rewrote /\ <<s, p>> \in keys => charges[<<s, p>>] = 1
    BY DEF ChargedOncePerClaim
  <2>1. s \notin rewrote => Paid(s)
    BY DEF IInv, Truth
  <2> QED BY <2>1 DEF IInv, Keyed, Paid
<1> QED BY <1>1, Invariance, PTL

(* An active subscription no retry has overwritten is paid up to its period, and no *)
(* further, and its user owns the perk to the due date.                             *)
THEOREM ActivePaid == Spec => []ActiveIsPaidAndOwned
<1>1. IInv => ActiveIsPaidAndOwned
  BY DEF IInv, Truth, Paid, Owned, ActiveIsPaidAndOwned
<1> QED BY <1>1, Invariance, PTL

(* cancelSubscription: at most one charge follows a cancel, however many sweeps held *)
(* a copy of the row.                                                                *)
THEOREM CancelStops == Spec => []CancelStopsCharges
<1>1. IInv => CancelStopsCharges
  BY DEF IInv, Truth, LateOnce, CancelStopsCharges
<1> QED BY <1>1, Invariance, PTL

=============================================================================
