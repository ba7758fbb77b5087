------------------------------- MODULE Inbox --------------------------------
(***************************************************************************)
(* Inbound provider events: the webhook route claims the event id, stores   *)
(* the operation it stands for as an inbox row and answers; drains of the   *)
(* worker submit the stored operations later; the supervisor revives dead   *)
(* rows a limited number of times.                                          *)
(*                                                                          *)
(* Drains overlap: claimInbound is an autocommit statement, so its row      *)
(* locks are gone when it returns, and a drain works on copies of its rows. *)
(* Every write of a row is a single statement guarded by its status.        *)
(***************************************************************************)
EXTENDS Integers, FiniteSets

CONSTANTS
  Events,            \* provider event ids
  Requests,          \* concurrent webhook requests
  Drains,            \* overlapping inbox drains
  Limit,             \* the most rows a drain may be told to claim
  MaxInboxAttempts,  \* config.maxInboxAttempts
  Threshold,         \* config.inboxDeadLetterThreshold of the supervisor
  ReviveLimit,       \* config.inboxReviveLimit
  MaxActionAttempts, \* config.maxActionAttempts
  MaxFaults          \* bound: crashes and store faults

ASSUME InboxAssumption ==
  /\ IsFiniteSet(Events) /\ IsFiniteSet(Drains) /\ Drains # {}
  /\ Limit \in Nat \ {0} /\ MaxInboxAttempts \in Nat \ {0}
  /\ Threshold \in Nat \ {0} /\ ReviveLimit \in Nat
  /\ MaxActionAttempts \in Nat /\ MaxFaults \in Nat

VARIABLES
  gated,     \* whether the webhook route has a replay store wired
  seen,      \* event ids in the replay store
  received,  \* received_at of the rows, as their rank
  row,       \* the inbox rows
  posts,     \* postings recorded under each event's idempotency key
  request,   \* the webhook requests
  drain,     \* the drains
  signals,   \* dead-letter log signals past the supervisor's watermark
  revives,   \* the supervisor's action.attempts
  faults

vars == <<gated, seen, received, row, posts, request, drain, signals, revives,
          faults>>
edge == <<gated, seen, received, request>>
ops == <<signals, revives>>

-----------------------------------------------------------------------------
Status == {"none", "pending", "applied", "dead"}
Idle == [pc |-> "idle"]
Copy == [event : Events, attempts : Nat]
DrainStep == {"submit", "markApplied", "decline", "deadLetter", "bumpAttempt"}

(* The copies one attempt below the cap may all be bumped, once per drain. *)
MostAttempts == MaxInboxAttempts + Cardinality(Drains) - 2

(* Every variable has its type; overlapping drains take the attempt count past *)
(* its cap, by no more than one bump for each drain but the first.             *)
TypeOK ==
  /\ gated \in BOOLEAN
  /\ seen \subseteq Events
  /\ received \in [Events -> 0..Cardinality(Events)]
  /\ row \in [Events -> [status : Status, attempts : 0..MostAttempts]]
  /\ posts \in [Events -> Nat]
  /\ request \in [Requests -> {Idle} \cup [pc : {"handle"}, event : Events]]
  /\ drain \in [Drains -> {Idle} \cup
       [pc : DrainStep, entry : Copy, rest : SUBSET Copy]]
  /\ signals \in 0..Threshold /\ revives \in 0..MaxActionAttempts
  /\ faults \in 0..MaxFaults

Init ==
  /\ gated \in BOOLEAN
  /\ seen = {} /\ received = [e \in Events |-> 0]
  /\ row = [e \in Events |-> [status |-> "none", attempts |-> 0]]
  /\ posts = [e \in Events |-> 0]
  /\ request = [r \in Requests |-> Idle]
  /\ drain = [d \in Drains |-> Idle]
  /\ signals = 0 /\ revives = 0 /\ faults = 0

-----------------------------------------------------------------------------
(* The webhook route.  A delivery that fails the signature or the freshness   *)
(* gate changes nothing and is no step.                                       *)

Close(r) == request' = [request EXCEPT ![r] = Idle]

(* replayGate commits its claim of the event id on its own, before the handler. *)
ReplayGate(r, e) ==
  /\ gated
  /\ request[r] = Idle
  /\ e \notin seen
  /\ seen' = seen \cup {e}
  /\ request' = [request EXCEPT ![r] = [pc |-> "handle", event |-> e]]
  /\ UNCHANGED <<gated, received, row, posts, drain, ops, faults>>

(* A repeated event id is answered 200 and nothing runs. *)
TurnAway(e) == gated /\ e \in seen /\ UNCHANGED vars

Rows == {e \in Events : row[e].status # "none"}

(* handleWebhook's transaction inserts the row, or finds the one of an earlier *)
(* delivery.                                                                   *)
Record(e) ==
  /\ received' = [received EXCEPT ![e] = IF row[e].status = "none" THEN Cardinality(Rows) ELSE @]
  /\ row' = [row EXCEPT ![e].status = IF @ = "none" THEN "pending" ELSE @]

HandleWebhook(r) ==
  /\ request[r].pc = "handle"
  /\ Record(request[r].event)
  /\ Close(r)
  /\ UNCHANGED <<gated, seen, posts, drain, ops, faults>>

(* Without a replay store, or for a host that calls handleWebhook itself. *)
HandleDirectly(e) ==
  /\ ~gated
  /\ Record(e)
  /\ UNCHANGED <<gated, seen, posts, request, drain, ops, faults>>

(* The handler fails: the provider sees an error and will deliver again. *)
RequestFails(r) ==
  /\ request[r] # Idle
  /\ faults < MaxFaults /\ faults' = faults + 1
  /\ Close(r)
  /\ UNCHANGED <<gated, seen, received, row, posts, drain, ops>>

-----------------------------------------------------------------------------
(* drainInbox *)

(* The n rows of the status that were received first. *)
Oldest(status, n) ==
  LET found == {e \in Events : row[e].status = status}
  IN {e \in found : Cardinality({f \in found : received[f] < received[e]}) < n}

(* The entries of a batch are applied one by one, oldest first. *)
Work(d, batch) ==
  \/ batch = {} /\ drain' = [drain EXCEPT ![d] = Idle]
  \/ \E c \in batch :
       /\ \A b \in batch : received[c.event] <= received[b.event]
       /\ drain' = [drain EXCEPT ![d] = [pc |-> "submit", entry |-> c, rest |-> batch \ {c}]]

ClaimInbound(d, n) ==
  /\ drain[d] = Idle
  /\ Work(d, {[event |-> e, attempts |-> row[e].attempts] : e \in Oldest("pending", n)})
  /\ UNCHANGED <<edge, row, posts, ops, faults>>

Goto(d, pc) == drain' = [drain EXCEPT ![d].pc = pc]
NextEntry(d) == Work(d, drain[d].rest)

(* Mutant: the cap is tested for equality. *)
OnFailureExact(entry, retryable) ==
  IF ~retryable \/ entry.attempts + 1 = MaxInboxAttempts THEN "deadLetter" ELSE "bumpAttempt"

(* recordFailure, on the attempt count of the copy. *)
OnFailure(entry, retryable) ==
  IF ~retryable \/ entry.attempts + 1 >= MaxInboxAttempts THEN "deadLetter" ELSE "bumpAttempt"

(* The worker logs a dead letter before it writes it. *)
Log(next) ==
  signals' = IF next = "deadLetter" /\ signals < Threshold THEN signals + 1 ELSE signals

(* economy.submit answers: committed the first time, duplicate ever after. *)
SubmitApplies(d) ==
  /\ drain[d].pc = "submit"
  /\ posts' = [posts EXCEPT ![drain[d].entry.event] = IF @ = 0 THEN 1 ELSE @]
  /\ Goto(d, "markApplied")
  /\ UNCHANGED <<edge, row, ops, faults>>

(* Mutant: any answer counts as applied. *)
SubmitDeclinesUnseen(d) ==
  /\ drain[d].pc = "submit"
  /\ posts[drain[d].entry.event] = 0
  /\ Goto(d, "markApplied")
  /\ UNCHANGED <<edge, row, posts, ops, faults>>

(* A business rejection; a recorded key is never rejected. *)
SubmitDeclines(d) ==
  /\ drain[d].pc = "submit"
  /\ posts[drain[d].entry.event] = 0
  /\ Goto(d, "decline")
  /\ UNCHANGED <<edge, row, posts, ops, faults>>

(* submit throws; a lost answer to COMMIT throws after the posting landed. *)
SubmitThrows(d, retryable, landed) ==
  /\ drain[d].pc = "submit"
  /\ landed => retryable
  /\ posts' = [posts EXCEPT ![drain[d].entry.event] = IF landed /\ @ = 0 THEN 1 ELSE @]
  /\ LET next == OnFailure(drain[d].entry, retryable) IN Goto(d, next) /\ Log(next)
  /\ UNCHANGED <<edge, row, revives, faults>>

(* A statement guarded by status = 'pending'.  The attempts of an ended row are *)
(* never read again (a revival resets them) and count as 0.                     *)
Update(e, r) == row' = IF row[e].status = "pending" THEN [row EXCEPT ![e] = r] ELSE row

MarkApplied(d) ==
  /\ drain[d].pc = "markApplied"
  /\ Update(drain[d].entry.event, [status |-> "applied", attempts |-> 0])
  /\ NextEntry(d)
  /\ UNCHANGED <<edge, posts, ops, faults>>

BumpAttempt(d) ==
  /\ drain[d].pc = "bumpAttempt"
  /\ Update(drain[d].entry.event, [row[drain[d].entry.event] EXCEPT !.attempts = @ + 1])
  /\ NextEntry(d)
  /\ UNCHANGED <<edge, posts, ops, faults>>

(* Mutant: the dead letter is written whatever the row became. *)
DeadLetterUnguarded(d) ==
  /\ drain[d].pc \in {"deadLetter", "decline"}
  /\ row' = [row EXCEPT ![drain[d].entry.event] = [status |-> "dead", attempts |-> 0]]
  /\ NextEntry(d)
  /\ UNCHANGED <<edge, posts, ops, faults>>

DeadLetter(d) ==
  /\ drain[d].pc \in {"deadLetter", "decline"}
  /\ Update(drain[d].entry.event, [status |-> "dead", attempts |-> 0])
  /\ NextEntry(d)
  /\ UNCHANGED <<edge, posts, ops, faults>>

(* A throwing store call, or the end of the process, drops the whole batch. *)
DrainDies(d) ==
  /\ drain[d] # Idle
  /\ faults < MaxFaults /\ faults' = faults + 1
  /\ drain' = [drain EXCEPT ![d] = Idle]
  /\ UNCHANGED <<edge, row, posts, ops>>

-----------------------------------------------------------------------------
(* The supervisor's inbox pass *)

Revived(dead) ==
  [e \in Events |-> IF e \in dead THEN [status |-> "pending", attempts |-> 0] ELSE row[e]]

(* Mutant: no limit on the actions. *)
SupervisorActsForever ==
  /\ signals >= Threshold
  /\ signals' = 0
  /\ \/ row' = Revived(Oldest("dead", ReviveLimit))
     \/ UNCHANGED row
  /\ UNCHANGED <<edge, posts, drain, revives, faults>>

(* The watermark moves on every decision.  Below the action cap the pass      *)
(* revives, or its lever fails, or the cooldown or a containment suppresses   *)
(* it; at the cap it only pages, and nothing here depends on that.            *)
SupervisorActs ==
  /\ signals >= Threshold
  /\ signals' = 0
  /\ \/ /\ revives < MaxActionAttempts
        /\ row' = Revived(Oldest("dead", ReviveLimit)) \/ UNCHANGED row
        /\ revives' = revives + 1
     \/ UNCHANGED <<row, revives>>
  /\ UNCHANGED <<edge, posts, drain, faults>>

-----------------------------------------------------------------------------
Claim(d) == \E n \in 1..Limit : ClaimInbound(d, n)
Submit(d) ==
  \/ SubmitApplies(d) \/ SubmitDeclines(d)
  \/ \E retryable, landed \in BOOLEAN : SubmitThrows(d, retryable, landed)
DrainStepOf(d) == Submit(d) \/ MarkApplied(d) \/ BumpAttempt(d) \/ DeadLetter(d)

Next ==
  \/ \E r \in Requests, e \in Events : ReplayGate(r, e)
  \/ \E r \in Requests : HandleWebhook(r) \/ RequestFails(r)
  \/ \E e \in Events : HandleDirectly(e) \/ TurnAway(e)
  \/ \E d \in Drains : Claim(d) \/ DrainStepOf(d) \/ DrainDies(d)
  \/ SupervisorActs

Spec == Init /\ [][Next]_vars

(* The drain is scheduled and a running one goes on; nothing is assumed of the *)
(* provider, the supervisor or the answers of submit.                          *)
Fairness == \A d \in Drains : WF_vars(Claim(d) \/ DrainStepOf(d))
FairSpec == Spec /\ Fairness

-----------------------------------------------------------------------------
(* Properties *)

(* A row marked applied stands for exactly one posting, through redeliveries, *)
(* overlapping drains, lost answers and revivals (applyOne).                  *)
AppliedIsReal == \A e \in Events : row[e].status = "applied" => posts[e] = 1

(* An applied row stays applied: no drain that read it earlier, and no        *)
(* revival, touches it (the status guards of the inbox store).                *)
AppliedIsFinal ==
  [][\A e \in Events : row[e].status = "applied" => row'[e].status = "applied"]_vars

(* Every recorded event is in the end applied or dead and stays so (no row is  *)
(* ever deleted): a poison event blocks none behind it, overlapping drains do  *)
(* not carry a row past its cap, and revivals come to an end.                  *)
QueueDrains ==
  \A e \in Events : <>[](row[e].status # "pending")

-----------------------------------------------------------------------------
(* http-service.mdx: a repeated event id "is answered 200 and the handler       *)
(* never runs, so its work happens once".  If the handler fails after the gate  *)
(* committed its claim, every redelivery is turned away and the event is        *)
(* nowhere.                                                                     *)
ReplayedIsRecorded ==
  \A e \in seen :
    row[e].status # "none" \/ \E r \in Requests : request[r] # Idle /\ request[r].event = e
=============================================================================
