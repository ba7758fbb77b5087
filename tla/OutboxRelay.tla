---------------------------- MODULE OutboxRelay -----------------------------
(***************************************************************************)
(* The transactional outbox: an event is stored in the transaction of the   *)
(* posting it tells of, and relays of the worker hand stored events to the  *)
(* dispatcher, marking a whole batch relayed at its end.                    *)
(*                                                                          *)
(* Relays overlap: claimBatch is an autocommit statement, so its row locks  *)
(* are gone when it returns, and a relay works on copies of its rows.       *)
(***************************************************************************)
EXTENDS Integers, FiniteSets

CONSTANTS
  Messages,
  Relays,             \* overlapping relay runs
  RelayLimit,         \* the most rows a relay may be told to claim
  MaxOutboxAttempts,  \* config.maxOutboxAttempts
  MaxRelayFaults      \* bound: crashes and store faults

ASSUME OutboxAssumption ==
  /\ IsFiniteSet(Messages) /\ IsFiniteSet(Relays) /\ Relays # {}
  /\ RelayLimit \in Nat \ {0} /\ MaxOutboxAttempts \in Nat \ {0}
  /\ MaxRelayFaults \in Nat

VARIABLES
  created,    \* created_at of the rows, as their rank
  outbox,     \* the outbox rows
  delivered,  \* messages the receiver has got, once or more
  relay,      \* the relay runs
  failures,   \* history: failed deliveries a relay has written down
  relayFaults

relayVars == <<created, outbox, delivered, relay, failures, relayFaults>>

-----------------------------------------------------------------------------
MessageStatus == {"none", "pending", "relayed", "dead"}
RelayIdle == [pc |-> "idle"]
MessageCopy == [id : Messages, attempts : Nat]
RelayStep == {"dispatch", "recordFailure", "deadLetter", "markRelayed"}
Run == [pc : RelayStep, message : MessageCopy, rest : SUBSET MessageCopy,
        relayed : SUBSET Messages]

(* The copies one attempt below the cap may all be bumped, once per relay. *)
MostRelayAttempts == MaxOutboxAttempts + Cardinality(Relays) - 2

(* Every variable has its type; overlapping relays take the attempt count past *)
(* its cap, by no more than one bump for each relay but the first.             *)
RelayTypeOK ==
  /\ created \in [Messages -> 0..Cardinality(Messages)]
  /\ outbox \in [Messages -> [status : MessageStatus, attempts : 0..MostRelayAttempts]]
  /\ delivered \subseteq Messages
  /\ relay \in [Relays -> {RelayIdle} \cup Run]
  /\ failures \in [Messages -> Nat]
  /\ relayFaults \in 0..MaxRelayFaults

RelayInit ==
  /\ created = [m \in Messages |-> 0]
  /\ outbox = [m \in Messages |-> [status |-> "none", attempts |-> 0]]
  /\ delivered = {}
  /\ relay = [w \in Relays |-> RelayIdle]
  /\ failures = [m \in Messages |-> 0]
  /\ relayFaults = 0

-----------------------------------------------------------------------------
OutboxRows == {m \in Messages : outbox[m].status # "none"}

(* A posting commits with its event. *)
Enqueue(m) ==
  /\ outbox[m].status = "none"
  /\ outbox' = [outbox EXCEPT ![m] = [status |-> "pending", attempts |-> 0]]
  /\ created' = [created EXCEPT ![m] = Cardinality(OutboxRows)]
  /\ UNCHANGED <<delivered, relay, failures, relayFaults>>

(* The n pending rows that were created first. *)
OldestMessages(n) ==
  LET found == {m \in Messages : outbox[m].status = "pending"}
  IN {m \in found : Cardinality({o \in found : created[o] < created[m]}) < n}

(* The messages of a batch are sent one by one, oldest first; then the sent *)
(* ones are marked.  A batch without any has nothing to mark.               *)
RelayWork(w, batch, relayed) ==
  \/ /\ batch = {} /\ relayed = {}
     /\ relay' = [relay EXCEPT ![w] = RelayIdle]
  \/ /\ batch = {} /\ relayed # {}
     /\ relay' = [relay EXCEPT ![w].pc = "markRelayed", ![w].relayed = relayed]
  \/ \E c \in batch :
       /\ \A b \in batch : created[c.id] <= created[b.id]
       /\ relay' = [relay EXCEPT ![w] = [pc |-> "dispatch", message |-> c,
                                         rest |-> batch \ {c}, relayed |-> relayed]]

ClaimBatch(w, n) ==
  /\ relay[w] = RelayIdle
  /\ RelayWork(w, {[id |-> m, attempts |-> outbox[m].attempts] :
                      m \in OldestMessages(n)}, {})
  /\ UNCHANGED <<created, outbox, delivered, failures, relayFaults>>

DispatchSucceeds(w) ==
  /\ relay[w].pc = "dispatch"
  /\ delivered' = delivered \cup {relay[w].message.id}
  /\ RelayWork(w, relay[w].rest, relay[w].relayed \cup {relay[w].message.id})
  /\ UNCHANGED <<created, outbox, failures, relayFaults>>

(* Mutant: one attempt short of the cap. *)
OnDispatchFailureEarly(message) ==
  IF message.attempts + 2 >= MaxOutboxAttempts THEN "deadLetter" ELSE "recordFailure"

(* The cap is tested on the attempt count of the copy. *)
OnDispatchFailure(message) ==
  IF message.attempts + 1 >= MaxOutboxAttempts THEN "deadLetter" ELSE "recordFailure"

(* Mutant: a failed message stays in the tally of the relayed ones. *)
DispatchThrowsTallied(w, arrived) ==
  /\ relay[w].pc = "dispatch"
  /\ delivered' = IF arrived THEN delivered \cup {relay[w].message.id} ELSE delivered
  /\ relay' = [relay EXCEPT ![w].pc = OnDispatchFailure(relay[w].message),
                            ![w].relayed = @ \cup {relay[w].message.id}]
  /\ UNCHANGED <<created, outbox, failures, relayFaults>>

(* Mutant: the error of one message ends the whole relay. *)
DispatchThrowsUncaught(w, arrived) ==
  /\ relay[w].pc = "dispatch"
  /\ delivered' = IF arrived THEN delivered \cup {relay[w].message.id} ELSE delivered
  /\ relay' = [relay EXCEPT ![w] = RelayIdle]
  /\ UNCHANGED <<created, outbox, failures, relayFaults>>

(* The dispatcher throws; the message may have arrived anyway. *)
DispatchThrows(w, arrived) ==
  /\ relay[w].pc = "dispatch"
  /\ delivered' = IF arrived THEN delivered \cup {relay[w].message.id} ELSE delivered
  /\ relay' = [relay EXCEPT ![w].pc = OnDispatchFailure(relay[w].message)]
  /\ UNCHANGED <<created, outbox, failures, relayFaults>>

(* A statement guarded by status = 'pending'.  The attempts of an ended row are *)
(* never read again and count as 0.                                             *)
UpdateMessage(m, r) ==
  outbox' = IF outbox[m].status = "pending" THEN [outbox EXCEPT ![m] = r] ELSE outbox
WriteDown(m) == failures' = [failures EXCEPT ![m] = @ + 1]

RecordFailure(w) ==
  /\ relay[w].pc = "recordFailure"
  /\ LET m == relay[w].message.id IN
       /\ UpdateMessage(m, [status |-> "pending", attempts |-> outbox[m].attempts + 1])
       /\ WriteDown(m)
  /\ RelayWork(w, relay[w].rest, relay[w].relayed)
  /\ UNCHANGED <<created, delivered, relayFaults>>

DeadLetterMessage(w) ==
  /\ relay[w].pc = "deadLetter"
  /\ LET m == relay[w].message.id IN
       /\ UpdateMessage(m, [status |-> "dead", attempts |-> 0])
       /\ WriteDown(m)
  /\ RelayWork(w, relay[w].rest, relay[w].relayed)
  /\ UNCHANGED <<created, delivered, relayFaults>>

(* Mutant: the mark is written whatever the rows became. *)
MarkRelayedUnguarded(w) ==
  /\ relay[w].pc = "markRelayed"
  /\ outbox' = [m \in Messages |-> IF m \in relay[w].relayed
                                   THEN [status |-> "relayed", attempts |-> 0] ELSE outbox[m]]
  /\ relay' = [relay EXCEPT ![w] = RelayIdle]
  /\ UNCHANGED <<created, delivered, failures, relayFaults>>

MarkRelayed(w) ==
  /\ relay[w].pc = "markRelayed"
  /\ outbox' = [m \in Messages |-> IF m \in relay[w].relayed /\ outbox[m].status = "pending"
                                   THEN [status |-> "relayed", attempts |-> 0] ELSE outbox[m]]
  /\ relay' = [relay EXCEPT ![w] = RelayIdle]
  /\ UNCHANGED <<created, delivered, failures, relayFaults>>

(* A throwing store call, or the end of the process, drops the whole batch; a *)
(* mark that fails is logged and comes to the same.                           *)
RelayDies(w) ==
  /\ relay[w] # RelayIdle
  /\ relayFaults < MaxRelayFaults /\ relayFaults' = relayFaults + 1
  /\ relay' = [relay EXCEPT ![w] = RelayIdle]
  /\ UNCHANGED <<created, outbox, delivered, failures>>

-----------------------------------------------------------------------------
RelayClaims(w) == \E n \in 1..RelayLimit : ClaimBatch(w, n)
Dispatch(w) ==
  DispatchSucceeds(w) \/ \E arrived \in BOOLEAN : DispatchThrows(w, arrived)
Step(w) == \/ RelayClaims(w) \/ Dispatch(w)
           \/ RecordFailure(w) \/ DeadLetterMessage(w) \/ MarkRelayed(w)

RelayNext ==
  \/ \E m \in Messages : Enqueue(m)
  \/ \E w \in Relays : Step(w) \/ RelayDies(w)

RelaySpec == RelayInit /\ [][RelayNext]_relayVars

(* The relay is scheduled and a running one goes on; nothing is assumed of the *)
(* dispatcher.                                                                 *)
RelayFairSpec == RelaySpec /\ \A w \in Relays : WF_relayVars(Step(w))

-----------------------------------------------------------------------------
(* Properties *)

(* A row marked relayed was delivered: no event is dropped by a relay that    *)
(* failed it while another one worked on it (dispatchOne's tally).            *)
RelayedWasDelivered == \A m \in Messages : outbox[m].status = "relayed" => m \in delivered

(* No event is given up before its deliveries failed maxOutboxAttempts times, *)
(* counted over all relays, though each compares the count of its own copy.   *)
DeadWasTriedOut ==
  \A m \in Messages : outbox[m].status = "dead" => failures[m] >= MaxOutboxAttempts

(* A relayed or dead row never changes again: a stale resend does not flip it *)
(* (the status guards of the outbox store).                                   *)
EndIsFinal ==
  [][\A m \in Messages :
        outbox[m].status \in {"relayed", "dead"} => outbox'[m] = outbox[m]]_relayVars

(* Every event is in the end relayed or dead: a poison event blocks none       *)
(* behind it, and overlapping relays do not carry a row past its cap.          *)
OutboxDrains == \A m \in Messages : <>[](outbox[m].status # "pending")
=============================================================================
