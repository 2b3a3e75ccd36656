------------------------------- MODULE Relay -------------------------------
(***************************************************************************)
(* The outbox relay: app/workers/outbox_relay.py, which calls              *)
(* publish_next_outbox_event of app/services/outbox.py in a loop, with the *)
(* publisher of app/events/rabbitmq.py.  Several relays may run at once.   *)
(*                                                                         *)
(* The events come from the transactions of module Sandbox: one            *)
(* order.created per order and at most one order.canceled, committed       *)
(* later, of which an API transaction in progress shows the relay nothing. *)
(* Its created_at is the moment its transaction began (now() in            *)
(* PostgreSQL), and transactions do not commit in the order they begin.    *)
(* The clock of the database does not run backwards; two transactions that *)
(* begin in the same microsecond are ordered by id, that is, in any order. *)
(*                                                                         *)
(* Bound: MaxFailures is how often delivery of one event fails, and how    *)
(* often a relay dies between two events.                                  *)
(***************************************************************************)
EXTENDS Integers

CONSTANTS
    Relays,        \* relay processes
    OrderIds,      \* the orders that will be created
    NoEvent,       \* what a relay has claimed when it has claimed nothing
    LocksLinger,   \* whether a lock can outlive the process that held it
    MaxFailures

Events == {"order.created", "order.canceled"} \X OrderIds

creation(e) == <<"order.created", e[2]>>

ASSUME RelayAssumption ==
    /\ NoEvent \notin Events
    /\ LocksLinger \in BOOLEAN
    /\ MaxFailures \in Nat

VARIABLES
    clock,      \* how many API transactions have begun
    began,      \* when the transaction of each event began; 0: not yet
    rows,       \* the rows of outbox_events, and those still to come
    relays,     \* where each relay is, and the event whose row it has locked
    orphaned,   \* rows locked by connections whose process has died
    sent,       \* how many messages of each event the exchange has accepted
    failures    \* how often the delivery of each event has failed

vars == <<clock, began, rows, relays, orphaned, sent, failures>>

Row == [exists : BOOLEAN, published : BOOLEAN, publish_attempts : Nat,
        last_error : BOOLEAN]

NoRow == [exists |-> FALSE, published |-> FALSE, publish_attempts |-> 0,
          last_error |-> FALSE]

Stopped == [at |-> "stopped", event |-> NoEvent]
Polling == [at |-> "polling", event |-> NoEvent]

Init ==
    /\ clock = 0
    /\ began = [e \in Events |-> 0]
    /\ rows = [e \in Events |-> NoRow]
    /\ relays = [r \in Relays |-> Stopped]
    /\ orphaned = {}
    /\ sent = [e \in Events |-> 0]
    /\ failures = [e \in Events \cup {NoEvent} |-> 0]

-----------------------------------------------------------------------------
(* The API.  A client cancels an order it has been told of, so that the    *)
(* transaction of the cancellation begins after the creation committed.    *)

Begin(e) ==
    /\ began[e] = 0
    /\ e # creation(e) => rows[creation(e)].exists
    /\ clock' = clock + 1
    /\ began' = [began EXCEPT ![e] = clock + 1]
    /\ UNCHANGED <<rows, relays, orphaned, sent, failures>>

enqueue_outbox_event(e) ==
    /\ began[e] > 0
    /\ ~rows[e].exists
    /\ rows' = [rows EXCEPT ![e].exists = TRUE]
    /\ UNCHANGED <<clock, began, relays, orphaned, sent, failures>>

-----------------------------------------------------------------------------
(* One turn of the relay's loop. *)

Goto(r, place) ==
    /\ relays' = [relays EXCEPT ![r].at = place]
    /\ UNCHANGED <<clock, began, rows, orphaned>>

Failure(e) ==
    /\ failures[e] < MaxFailures
    /\ failures' = [failures EXCEPT ![e] = @ + 1]

(* Connects to the broker; docker restarts the relay when that fails.      *)
Start(r) ==
    /\ relays[r].at = "stopped"
    /\ relays' = [relays EXCEPT ![r] = Polling]
    /\ UNCHANGED <<clock, began, rows, orphaned, sent, failures>>

(* Fault: rows are selected without FOR UPDATE SKIP LOCKED. *)
NeverLocked(e) == FALSE

Locked(e) == e \in orphaned \/ \E r \in Relays : relays[r].event = e

Claimable == {e \in Events : rows[e].exists /\ ~rows[e].published /\ ~Locked(e)}

(* Fault: rows are not ordered. *)
AnyOf(S) == S

(* ORDER BY created_at. *)
Oldest(S) == {e \in S : \A d \in S : began[e] <= began[d]}

Claim(r) ==
    /\ relays[r].at = "polling"
    /\ \E e \in Oldest(Claimable) :
           relays' = [relays EXCEPT ![r] = [at |-> "publishing", event |-> e]]
    /\ UNCHANGED <<clock, began, rows, orphaned, sent, failures>>

(* A relay that finds nothing sleeps and asks again. *)
Sleep(r) ==
    /\ relays[r].at = "polling"
    /\ Claimable = {}
    /\ UNCHANGED vars

Accept(r) == sent' = [sent EXCEPT ![relays[r].event] = @ + 1]

(* The exchange takes the message and its confirmation arrives. *)
Confirmed(r) ==
    /\ relays[r].at = "publishing"
    /\ Accept(r)
    /\ Goto(r, "delivered")
    /\ UNCHANGED failures

(* It takes the message, and the connection drops before it says so. *)
Unconfirmed(r) ==
    /\ relays[r].at = "publishing"
    /\ Failure(relays[r].event)
    /\ Accept(r)
    /\ Goto(r, "failed")

(* Fault: an exception of the publisher is swallowed. *)
RefusedSilently(r) ==
    /\ relays[r].at = "publishing"
    /\ Failure(relays[r].event)
    /\ Goto(r, "delivered")
    /\ UNCHANGED sent

(* It refuses the message, or cannot be reached. *)
Refused(r) ==
    /\ relays[r].at = "publishing"
    /\ Failure(relays[r].event)
    /\ Goto(r, "failed")
    /\ UNCHANGED sent

(* The end of the transaction: the row is written and unlocked. *)
EndTurn(r, published) ==
    LET e == relays[r].event
    IN  /\ rows' = [rows EXCEPT ![e].published = published,
                                ![e].publish_attempts = @ + 1,
                                ![e].last_error = ~published]
        /\ relays' = [relays EXCEPT ![r] = Polling]
        /\ UNCHANGED <<clock, began, orphaned, sent, failures>>

MarkPublished(r) == relays[r].at = "delivered" /\ EndTurn(r, TRUE)

(* Fault: the transaction of a failed delivery is left open. *)
RecordErrorKeepingLock(r) ==
    /\ relays[r].at = "failed"
    /\ Goto(r, "polling")
    /\ UNCHANGED <<sent, failures>>

RecordError(r) == relays[r].at = "failed" /\ EndTurn(r, FALSE)

-----------------------------------------------------------------------------
(* The relay is killed, or a statement or commit of its transaction fails, *)
(* which ends the process as well.  PostgreSQL rolls back and unlocks the  *)
(* row when it notices that the connection is gone.                        *)

Crash(r) ==
    LET e == relays[r].event
    IN  /\ relays[r].at # "stopped"
        /\ Failure(e)
        /\ relays' = [relays EXCEPT ![r] = Stopped]
        /\ orphaned' = IF LocksLinger /\ e # NoEvent THEN orphaned \cup {e}
                       ELSE orphaned
        /\ UNCHANGED <<clock, began, rows, sent>>

NoticeDeath(e) ==
    /\ e \in orphaned
    /\ orphaned' = orphaned \ {e}
    /\ UNCHANGED <<clock, began, rows, relays, sent, failures>>

-----------------------------------------------------------------------------
Turn(r) ==
    \/ Start(r)
    \/ Claim(r)
    \/ Sleep(r)
    \/ Confirmed(r)
    \/ Unconfirmed(r)
    \/ Refused(r)
    \/ MarkPublished(r)
    \/ RecordError(r)

Next ==
    \/ \E e \in Events : Begin(e) \/ enqueue_outbox_event(e) \/ NoticeDeath(e)
    \/ \E r \in Relays : Turn(r) \/ Crash(r)

Spec == Init /\ [][Next]_vars

(* The loop of a living relay goes on, docker-compose.yml restarts a dead  *)
(* one ("restart: unless-stopped"), and PostgreSQL notices at last that a  *)
(* connection is gone.  Nothing obliges the API to commit.                 *)
FairSpec ==
    /\ Spec
    /\ \A r \in Relays : WF_vars(Turn(r))
    /\ \A e \in Events : WF_vars(NoticeDeath(e))

-----------------------------------------------------------------------------
Held(r) == relays[r].event # NoEvent

Busy(place, e) == \E r \in Relays : relays[r] = [at |-> place, event |-> e]

One(condition) == IF condition THEN 1 ELSE 0

Positions == {Stopped, Polling} \cup
    [at : {"publishing", "delivered", "failed"}, event : Events]

TypeOK ==
    /\ clock \in Nat
    /\ began \in [Events -> Nat]
    /\ rows \in [Events -> Row]
    /\ relays \in [Relays -> Positions]
    /\ orphaned \in SUBSET Events
    /\ sent \in [Events -> Nat]
    /\ failures \in [Events \cup {NoEvent} -> Nat]

(* An event is being delivered by one relay at a time, and only while its  *)
(* row is there and not yet marked as published.                           *)
ClaimsExclude ==
    /\ \A r \in Relays : Held(r) =>
           /\ rows[relays[r].event].exists
           /\ ~rows[relays[r].event].published
           /\ relays[r].event \notin orphaned
    /\ \A r, s \in Relays : r # s /\ Held(r) => relays[r].event # relays[s].event

(* The message whose confirmation a relay is about to record is there. *)
DeliveredWasSent ==
    \A r \in Relays : relays[r].at = "delivered" => sent[relays[r].event] > 0

(* Only a transaction that has begun commits, and a cancellation begins    *)
(* after the creation of its order.                                        *)
CreatedEarlier ==
    \A e \in Events :
        /\ began[e] <= clock
        /\ rows[e].exists => began[e] > 0
        /\ began[e] > 0 /\ e # creation(e) =>
               /\ rows[creation(e)].exists
               /\ began[creation(e)] < began[e]

(* A row that has not been inserted has nothing in it. *)
AbsentIsEmpty == \A e \in Events : ~rows[e].exists => rows[e] = NoRow

(* The retry metadata account for every message: beyond the one of the     *)
(* delivery that is marked, each message of an event, and each attempt its *)
(* row counts, goes with a failure of the broker or of a relay.            *)
DuplicatesAreExplained ==
    \A e \in Events :
        /\ sent[e] <= failures[e] + One(rows[e].published \/ Busy("delivered", e))
        /\ rows[e].publish_attempts + One(Busy("failed", e))
               <= failures[e] + One(rows[e].published)

(* What the next step of each relay relies on, whatever the others and the *)
(* API do meanwhile: the inductive invariant.                              *)
RelayInv ==
    /\ TypeOK
    /\ ClaimsExclude
    /\ DeliveredWasSent
    /\ CreatedEarlier
    /\ AbsentIsEmpty

-----------------------------------------------------------------------------
delivery_state ==
    [e \in Events |-> IF ~rows[e].exists THEN "absent"
                      ELSE IF rows[e].published THEN "published" ELSE "pending"]

(* The relay implements the promise of the outbox, however many relays     *)
(* run, and whenever they or the broker fail: README.md:41, "at-least-once *)
(* delivery", and no message of a published event afterwards.              *)
Promise == INSTANCE Delivery WITH state <- delivery_state

ImplementsDelivery == Promise!Spec

(* A single relay, whose locks die with it, never sends the cancellation   *)
(* of an order before its creation, whatever is refused, lost or sent      *)
(* twice: the creation stays the oldest until it is published.             *)
CreatedFirst ==
    \A e \in Events : e # creation(e) /\ sent[e] > 0 => rows[creation(e)].published

(* Every committed event is published at last, provided that failures are  *)
(* finitely many: no lock is left, and no event blocks another for ever.   *)
EveryEventPublished == \A e \in Events : rows[e].exists ~> rows[e].published

=============================================================================
