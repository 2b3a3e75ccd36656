----------------------------- MODULE RelayProofs -----------------------------
(***************************************************************************)
(* Proofs about the relay, for any number of relays, orders and failures.  *)
(***************************************************************************)
EXTENDS Relay, TLAPS

(* Of an event only its creation matters to the proofs. *)
LEMMA CreationType ==
    ASSUME NEW e \in Events
    PROVE  /\ creation(e) \in Events
           /\ creation(creation(e)) = creation(e)
           /\ e # NoEvent
BY RelayAssumption DEF Events, creation

(* Where a relay is tells whether it has claimed an event. *)
LEMMA HeldEvent ==
    ASSUME TypeOK, NEW r \in Relays
    PROVE  /\ relays[r].at \in {"publishing", "delivered", "failed"} =>
                  relays[r].event \in Events /\ Held(r)
           /\ relays[r].at \in {"stopped", "polling"} => ~Held(r)
           /\ relays[r].event \in Events \cup {NoEvent}
           /\ relays[r] = [at |-> relays[r].at, event |-> relays[r].event]
<1>1. relays[r] \in Positions
  BY DEF TypeOK
<1>2. CASE relays[r] \in {Stopped, Polling}
  BY <1>2 DEF Stopped, Polling, Held
<1>3. CASE relays[r] \in [at : {"publishing", "delivered", "failed"}, event : Events]
  BY <1>3, CreationType DEF Held
<1> QED
  BY <1>1, <1>2, <1>3 DEF Positions

-----------------------------------------------------------------------------
(* The inductive invariant. *)

LEMMA InitInv == Init => RelayInv
<1> SUFFICES ASSUME Init PROVE RelayInv
  OBVIOUS
<1>1. TypeOK
  BY DEF Init, TypeOK, Positions, Row, NoRow
<1>2. ClaimsExclude /\ DeliveredWasSent
  BY DEF Init, ClaimsExclude, DeliveredWasSent, Held, Stopped
<1>3. CreatedEarlier /\ AbsentIsEmpty
  BY CreationType DEF Init, CreatedEarlier, AbsentIsEmpty, NoRow
<1> QED
  BY <1>1, <1>2, <1>3 DEF RelayInv

LEMMA BeginInv ==
    ASSUME RelayInv, NEW e \in Events, Begin(e)
    PROVE  RelayInv'
<1> USE DEF Begin
<1>1. TypeOK'
  BY DEF RelayInv, TypeOK
<1>2. ClaimsExclude' /\ DeliveredWasSent'
  BY DEF RelayInv, ClaimsExclude, DeliveredWasSent, Held
<1>3. CreatedEarlier' /\ AbsentIsEmpty'
  BY CreationType DEF RelayInv, TypeOK, CreatedEarlier, AbsentIsEmpty
<1> QED
  BY <1>1, <1>2, <1>3 DEF RelayInv

LEMMA EnqueueInv ==
    ASSUME RelayInv, NEW e \in Events, enqueue_outbox_event(e)
    PROVE  RelayInv'
<1> USE DEF enqueue_outbox_event
<1>1. TypeOK'
  BY DEF RelayInv, TypeOK, Row
<1>2. ClaimsExclude' /\ DeliveredWasSent'
  BY HeldEvent DEF RelayInv, TypeOK, ClaimsExclude, DeliveredWasSent, Held, Row
<1>3. CreatedEarlier' /\ AbsentIsEmpty'
  BY CreationType DEF RelayInv, TypeOK, CreatedEarlier, AbsentIsEmpty, Row
<1> QED
  BY <1>1, <1>2, <1>3 DEF RelayInv

LEMMA NoticeDeathInv ==
    ASSUME RelayInv, NEW e \in Events, NoticeDeath(e)
    PROVE  RelayInv'
<1> USE DEF NoticeDeath
<1>1. TypeOK'
  BY DEF RelayInv, TypeOK
<1>2. ClaimsExclude' /\ DeliveredWasSent'
  BY DEF RelayInv, ClaimsExclude, DeliveredWasSent, Held
<1>3. CreatedEarlier' /\ AbsentIsEmpty'
  BY DEF RelayInv, CreatedEarlier, AbsentIsEmpty
<1> QED
  BY <1>1, <1>2, <1>3 DEF RelayInv

LEMMA StartInv ==
    ASSUME RelayInv, NEW r \in Relays, Start(r)
    PROVE  RelayInv'
<1> USE DEF Start
<1>1. TypeOK'
  BY DEF RelayInv, TypeOK, Positions
<1>2. ClaimsExclude' /\ DeliveredWasSent'
  BY DEF RelayInv, TypeOK, ClaimsExclude, DeliveredWasSent, Held, Polling
<1>3. CreatedEarlier' /\ AbsentIsEmpty'
  BY DEF RelayInv, CreatedEarlier, AbsentIsEmpty
<1> QED
  BY <1>1, <1>2, <1>3 DEF RelayInv

LEMMA ClaimInv ==
    ASSUME RelayInv, NEW r \in Relays, Claim(r)
    PROVE  RelayInv'
<1>1. PICK e \in Oldest(Claimable) :
          relays' = [relays EXCEPT ![r] = [at |-> "publishing", event |-> e]]
  BY DEF Claim
<1>2. /\ e \in Events
      /\ rows[e].exists /\ ~rows[e].published
      /\ e \notin orphaned
      /\ \A s \in Relays : relays[s].event # e
  BY DEF Oldest, Claimable, Locked
<1>3. UNCHANGED <<clock, began, rows, orphaned, sent, failures>>
  BY DEF Claim
<1>4. TypeOK'
  BY <1>1, <1>2, <1>3 DEF RelayInv, TypeOK, Positions
<1>5. ClaimsExclude' /\ DeliveredWasSent'
  BY <1>1, <1>2, <1>3 DEF RelayInv, TypeOK, ClaimsExclude, DeliveredWasSent, Held
<1>6. CreatedEarlier' /\ AbsentIsEmpty'
  BY <1>3 DEF RelayInv, CreatedEarlier, AbsentIsEmpty
<1> QED
  BY <1>4, <1>5, <1>6 DEF RelayInv

(* The publisher's return: the relay keeps its event, no row changes, and  *)
(* the exchange has no fewer messages than before.                         *)
LEMMA PublishInv ==
    ASSUME RelayInv, NEW r \in Relays, Confirmed(r) \/ Unconfirmed(r) \/ Refused(r)
    PROVE  RelayInv'
<1> DEFINE e == relays[r].event
<1>1. /\ relays[r].at = "publishing"
      /\ e \in Events
  BY HeldEvent DEF RelayInv, Confirmed, Unconfirmed, Refused
<1>2. /\ UNCHANGED <<clock, began, rows, orphaned>>
      /\ failures' \in [Events \cup {NoEvent} -> Nat]
  BY <1>1 DEF RelayInv, TypeOK, Confirmed, Unconfirmed, Refused, Goto, Failure
<1>3. PICK place \in {"delivered", "failed"} :
          /\ relays' = [relays EXCEPT ![r].at = place]
          /\ place = "delivered" => Confirmed(r)
  BY DEF Confirmed, Unconfirmed, Refused, Goto
<1>4. /\ sent' \in [Events -> Nat]
      /\ \A d \in Events : sent'[d] >= sent[d]
      /\ place = "delivered" => sent'[e] > 0
  <2>1. sent' = sent \/ Accept(r)
    BY DEF Confirmed, Unconfirmed, Refused
  <2>2. place = "delivered" => Accept(r)
    BY <1>3 DEF Confirmed
  <2> QED
    BY <2>1, <2>2, <1>1 DEF RelayInv, TypeOK, Accept
<1>5. relays'[r] = [at |-> place, event |-> e]
  BY <1>3, HeldEvent DEF RelayInv, TypeOK
<1>6. \A s \in Relays : s # r => relays'[s] = relays[s]
  BY <1>3 DEF RelayInv, TypeOK
<1>7. TypeOK'
  <2>1. relays' \in [Relays -> Positions]
    BY <1>1, <1>3, <1>5, <1>6 DEF RelayInv, TypeOK, Positions
  <2> QED
    BY <2>1, <1>2, <1>4 DEF RelayInv, TypeOK
<1>8. ClaimsExclude'
  BY <1>2, <1>5, <1>6 DEF RelayInv, ClaimsExclude, Held
<1>9. DeliveredWasSent'
  <2> SUFFICES ASSUME NEW s \in Relays, relays'[s].at = "delivered"
               PROVE  sent'[relays'[s].event] > 0
    BY DEF DeliveredWasSent
  <2>1. CASE s = r
    BY <2>1, <1>4, <1>5
  <2>2. CASE s # r
    <3>1. relays[s].at = "delivered" /\ relays'[s] = relays[s]
      BY <2>2, <1>6
    <3>2. relays[s].event \in Events /\ sent[relays[s].event] > 0
      BY <3>1, HeldEvent DEF RelayInv, DeliveredWasSent
    <3> QED
      BY <3>1, <3>2, <1>4 DEF RelayInv, TypeOK
  <2> QED
    BY <2>1, <2>2
<1>10. CreatedEarlier' /\ AbsentIsEmpty'
  BY <1>2 DEF RelayInv, CreatedEarlier, AbsentIsEmpty
<1> QED
  BY <1>7, <1>8, <1>9, <1>10 DEF RelayInv

LEMMA EndTurnInv ==
    ASSUME RelayInv, NEW r \in Relays, MarkPublished(r) \/ RecordError(r)
    PROVE  RelayInv'
<1> DEFINE e == relays[r].event
<1>1. e \in Events /\ Held(r)
  BY HeldEvent DEF RelayInv, MarkPublished, RecordError
<1>2. PICK published \in BOOLEAN : EndTurn(r, published)
  BY DEF MarkPublished, RecordError
<1>3. /\ rows' = [rows EXCEPT ![e].published = published,
                              ![e].publish_attempts = @ + 1,
                              ![e].last_error = ~published]
      /\ relays' = [relays EXCEPT ![r] = Polling]
      /\ UNCHANGED <<clock, began, orphaned, sent, failures>>
  BY <1>2 DEF EndTurn
<1>4. rows[e] \in Row
  BY <1>1 DEF RelayInv, TypeOK
<1>5. /\ rows'[e] \in Row
      /\ rows'[e].exists = rows[e].exists
      /\ \A d \in Events : d # e => rows'[d] = rows[d]
  BY <1>1, <1>3, <1>4 DEF RelayInv, TypeOK, Row
<1>6. TypeOK'
  <2>1. rows' \in [Events -> Row]
    BY <1>1, <1>3, <1>5 DEF RelayInv, TypeOK
  <2> QED
    BY <2>1, <1>3 DEF RelayInv, TypeOK, Positions
<1>7. ClaimsExclude'
  <2>1. /\ relays'[r] = Polling
        /\ \A s \in Relays : s # r => relays'[s] = relays[s]
    BY <1>3 DEF RelayInv, TypeOK
  <2>2. \A s \in Relays : s # r /\ Held(s) =>
            /\ relays[s].event \in Events
            /\ relays[s].event # e
    BY <1>1, HeldEvent DEF RelayInv, ClaimsExclude, Held
  <2>3. ASSUME NEW s \in Relays, Held(s)'
        PROVE  s # r /\ Held(s) /\ relays'[s] = relays[s]
    BY <2>1, <2>3 DEF Held, Polling
  <2>4. ASSUME NEW s \in Relays, Held(s)'
        PROVE  /\ rows'[relays'[s].event].exists
               /\ ~rows'[relays'[s].event].published
               /\ relays'[s].event \notin orphaned'
    <3>1. s # r /\ Held(s) /\ relays'[s] = relays[s]
      BY <2>3, <2>4
    <3>2. relays[s].event \in Events /\ relays[s].event # e
      BY <2>2, <3>1
    <3>3. /\ rows[relays[s].event].exists
          /\ ~rows[relays[s].event].published
          /\ relays[s].event \notin orphaned
      BY <3>1 DEF RelayInv, ClaimsExclude
    <3>4. rows'[relays[s].event] = rows[relays[s].event] /\ orphaned' = orphaned
      BY <3>2, <1>3, <1>5
    <3> QED
      BY <3>1, <3>3, <3>4
  <2>5. ASSUME NEW s \in Relays, NEW t \in Relays, s # t, Held(s)'
        PROVE  relays'[s].event # relays'[t].event
    <3>1. CASE t = r
      BY <3>1, <2>1, <2>5 DEF Held, Polling
    <3>2. CASE t # r
      BY <3>2, <2>1, <2>3, <2>5 DEF RelayInv, ClaimsExclude
    <3> QED
      BY <3>1, <3>2
  <2> QED
    BY <2>4, <2>5 DEF ClaimsExclude
<1>8. DeliveredWasSent'
  BY <1>3 DEF RelayInv, TypeOK, DeliveredWasSent, Polling
<1>9. CreatedEarlier' /\ AbsentIsEmpty'
  BY <1>1, <1>3, <1>5, CreationType DEF RelayInv, CreatedEarlier, AbsentIsEmpty, ClaimsExclude
<1> QED
  BY <1>6, <1>7, <1>8, <1>9 DEF RelayInv

LEMMA CrashInv ==
    ASSUME RelayInv, NEW r \in Relays, Crash(r)
    PROVE  RelayInv'
<1> DEFINE e == relays[r].event
<1>1. e \in Events \cup {NoEvent}
  BY HeldEvent DEF RelayInv
<1>2. /\ relays' = [relays EXCEPT ![r] = Stopped]
      /\ orphaned' \in {orphaned, orphaned \cup {e}}
      /\ e = NoEvent => orphaned' = orphaned
      /\ UNCHANGED <<clock, began, rows, sent>>
  BY DEF Crash
<1>3. TypeOK'
  BY <1>1, <1>2 DEF RelayInv, TypeOK, Positions, Crash, Failure
<1>4. ClaimsExclude'
  BY <1>1, <1>2 DEF RelayInv, TypeOK, ClaimsExclude, Held, Stopped
<1>5. DeliveredWasSent'
  BY <1>2 DEF RelayInv, TypeOK, DeliveredWasSent, Stopped
<1>6. CreatedEarlier' /\ AbsentIsEmpty'
  BY <1>2 DEF RelayInv, CreatedEarlier, AbsentIsEmpty
<1> QED
  BY <1>3, <1>4, <1>5, <1>6 DEF RelayInv

LEMMA NextInv == RelayInv /\ [Next]_vars => RelayInv'
<1> SUFFICES ASSUME RelayInv, [Next]_vars PROVE RelayInv'
  OBVIOUS
<1>1. ASSUME NEW e \in Events, Begin(e) \/ enqueue_outbox_event(e) \/ NoticeDeath(e)
      PROVE  RelayInv'
  BY <1>1, BeginInv, EnqueueInv, NoticeDeathInv
<1>2. ASSUME NEW r \in Relays, Turn(r) \/ Crash(r), ~UNCHANGED vars
      PROVE  RelayInv'
  BY <1>2, StartInv, ClaimInv, PublishInv, EndTurnInv, CrashInv DEF Turn, Sleep
<1>3. CASE UNCHANGED vars
  BY <1>3 DEF vars, RelayInv, TypeOK, ClaimsExclude, DeliveredWasSent, CreatedEarlier,
               AbsentIsEmpty, Held
<1> QED
  BY <1>1, <1>2, <1>3 DEF Next

(* In every state each relay has what the next step of its turn relies on: *)
(* its event exists, is not published, and is nobody else's.               *)
THEOREM RelayInvariance == Spec => []RelayInv
<1>1. Init => RelayInv
  BY InitInv
<1>2. RelayInv /\ [Next]_vars => RelayInv'
  BY NextInv
<1> QED
  BY <1>1, <1>2, PTL DEF Spec

(* No relay but r is delivering the event r has claimed. *)
LEMMA SoleHolder ==
    ASSUME RelayInv, NEW r \in Relays, NEW e \in Events, relays[r].event = e,
           NEW place, place # relays[r].at
    PROVE  ~Busy(place, e)
BY CreationType DEF RelayInv, ClaimsExclude, Held, Busy

(* A step of r leaves what is being done about the events of other relays. *)
LEMMA OthersBusy ==
    ASSUME RelayInv, NEW r \in Relays, NEW d \in Events, d # relays[r].event,
           NEW next, relays' = [relays EXCEPT ![r] = next], next.event # d,
           NEW place
    PROVE  Busy(place, d)' <=> Busy(place, d)
<1>1. relays'[r] = next /\ \A s \in Relays : s # r => relays'[s] = relays[s]
  BY DEF RelayInv, TypeOK
<1>2. \A s \in Relays : relays[s] = [at |-> place, event |-> d] => s # r
  OBVIOUS
<1>3. \A s \in Relays : relays'[s] = [at |-> place, event |-> d] => s # r
  BY <1>1
<1> QED
  BY <1>1, <1>2, <1>3 DEF Busy

(* A relay that goes on keeps its event. *)
LEMMA KeepsEvent ==
    ASSUME TypeOK, NEW r \in Relays, NEW place,
           relays' = [relays EXCEPT ![r].at = place]
    PROVE  relays' = [relays EXCEPT ![r] = [at |-> place, event |-> relays[r].event]]
<1>1. relays[r] = [at |-> relays[r].at, event |-> relays[r].event]
  BY HeldEvent
<1>2. [relays[r] EXCEPT !.at = place] = [at |-> place, event |-> relays[r].event]
  BY <1>1
<1>3. relays' = [relays EXCEPT ![r] = [relays[r] EXCEPT !.at = place]]
  OBVIOUS
<1> QED
  BY <1>2, <1>3

(* One step of delivery, about the event it delivers and about the others. *)
LEMMA ExplainedByStep ==
    ASSUME RelayInv, DuplicatesAreExplained,
           NEW r \in Relays, NEW e \in Events, relays[r].event = e,
           NEW next \in Positions, relays' = [relays EXCEPT ![r] = next],
           next.event \in {e, NoEvent},
           \A d \in Events : d # e => /\ rows'[d] = rows[d]
                                     /\ sent'[d] = sent[d]
                                     /\ failures'[d] = failures[d],
           sent'[e] <= failures'[e]
                       + One(rows'[e].published \/ next.at = "delivered"),
           rows'[e].publish_attempts + One(next.at = "failed")
               <= failures'[e] + One(rows'[e].published)
    PROVE  DuplicatesAreExplained'
<1> SUFFICES ASSUME NEW d \in Events
             PROVE  /\ sent'[d] <= failures'[d]
                           + One(rows'[d].published \/ Busy("delivered", d)')
                    /\ rows'[d].publish_attempts + One(Busy("failed", d)')
                           <= failures'[d] + One(rows'[d].published)
  BY DEF DuplicatesAreExplained, One
<1>1. CASE d # e
  <2>1. /\ Busy("delivered", d)' <=> Busy("delivered", d)
        /\ Busy("failed", d)' <=> Busy("failed", d)
    BY <1>1, OthersBusy, CreationType
  <2> QED
    BY <1>1, <2>1 DEF DuplicatesAreExplained, One
<1>2. CASE d = e
  <2>1. relays'[r] = next /\ \A s \in Relays : s # r => relays'[s].event # e
    BY CreationType DEF RelayInv, TypeOK, ClaimsExclude, Held
  <2>2. next.at \in {"delivered", "failed"} => next = [at |-> next.at, event |-> e]
    BY CreationType DEF Positions, Stopped, Polling
  <2>3. /\ Busy("delivered", e)' <=> next.at = "delivered"
        /\ Busy("failed", e)' <=> next.at = "failed"
    BY <2>1, <2>2 DEF Busy
  <2> QED
    BY <1>2, <2>3 DEF One
<1> QED
  BY <1>1, <1>2

LEMMA ExplainedByTurn ==
    ASSUME RelayInv, DuplicatesAreExplained, NEW r \in Relays, Turn(r) \/ Crash(r)
    PROVE  DuplicatesAreExplained'
<1> SUFFICES ASSUME NEW e, e = relays[r].event, NEW at, at = relays[r].at
             PROVE  DuplicatesAreExplained'
  OBVIOUS
<1>0. /\ TypeOK
      /\ e \in Events \cup {NoEvent}
      /\ at \in {"publishing", "delivered", "failed"} => e \in Events
      /\ relays[r] \in Positions
  BY HeldEvent DEF RelayInv, TypeOK
<1>1. ASSUME e \in Events
      PROVE  /\ ~rows[e].published
             /\ Busy("delivered", e) <=> at = "delivered"
             /\ Busy("failed", e) <=> at = "failed"
             /\ sent[e] \in Nat /\ failures[e] \in Nat
             /\ rows[e] \in Row
             /\ sent[e] <= failures[e] + One(at = "delivered")
             /\ rows[e].publish_attempts + One(at = "failed") <= failures[e]
  <2>1. ~rows[e].published
    BY <1>1, CreationType DEF RelayInv, ClaimsExclude, Held
  <2>2. /\ Busy("delivered", e) <=> at = "delivered"
        /\ Busy("failed", e) <=> at = "failed"
    BY <1>1, SoleHolder, HeldEvent DEF RelayInv, Busy
  <2>3. sent[e] \in Nat /\ failures[e] \in Nat /\ rows[e] \in Row
    BY <1>0, <1>1 DEF TypeOK
  <2> QED
    BY <1>1, <2>1, <2>2, <2>3 DEF DuplicatesAreExplained, One, Row
<1>2. CASE Start(r) \/ Claim(r) \/ Sleep(r)
  <2>1. UNCHANGED <<rows, sent, failures>>
    BY <1>2 DEF Start, Claim, Sleep, vars
  <2>2. /\ at \in {"stopped", "polling"}
        /\ \A s \in Relays : s # r => relays'[s] = relays[s]
        /\ relays'[r].at \in {"publishing", "stopped", "polling"}
    BY <1>0, <1>2 DEF TypeOK, Start, Claim, Sleep, vars, Polling
  <2>3. \A d \in Events : /\ Busy("delivered", d)' <=> Busy("delivered", d)
                          /\ Busy("failed", d)' <=> Busy("failed", d)
    BY <2>2 DEF Busy
  <2> QED
    BY <2>1, <2>3 DEF DuplicatesAreExplained, One
<1>3. CASE Confirmed(r)
  <2>0. e \in Events /\ at = "publishing"
    BY <1>0, <1>3 DEF Confirmed
  <2>1. /\ sent' = [sent EXCEPT ![e] = @ + 1]
        /\ UNCHANGED <<rows, failures>>
        /\ relays' = [relays EXCEPT ![r] = [at |-> "delivered", event |-> e]]
    BY <1>0, <1>3, KeepsEvent DEF Confirmed, Accept, Goto
  <2>2. [at |-> "delivered", event |-> e] \in Positions
    BY <2>0 DEF Positions
  <2>3. sent'[e] = sent[e] + 1 /\ \A d \in Events \ {e} : sent'[d] = sent[d]
    BY <1>0, <2>0, <2>1 DEF TypeOK
  <2> DEFINE next == [at |-> "delivered", event |-> e]
  <2>4. /\ sent'[e] <= failures'[e] + One(rows'[e].published \/ next.at = "delivered")
        /\ rows'[e].publish_attempts + One(next.at = "failed")
               <= failures'[e] + One(rows'[e].published)
    BY <1>1, <2>0, <2>1, <2>3 DEF One, Row
  <2>5. \A d \in Events : d # e => /\ rows'[d] = rows[d]
                                  /\ sent'[d] = sent[d]
                                  /\ failures'[d] = failures[d]
    BY <2>1, <2>3
  <2>6. next \in Positions /\ next.event = e /\ relays' = [relays EXCEPT ![r] = next]
    BY <2>1, <2>2
  <2> HIDE DEF next
  <2> QED
    BY <2>0, <2>4, <2>5, <2>6, ExplainedByStep
<1>4. CASE Unconfirmed(r) \/ Refused(r)
  <2>0. e \in Events
    BY <1>0, <1>4 DEF Unconfirmed, Refused
  <2>1. /\ e \in Events /\ at = "publishing"
        /\ sent' \in {sent, [sent EXCEPT ![e] = @ + 1]}
        /\ failures' = [failures EXCEPT ![e] = @ + 1]
        /\ UNCHANGED rows
        /\ relays' = [relays EXCEPT ![r] = [at |-> "failed", event |-> e]]
    BY <1>0, <1>4, KeepsEvent DEF Unconfirmed, Refused, Accept, Goto, Failure
  <2>2. [at |-> "failed", event |-> e] \in Positions
    BY <2>1 DEF Positions
  <2>3. /\ sent'[e] \in {sent[e], sent[e] + 1}
        /\ failures'[e] = failures[e] + 1
        /\ \A d \in Events \ {e} : sent'[d] = sent[d] /\ failures'[d] = failures[d]
    BY <1>0, <2>1 DEF TypeOK
  <2> DEFINE next == [at |-> "failed", event |-> e]
  <2>4. /\ sent'[e] <= failures'[e] + One(rows'[e].published \/ next.at = "delivered")
        /\ rows'[e].publish_attempts + One(next.at = "failed")
               <= failures'[e] + One(rows'[e].published)
    BY <1>1, <2>1, <2>3 DEF One, Row
  <2>5. \A d \in Events : d # e => /\ rows'[d] = rows[d]
                                  /\ sent'[d] = sent[d]
                                  /\ failures'[d] = failures[d]
    BY <2>1, <2>3
  <2>6. next \in Positions /\ next.event = e /\ relays' = [relays EXCEPT ![r] = next]
    BY <2>1, <2>2
  <2> HIDE DEF next
  <2> QED
    BY <2>0, <2>4, <2>5, <2>6, ExplainedByStep
<1>5. CASE MarkPublished(r) \/ RecordError(r)
  <2>1. PICK published \in BOOLEAN :
            /\ EndTurn(r, published)
            /\ at = IF published THEN "delivered" ELSE "failed"
    BY <1>5 DEF MarkPublished, RecordError
  <2>2. /\ e \in Events
        /\ UNCHANGED <<sent, failures>>
        /\ relays' = [relays EXCEPT ![r] = Polling]
    BY <1>0, <2>1 DEF EndTurn
  <2>3. /\ rows'[e].published = published
        /\ rows'[e].publish_attempts = rows[e].publish_attempts + 1
        /\ \A d \in Events \ {e} : rows'[d] = rows[d]
    BY <1>0, <1>1, <2>1, <2>2 DEF EndTurn, TypeOK, Row
  <2>4. Polling \in Positions /\ Polling.event = NoEvent /\ Polling.at = "polling"
    BY DEF Positions, Polling
  <2>5. /\ sent'[e] <= failures'[e] + One(rows'[e].published \/ Polling.at = "delivered")
        /\ rows'[e].publish_attempts + One(Polling.at = "failed")
               <= failures'[e] + One(rows'[e].published)
    BY <1>1, <2>1, <2>2, <2>3, <2>4 DEF One, Row
  <2>6. \A d \in Events : d # e => /\ rows'[d] = rows[d]
                                  /\ sent'[d] = sent[d]
                                  /\ failures'[d] = failures[d]
    BY <2>2, <2>3
  <2> QED
    BY <2>2, <2>4, <2>5, <2>6, ExplainedByStep
<1>6. CASE Crash(r)
  <2>1. /\ UNCHANGED <<rows, sent>>
        /\ relays' = [relays EXCEPT ![r] = Stopped]
        /\ failures' = [failures EXCEPT ![e] = @ + 1]
    BY <1>6 DEF Crash, Failure
  <2>2. Stopped \in Positions /\ Stopped.event = NoEvent /\ Stopped.at = "stopped"
    BY DEF Positions, Stopped
  <2>3. CASE e \in Events
    <3>1. /\ failures'[e] = failures[e] + 1
          /\ \A d \in Events \ {e} : failures'[d] = failures[d]
      BY <1>0, <2>1, <2>3 DEF TypeOK
    <3>2. /\ sent'[e] <= failures'[e] + One(rows'[e].published \/ Stopped.at = "delivered")
          /\ rows'[e].publish_attempts + One(Stopped.at = "failed")
                 <= failures'[e] + One(rows'[e].published)
      BY <1>1, <2>1, <2>2, <2>3, <3>1 DEF One, Row
    <3>3. \A d \in Events : d # e => /\ rows'[d] = rows[d]
                                    /\ sent'[d] = sent[d]
                                    /\ failures'[d] = failures[d]
      BY <2>1, <3>1
    <3> QED
      BY <2>1, <2>2, <2>3, <3>2, <3>3, ExplainedByStep
  <2>4. CASE e = NoEvent
    <3>1. \A d \in Events : failures'[d] = failures[d] /\ d # NoEvent
      BY <1>0, <2>1, <2>4, CreationType DEF TypeOK
    <3>2. \A d \in Events : /\ Busy("delivered", d)' <=> Busy("delivered", d)
                            /\ Busy("failed", d)' <=> Busy("failed", d)
      BY <2>1, <2>2, <2>4, <3>1, OthersBusy
    <3> QED
      BY <2>1, <3>1, <3>2 DEF DuplicatesAreExplained, One
  <2> QED
    BY <1>0, <2>3, <2>4
<1> QED
  BY <1>2, <1>3, <1>4, <1>5, <1>6 DEF Turn

(* Two messages of one event, or two attempts, take a failure in between:  *)
(* relays that run together never send an event twice on their own.        *)
THEOREM FailuresExplainDuplicates == Spec => []DuplicatesAreExplained
<1>1. Init => DuplicatesAreExplained
  BY CreationType DEF Init, DuplicatesAreExplained, One, Busy, NoRow, Stopped
<1>2. ASSUME RelayInv, DuplicatesAreExplained, [Next]_vars
      PROVE  DuplicatesAreExplained'
  <2>1. ASSUME NEW e \in Events, Begin(e) \/ NoticeDeath(e)
        PROVE  DuplicatesAreExplained'
    BY <1>2, <2>1 DEF Begin, NoticeDeath, DuplicatesAreExplained, One, Busy
  <2>2. ASSUME NEW e \in Events, enqueue_outbox_event(e)
        PROVE  DuplicatesAreExplained'
    <3>1. \A d \in Events : /\ rows'[d].published = rows[d].published
                            /\ rows'[d].publish_attempts = rows[d].publish_attempts
      BY <1>2, <2>2 DEF enqueue_outbox_event, RelayInv, TypeOK, Row
    <3>2. \A d \in Events : /\ Busy("delivered", d)' <=> Busy("delivered", d)
                            /\ Busy("failed", d)' <=> Busy("failed", d)
      BY <2>2 DEF enqueue_outbox_event, Busy
    <3> QED
      BY <1>2, <2>2, <3>1, <3>2 DEF enqueue_outbox_event, DuplicatesAreExplained, One
  <2>3. CASE UNCHANGED vars
    BY <1>2, <2>3 DEF vars, DuplicatesAreExplained, One, Busy
  <2> QED
    BY <1>2, <2>1, <2>2, <2>3, ExplainedByTurn DEF Next
<1> QED
  BY <1>1, <1>2, RelayInvariance, PTL DEF Spec

-----------------------------------------------------------------------------
(* The relay implements the abstract delivery. *)

(* A step that leaves the rows' existence and publication alone. *)
LEMMA SameState ==
    ASSUME \A e \in Events : /\ rows'[e].exists <=> rows[e].exists
                             /\ rows'[e].published <=> rows[e].published
    PROVE  delivery_state' = delivery_state
BY DEF delivery_state

LEMMA TurnRefines ==
    ASSUME RelayInv, NEW r \in Relays, Turn(r) \/ Crash(r)
    PROVE  [Promise!Next]_<<delivery_state, sent>>
<1> SUFFICES ASSUME NEW e, e = relays[r].event
             PROVE  [Promise!Next]_<<delivery_state, sent>>
  OBVIOUS
<1>1. CASE Start(r) \/ Claim(r) \/ Sleep(r) \/ Refused(r) \/ Crash(r)
  <2>1. UNCHANGED <<rows, sent>>
    BY <1>1 DEF Start, Claim, Sleep, vars, Refused, Goto, Crash
  <2> QED
    BY <2>1, SameState
<1>2. CASE Confirmed(r) \/ Unconfirmed(r)
  <2>1. /\ UNCHANGED rows
        /\ sent' = [sent EXCEPT ![e] = @ + 1]
        /\ relays[r].at = "publishing"
    BY <1>2 DEF Confirmed, Unconfirmed, Goto, Accept
  <2>2. /\ e \in Events
        /\ rows[e].exists /\ ~rows[e].published
    BY <2>1, HeldEvent DEF RelayInv, ClaimsExclude
  <2>3. delivery_state[e] = "pending" /\ delivery_state' = delivery_state
    BY <2>1, <2>2, SameState DEF delivery_state
  <2>4. Promise!Send(e)
    BY <2>1, <2>3 DEF Promise!Send
  <2> QED
    BY <2>2, <2>4 DEF Promise!Next
<1>3. CASE MarkPublished(r) \/ RecordError(r)
  <2>1. PICK published \in BOOLEAN :
            /\ EndTurn(r, published)
            /\ relays[r].at = IF published THEN "delivered" ELSE "failed"
    BY <1>3 DEF MarkPublished, RecordError
  <2>2. /\ e \in Events
        /\ rows[e].exists /\ ~rows[e].published
        /\ published => sent[e] > 0
    BY <2>1, HeldEvent DEF RelayInv, ClaimsExclude, DeliveredWasSent
  <2>3. /\ UNCHANGED sent
        /\ rows'[e].published = published
        /\ rows'[e].exists = rows[e].exists
        /\ \A d \in Events : d # e => rows'[d] = rows[d]
    BY <2>1, <2>2 DEF EndTurn, RelayInv, TypeOK, Row
  <2>4. CASE published
    <3>1. /\ delivery_state[e] = "pending"
          /\ delivery_state' = [delivery_state EXCEPT ![e] = "published"]
      BY <2>2, <2>3, <2>4 DEF delivery_state
    <3>2. Promise!Acknowledge(e)
      BY <2>2, <2>3, <2>4, <3>1 DEF Promise!Acknowledge
    <3> QED
      BY <2>2, <3>2 DEF Promise!Next
  <2>5. CASE ~published
    <3>1. \A d \in Events : /\ rows'[d].exists <=> rows[d].exists
                            /\ rows'[d].published <=> rows[d].published
      BY <2>2, <2>3, <2>5
    <3> QED
      BY <2>3, <3>1, SameState
  <2> QED
    BY <2>4, <2>5
<1> QED
  BY <1>1, <1>2, <1>3 DEF Turn

(* At-least-once delivery: for any number of relays, orders and failures,  *)
(* a row is marked only after its message was accepted, and a marked row   *)
(* is not sent again.                                                      *)
THEOREM DeliveryImplemented == Spec => ImplementsDelivery
<1>1. Init => Promise!Init
  BY DEF Init, Promise!Init, delivery_state, NoRow
<1>2. RelayInv /\ [Next]_vars => [Promise!Next]_<<delivery_state, sent>>
  <2> SUFFICES ASSUME RelayInv, [Next]_vars
               PROVE  [Promise!Next]_<<delivery_state, sent>>
    OBVIOUS
  <2>1. ASSUME NEW e \in Events, Begin(e) \/ NoticeDeath(e)
        PROVE  [Promise!Next]_<<delivery_state, sent>>
    BY <2>1, SameState DEF Begin, NoticeDeath
  <2>2. ASSUME NEW e \in Events, enqueue_outbox_event(e)
        PROVE  [Promise!Next]_<<delivery_state, sent>>
    <3>1. /\ ~rows[e].exists /\ ~rows[e].published
          /\ rows'[e].exists /\ ~rows'[e].published
          /\ \A d \in Events : d # e => rows'[d] = rows[d]
          /\ UNCHANGED sent
      BY <2>2 DEF enqueue_outbox_event, RelayInv, TypeOK, Row, AbsentIsEmpty, NoRow
    <3>2. /\ delivery_state[e] = "absent"
          /\ delivery_state' = [delivery_state EXCEPT ![e] = "pending"]
      BY <3>1 DEF delivery_state
    <3>3. Promise!Enqueue(e)
      BY <3>1, <3>2 DEF Promise!Enqueue
    <3> QED
      BY <3>3 DEF Promise!Next
  <2>3. CASE UNCHANGED vars
    BY <2>3, SameState DEF vars
  <2> QED
    BY <2>1, <2>2, <2>3, TurnRefines DEF Next
<1> QED
  BY <1>1, <1>2, RelayInvariance, PTL DEF Spec, ImplementsDelivery, Promise!Spec

-----------------------------------------------------------------------------
(* The order of an order's two events, for a single relay. *)

(* A cancellation that is or was being delivered is preceded. *)
LEMMA ClaimsAfterCreation ==
    ASSUME RelayInv, orphaned = {}, \A r, s \in Relays : r = s,
           NEW r \in Relays, Claim(r)
    PROVE  LET e == relays'[r].event
           IN  e \in Events /\ (e # creation(e) => rows[creation(e)].published)
<1>1. PICK e \in Oldest(Claimable) :
          relays' = [relays EXCEPT ![r] = [at |-> "publishing", event |-> e]]
  BY DEF Claim
<1>2. e \in Events /\ rows[e].exists /\ \A d \in Claimable : began[e] <= began[d]
  BY DEF Oldest, Claimable
<1>3. relays'[r].event = e
  BY <1>1 DEF RelayInv, TypeOK
<1>4. ASSUME e # creation(e) PROVE rows[creation(e)].published
  <2>1. /\ creation(e) \in Events
        /\ rows[creation(e)].exists
        /\ began[creation(e)] < began[e]
    BY <1>2, <1>4, CreationType DEF RelayInv, CreatedEarlier
  <2>2. creation(e) \notin Claimable
    BY <1>2, <2>1 DEF RelayInv, TypeOK
  <2>3. ~Locked(creation(e))
    <3>1. \A s \in Relays : relays[s].event = NoEvent
      BY HeldEvent DEF RelayInv, Claim, Held
    <3> QED
      BY <2>1, <3>1, CreationType DEF Locked
  <2> QED
    BY <2>1, <2>2, <2>3 DEF Claimable
<1> QED
  BY <1>2, <1>3, <1>4

(* What a single relay has sent or is sending, and its locks' end. *)
SoleRelayInv ==
    /\ orphaned = {}
    /\ CreatedFirst
    /\ \A r \in Relays :
           LET e == relays[r].event
           IN  Held(r) /\ e # creation(e) => rows[creation(e)].published

(* A published row stays published. *)
LEMMA PublishedStays ==
    ASSUME RelayInv, [Next]_vars, NEW e \in Events, rows[e].published
    PROVE  rows'[e].published
<1>1. ASSUME NEW d \in Events, Begin(d) \/ enqueue_outbox_event(d) \/ NoticeDeath(d)
      PROVE  rows'[e].published
  BY <1>1 DEF Begin, enqueue_outbox_event, NoticeDeath, RelayInv, TypeOK, Row
<1>2. ASSUME NEW r \in Relays, MarkPublished(r) \/ RecordError(r)
      PROVE  rows'[e].published
  <2>1. relays[r].event # e
    BY <1>2, HeldEvent DEF MarkPublished, RecordError, RelayInv, ClaimsExclude
  <2> QED
    BY <1>2, <2>1 DEF MarkPublished, RecordError, EndTurn, RelayInv, TypeOK
<1>3. ASSUME NEW r \in Relays,
             \/ Start(r) \/ Claim(r) \/ Sleep(r) \/ Confirmed(r)
             \/ Unconfirmed(r) \/ Refused(r) \/ Crash(r)
      PROVE  rows'[e].published
  BY <1>3 DEF Start, Claim, Sleep, vars, Confirmed, Unconfirmed, Refused, Goto, Crash
<1> QED
  BY <1>1, <1>2, <1>3 DEF Next, Turn, vars

LEMMA SoleRelayStep ==
    ASSUME ~LocksLinger, \A r, s \in Relays : r = s,
           RelayInv, SoleRelayInv, [Next]_vars
    PROVE  SoleRelayInv'
<1>1. \A e \in Events : rows[creation(e)].published => rows'[creation(e)].published
  BY PublishedStays, CreationType
<1>2. ASSUME NEW d \in Events, Begin(d) \/ enqueue_outbox_event(d) \/ NoticeDeath(d)
      PROVE  SoleRelayInv'
  <2>1. UNCHANGED <<relays, sent>> /\ orphaned' = {}
    BY <1>2 DEF Begin, enqueue_outbox_event, NoticeDeath, SoleRelayInv
  <2> QED
    BY <2>1, <1>1, HeldEvent DEF RelayInv, SoleRelayInv, CreatedFirst, Held
<1>3. ASSUME NEW r \in Relays, Turn(r) \/ Crash(r), ~UNCHANGED vars
      PROVE  SoleRelayInv'
  <2>1. orphaned' = {}
    BY <1>3 DEF SoleRelayInv, Turn, Start, Claim, Sleep, Confirmed, Unconfirmed,
                Refused, MarkPublished, RecordError, EndTurn, Goto, Crash
  <2>2. CreatedFirst'
    <3>1. CASE UNCHANGED sent
      BY <3>1, <1>1 DEF SoleRelayInv, CreatedFirst
    <3>2. CASE Confirmed(r) \/ Unconfirmed(r)
      <4>1. Held(r) /\ relays[r].event \in Events
        BY <3>2, HeldEvent DEF RelayInv, Confirmed, Unconfirmed
      <4>2. \A e \in Events : e # relays[r].event => sent'[e] = sent[e]
        BY <3>2 DEF RelayInv, TypeOK, Confirmed, Unconfirmed, Accept
      <4> QED
        BY <1>1, <4>1, <4>2 DEF SoleRelayInv, CreatedFirst
    <3> QED
      BY <1>3, <3>1, <3>2 DEF Turn, Start, Claim, Sleep, Refused,
                MarkPublished, RecordError, EndTurn, Crash
  <2>3. \A s \in Relays : s = r
    OBVIOUS
  <2>4. ASSUME Held(r)'
        PROVE  LET e == relays'[r].event
               IN  e # creation(e) => rows'[creation(e)].published
    <3>1. CASE Claim(r)
      <4>1. UNCHANGED rows
        BY <3>1 DEF Claim
      <4> QED
        BY <3>1, <4>1, ClaimsAfterCreation DEF SoleRelayInv
    <3>2. CASE ~Claim(r)
      <4>1. Start(r) \/ Crash(r) \/ MarkPublished(r) \/ RecordError(r)
                => ~Held(r)'
        BY DEF Start, Crash, MarkPublished, RecordError, EndTurn, RelayInv, TypeOK,
               Held, Polling, Stopped
      <4>2. Confirmed(r) \/ Unconfirmed(r) \/ Refused(r)
        BY <1>3, <2>4, <3>2, <4>1 DEF Turn, Sleep
      <4>3. relays'[r].event = relays[r].event /\ relays[r].event \in Events /\ Held(r)
        BY <4>2, HeldEvent DEF Confirmed, Unconfirmed, Refused, Goto, RelayInv, TypeOK
      <4> QED
        BY <1>1, <4>3 DEF SoleRelayInv
    <3> QED
      BY <3>1, <3>2
  <2> QED
    BY <2>1, <2>2, <2>3, <2>4 DEF SoleRelayInv
<1>4. CASE UNCHANGED vars
  BY <1>4 DEF vars, SoleRelayInv, CreatedFirst, Held
<1> QED
  BY <1>2, <1>3, <1>4 DEF Next

(* A single relay whose locks die with it sends no cancellation before the *)
(* creation of its order has been published.                               *)
THEOREM SoleRelayKeepsOrder ==
    ASSUME ~LocksLinger, \A r, s \in Relays : r = s
    PROVE  Spec => []CreatedFirst
<1>1. Init => SoleRelayInv
  BY CreationType DEF Init, SoleRelayInv, CreatedFirst, Held, Stopped
<1>2. RelayInv /\ SoleRelayInv /\ [Next]_vars => SoleRelayInv'
  BY SoleRelayStep
<1>3. SoleRelayInv => CreatedFirst
  BY DEF SoleRelayInv
<1> QED
  BY <1>1, <1>2, <1>3, RelayInvariance, PTL DEF Spec

=============================================================================
