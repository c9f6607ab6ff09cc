-------------------------- MODULE AuditTrailProofs --------------------------
(***************************************************************************)
(* Proofs about module AuditTrail, for every number of requests, events,   *)
(* windows and limits, and every store.                                    *)
(*                                                                         *)
(* Inv says that an event in the hands of a request is one that Record was *)
(* called with, in nobody else's hands and not announced yet, and that it  *)
(* is written, or was refused, before it is announced.  LockInv adds that  *)
(* a lock leaves a trace, from the handler's hands into the trail.  The    *)
(* digests need that rows lie in the past and in order (Order), that what  *)
(* a count did not see was in flight when it ran (CatchInv), and that what *)
(* the searches list agrees with what the count saw (BuildInv).  The       *)
(* order of SQLite's timestamps is that of their text (TextKeepsOrder).    *)
(***************************************************************************)
EXTENDS AuditTrail, FiniteSetTheorems, TLAPS

Types == EventTypes \cup {HostType, ""} \cup {event.type : event \in Others}
People == {User, ""} \cup {event.user : event \in Others}

\* Where a request is while Record runs, and where it goes after that.
Holding == {"stamp", "insert", "notify"}
Afterwards == {"idle", "increment", "delete"}

Writer == [pc : Holding \cup Afterwards \cup {"lock"}, ev : Nat, type : Types,
           user : People, at : Nat, then : Afterwards]
Rows == [ev : Nat, type : Types, user : People, at : Nat, seq : Nat]

TypeOK ==
  /\ clock \in Nat
  /\ account \in [exists : BOOLEAN, failed : Nat, lockedUntil : Nat]
  /\ trail \subseteq Rows /\ IsFiniteSet(trail)
  /\ writer \in [Requests -> Writer]

\* NextEvent is a number that no event has.
Numbered ==
  /\ IsFiniteSet(begun)
  /\ \A e \in begun : e.ev \in 1..Cardinality(begun)
  /\ \A e, f \in begun : e.ev = f.ev => e = f

\* Record holds an event that it was called with, and no two hold the same.
WritersHold ==
  \A r \in Requests : writer[r].pc \in Holding =>
    /\ [ev |-> writer[r].ev, type |-> writer[r].type] \in begun
    /\ writer[r].pc = "notify" => writer[r].type \in DefaultWebhookEvents
    /\ \A q \in Requests \ {r} :
         writer[q].pc \in Holding => writer[q].ev # writer[r].ev

\* What was announced was to be, once, and by nobody who still holds it.
Announced ==
  /\ \A n \in notices : \E e \in begun :
       e.ev = n.ev /\ e.type = n.type /\ e.type \in DefaultWebhookEvents
  /\ \A n, m \in notices : n.ev = m.ev => n = m
  /\ \A r \in Requests : writer[r].pc \in Holding =>
       \A n \in notices : n.ev # writer[r].ev
  /\ \A e \in begun : e.type \in DefaultWebhookEvents =>
       Held(e.ev) \/ e.ev \in unsent \/ \E n \in notices : n.ev = e.ev

\* The event has a row, or its INSERT failed.
Written(ev, type) ==
  ev \in unrecorded \/ \E row \in trail : row.ev = ev /\ row.type = type

RowsFirst ==
  /\ \A n \in notices : Written(n.ev, n.type)
  /\ \A r \in Requests :
       writer[r].pc = "notify" => Written(writer[r].ev, writer[r].type)

Inv == TypeOK /\ Numbered /\ WritersHold /\ Announced /\ RowsFirst

-----------------------------------------------------------------------------
(* What a step does to the requests and to the events in their hands *)

\* An idle request is a well-formed one, and holds nothing.
LEMMA IdleWriter ==
  /\ Idle \in Writer /\ Idle.pc = "idle" /\ "idle" \notin Holding
  /\ Afterwards \cap Holding = {} /\ "lock" \notin Holding
  /\ DefaultWebhookEvents \subseteq EventTypes
  BY DEF Idle, Writer, Holding, Afterwards, Types, People, DefaultWebhookEvents, EventTypes

\* The number of the next event is new.
LEMMA NextEventIsNew ==
  ASSUME Numbered
  PROVE  /\ NextEvent \in Nat /\ \A e \in begun : e.ev # NextEvent
         /\ \A type : LET new == begun \cup {[ev |-> NextEvent, type |-> type]}
                      IN  /\ IsFiniteSet(new)
                          /\ \A e \in new : e.ev \in 1..Cardinality(new)
                          /\ \A e, f \in new : e.ev = f.ev => e = f
<1>1. Cardinality(begun) \in Nat /\ IsFiniteSet(begun)
  BY FS_CardinalityType DEF Numbered
<1>2. NextEvent = Cardinality(begun) + 1 /\ NextEvent \in Nat
  BY <1>1 DEF NextEvent
<1>3. \A e \in begun : e.ev # NextEvent
  BY <1>1, <1>2 DEF Numbered
<1>4. ASSUME NEW type
      PROVE  LET new == begun \cup {[ev |-> NextEvent, type |-> type]}
             IN  /\ IsFiniteSet(new)
                 /\ \A e \in new : e.ev \in 1..Cardinality(new)
                 /\ \A e, f \in new : e.ev = f.ev => e = f
  <2> DEFINE one == [ev |-> NextEvent, type |-> type]
             new == begun \cup {one}
  <2>1. one.ev = NextEvent
    OBVIOUS
  <2>2. one \notin begun
    BY <1>3, <2>1
  <2> HIDE DEF one
  <2>3. IsFiniteSet(new) /\ Cardinality(new) = Cardinality(begun) + 1
    BY <1>1, <2>2, FS_AddElement
  <2> HIDE DEF new
  <2>4. \A e \in new : e \in begun \/ e = one
    BY DEF new
  <2>5. \A e \in new : e.ev \in 1..Cardinality(new)
    BY <1>1, <1>2, <2>1, <2>3, <2>4 DEF Numbered
  <2>6. \A e, f \in new : e.ev = f.ev => e = f
    BY <1>3, <2>1, <2>4 DEF Numbered
  <2>7. QED
    BY <2>3, <2>5, <2>6 DEF new, one
<1>5. QED
  BY <1>2, <1>3, <1>4

\* Request r starts to record a new event, and had none in its hands.
LEMMA BeginStep ==
  ASSUME Inv, NEW r \in Requests, writer[r].pc \notin Holding,
         NEW type \in Types, NEW user \in People, NEW then \in Afterwards,
         StartRecord(r, type, user, then),
         account' \in [exists : BOOLEAN, failed : Nat, lockedUntil : Nat],
         UNCHANGED <<clock, trail, notices, unrecorded, unsent>>
  PROVE  Inv'
<1> DEFINE q == [pc |-> "stamp", ev |-> NextEvent, type |-> type, user |-> user,
                 at |-> 0, then |-> then]
<1>1. /\ NextEvent \in Nat /\ \A e \in begun : e.ev # NextEvent
      /\ Numbered' /\ begun' = begun \cup {[ev |-> NextEvent, type |-> type]}
  BY NextEventIsNew DEF Inv, Numbered, StartRecord
<1>2. /\ q \in Writer /\ q.pc = "stamp" /\ q.ev = NextEvent /\ q.type = type
      /\ "stamp" \in Holding
  BY <1>1 DEF Writer, Holding
<1>3. writer \in [Requests -> Writer] /\ writer' = [writer EXCEPT ![r] = q]
  BY DEF Inv, TypeOK, StartRecord
<1> HIDE DEF q
<1>4. /\ writer' \in [Requests -> Writer] /\ writer'[r] = q
      /\ \A x \in Requests \ {r} : writer'[x] = writer[x]
  BY <1>2, <1>3
<1>5. TypeOK'
  BY <1>4 DEF Inv, TypeOK
<1>6. \A x \in Requests : writer[x].pc \in Holding => writer[x].ev # NextEvent
  BY <1>1 DEF Inv, WritersHold
<1>7. WritersHold'
  BY <1>1, <1>2, <1>4, <1>6 DEF Inv, WritersHold
<1>8. \A n \in notices : n.ev # NextEvent
  BY <1>1 DEF Inv, Announced
<1>9. \A ev : Held(ev) => Held(ev)'
  BY <1>2, <1>4 DEF Held, Holding
<1>10. \A ev : ev = NextEvent => Held(ev)'
  BY <1>2, <1>4 DEF Held
<1>11. Announced'
  <2>1. \A e \in begun' : e \in begun \/ e.ev = NextEvent
    BY <1>1
  <2>2. \A x \in Requests : writer'[x].pc \in Holding =>
          \A n \in notices : n.ev # writer'[x].ev
    BY <1>2, <1>4, <1>8 DEF Inv, Announced
  <2>3. ASSUME NEW e \in begun', e.type \in DefaultWebhookEvents
        PROVE  Held(e.ev)' \/ e.ev \in unsent \/ \E n \in notices : n.ev = e.ev
    <3>1. CASE e \in begun
      BY <1>9, <2>3, <3>1 DEF Inv, Announced
    <3>2. CASE e.ev = NextEvent
      BY <1>10, <3>2
    <3>3. QED
      BY <2>1, <3>1, <3>2
  <2>4. QED
    BY <1>1, <2>2, <2>3 DEF Inv, Announced
<1>12. RowsFirst'
  BY <1>2, <1>4 DEF Inv, RowsFirst, Written
<1>13. QED
  BY <1>1, <1>5, <1>7, <1>11, <1>12 DEF Inv

\* Request r goes on to q.  What it has to show for an event that it lets go of,
\* and what it may announce.
LEMMA MoveStep ==
  ASSUME Inv, NEW r \in Requests, NEW q \in Writer,
         writer' = [writer EXCEPT ![r] = q], UNCHANGED <<clock, begun>>,
         account' \in [exists : BOOLEAN, failed : Nat, lockedUntil : Nat],
         trail' \subseteq Rows, IsFiniteSet(trail'),
         \A row \in trail : \E x \in trail' : x.ev = row.ev /\ x.type = row.type,
         unrecorded \subseteq unrecorded', unsent \subseteq unsent',
         q.pc \in Holding => /\ writer[r].pc \in Holding /\ q.ev = writer[r].ev
                             /\ q.type = writer[r].type /\ UNCHANGED notices,
         q.pc = "notify" => q.type \in DefaultWebhookEvents /\ Written(q.ev, q.type)',
         notices \subseteq notices',
         \A n \in notices' \ notices : /\ writer[r].pc = "notify"
                                       /\ n.ev = writer[r].ev /\ n.type = writer[r].type,
         \A n, m \in notices' \ notices : n = m,
         writer[r].pc \in Holding /\ q.pc \notin Holding
           /\ writer[r].type \in DefaultWebhookEvents =>
             writer[r].ev \in unsent' \/ \E n \in notices' : n.ev = writer[r].ev
  PROVE  Inv'
<1>1. writer \in [Requests -> Writer]
  BY DEF Inv, TypeOK
<1>2. /\ writer' \in [Requests -> Writer] /\ writer'[r] = q
      /\ \A x \in Requests \ {r} : writer'[x] = writer[x]
  BY <1>1
<1>3. TypeOK'
  BY <1>2 DEF Inv, TypeOK
<1>4. Numbered'
  BY DEF Inv, Numbered
<1>5. WritersHold'
  BY <1>2 DEF Inv, WritersHold
<1>6. \A ev, type : Written(ev, type) => Written(ev, type)'
  BY DEF Written
<1>7. "notify" \in Holding
  BY DEF Holding
<1>8. RowsFirst'
  <2>1. \A n \in notices' : Written(n.ev, n.type)'
    BY <1>6 DEF Inv, RowsFirst
  <2>2. ASSUME NEW x \in Requests, writer'[x].pc = "notify"
        PROVE  Written(writer[x].ev, writer[x].type)'
    <3>1. CASE x = r
      BY <1>2, <2>2, <3>1 DEF Written
    <3>2. CASE x # r
      BY <1>2, <2>2, <3>2 DEF Inv, RowsFirst, Written
    <3>3. QED
      BY <3>1, <3>2
  <2>3. QED
    BY <2>1, <2>2 DEF RowsFirst
<1>9. Announced'
  <2>1. \A n \in notices' : \E e \in begun' :
          e.ev = n.ev /\ e.type = n.type /\ e.type \in DefaultWebhookEvents
    <3> SUFFICES ASSUME NEW n \in notices' \ notices
                 PROVE  \E e \in begun : e.ev = n.ev /\ e.type = n.type
                                        /\ e.type \in DefaultWebhookEvents
      BY DEF Inv, Announced
    <3> DEFINE e == [ev |-> writer[r].ev, type |-> writer[r].type]
    <3>1. e \in begun /\ writer[r].type \in DefaultWebhookEvents
      BY <1>7 DEF Inv, WritersHold
    <3>2. e.ev = n.ev /\ e.type = n.type
      OBVIOUS
    <3>3. QED
      BY <3>1, <3>2
  <2>2. \A n, m \in notices' : n.ev = m.ev => n = m
    BY <1>7 DEF Inv, Announced
  <2>3. \A x \in Requests : writer'[x].pc \in Holding =>
          \A n \in notices' : n.ev # writer'[x].ev
    <3> SUFFICES ASSUME NEW x \in Requests, writer'[x].pc \in Holding, NEW n \in notices'
                 PROVE  n.ev # writer'[x].ev
      OBVIOUS
    <3>1. CASE x = r
      BY <1>2, <3>1 DEF Inv, Announced
    <3>2. CASE x # r /\ n \in notices
      BY <1>2, <3>2 DEF Inv, Announced
    <3>3. CASE x # r /\ n \notin notices
      <4>1. writer[r].pc \in Holding /\ n.ev = writer[r].ev
        BY <1>7, <3>3
      <4>2. writer'[x] = writer[x] /\ writer[x].pc \in Holding
        BY <1>2, <3>3
      <4>3. writer[x].ev # writer[r].ev
        BY <3>3, <4>1, <4>2 DEF Inv, WritersHold
      <4>4. QED
        BY <4>1, <4>2, <4>3
    <3>4. QED
      BY <3>1, <3>2, <3>3
  <2>4. ASSUME NEW e \in begun, e.type \in DefaultWebhookEvents
        PROVE  Held(e.ev)' \/ e.ev \in unsent' \/ \E n \in notices' : n.ev = e.ev
    <3>1. CASE e.ev \in unsent \/ \E n \in notices : n.ev = e.ev
      BY <3>1
    <3>2. CASE Held(e.ev)
      <4>1. PICK x \in Requests : writer[x].ev = e.ev /\ writer[x].pc \in Holding
        BY <3>2 DEF Held, Holding
      <4>2. CASE x # r
        BY <1>2, <4>1, <4>2 DEF Held, Holding
      <4>3. CASE x = r /\ q.pc \in Holding
        BY <1>2, <4>1, <4>3 DEF Held, Holding
      <4>4. CASE x = r /\ q.pc \notin Holding
        <5> DEFINE f == [ev |-> writer[r].ev, type |-> writer[r].type]
        <5>1. f \in begun /\ f.ev = e.ev /\ f.type = writer[r].type
          BY <4>1, <4>4 DEF Inv, WritersHold
        <5> HIDE DEF f
        <5>2. f = e
          BY <5>1 DEF Inv, Numbered
        <5>3. QED
          BY <2>4, <4>1, <4>4, <5>1, <5>2
      <4>5. QED
        BY <4>2, <4>3, <4>4
    <3>3. QED
      BY <2>4, <3>1, <3>2 DEF Inv, Announced
  <2>5. QED
    BY <2>1, <2>2, <2>3, <2>4 DEF Announced
<1>10. QED
  BY <1>3, <1>4, <1>5, <1>8, <1>9 DEF Inv

-----------------------------------------------------------------------------
(* Every step preserves Inv *)

\* Where Goto leads.
LEMMA GotoLeads ==
  ASSUME TypeOK, NEW r \in Requests, NEW pc \in Holding \cup Afterwards \cup {"lock"},
         Goto(r, pc)
  PROVE  \E q \in Writer :
           /\ writer' = [writer EXCEPT ![r] = q] /\ q.pc = pc
           /\ pc # "idle" => /\ q.ev = writer[r].ev /\ q.type = writer[r].type
                             /\ q.user = writer[r].user /\ q.at = writer[r].at
<1>1. writer \in [Requests -> Writer] /\ writer[r] \in Writer
  BY DEF TypeOK
<1>2. CASE pc = "idle"
  BY <1>1, <1>2, IdleWriter DEF Goto
<1>3. CASE pc # "idle"
  <2> DEFINE q == [writer[r] EXCEPT !.pc = pc]
  <2>1. /\ q \in Writer /\ q.pc = pc /\ q.ev = writer[r].ev /\ q.type = writer[r].type
        /\ q.user = writer[r].user /\ q.at = writer[r].at
    BY <1>1 DEF Writer
  <2>2. writer' = [writer EXCEPT ![r] = q]
    BY <1>1, <1>3 DEF Goto
  <2>3. QED
    BY <2>1, <2>2
<1>4. QED
  BY <1>2, <1>3

\* A handler begins and calls Record.
LEMMA BeginInv ==
  ASSUME Inv, NEW r \in Requests, UNCHANGED clock,
         \/ LoginFails(r) \/ DeleteAccount(r)
         \/ \E event \in Others : RecordOther(r, event)
  PROVE  Inv'
<1>1. writer[r].pc \notin Holding
  BY IdleWriter DEF LoginFails, DeleteAccount, RecordOther, Arrives, At
<1>2. /\ UNCHANGED <<clock, trail, notices, unrecorded, unsent>>
      /\ account' \in [exists : BOOLEAN, failed : Nat, lockedUntil : Nat]
  BY DEF LoginFails, DeleteAccount, RecordOther, Inv, TypeOK
<1>3. \E type \in Types, user \in People, then \in Afterwards :
        StartRecord(r, type, user, then)
  <2>1. CASE LoginFails(r)
    <3>1. "login_failed" \in Types /\ User \in People /\ "increment" \in Afterwards
      BY DEF Types, EventTypes, People, Afterwards
    <3>2. QED
      BY <2>1, <3>1 DEF LoginFails
  <2>2. CASE DeleteAccount(r)
    <3>1. "account_deleted" \in Types /\ User \in People /\ "delete" \in Afterwards
      BY DEF Types, EventTypes, People, Afterwards
    <3>2. QED
      BY <2>2, <3>1 DEF DeleteAccount
  <2>3. ASSUME NEW event \in Others, RecordOther(r, event)
        PROVE  \E type \in Types, user \in People, then \in Afterwards :
                 StartRecord(r, type, user, then)
    <3>1. event.type \in Types /\ event.user \in People /\ "idle" \in Afterwards
      BY DEF Types, People, Afterwards
    <3>2. QED
      BY <2>3, <3>1 DEF RecordOther
  <2>4. QED
    BY <2>1, <2>2, <2>3
<1>4. QED
  BY <1>1, <1>2, <1>3, BeginStep

\* The row gets its time.
LEMMA StampInv ==
  ASSUME Inv, NEW r \in Requests, UNCHANGED clock, Stamp(r)
  PROVE  Inv'
<1> DEFINE q == [writer[r] EXCEPT !.pc = "insert", !.at = clock]
<1>1. writer \in [Requests -> Writer] /\ writer[r] \in Writer /\ clock \in Nat
  BY DEF Inv, TypeOK
<1>2. /\ q \in Writer /\ q.pc = "insert" /\ q.ev = writer[r].ev
      /\ q.type = writer[r].type
  BY <1>1 DEF Writer, Holding
<1>3. /\ writer' = [writer EXCEPT ![r] = q] /\ writer[r].pc = "stamp"
      /\ UNCHANGED <<clock, account, trail, notices, begun, unrecorded, unsent>>
  BY <1>1 DEF Stamp, At
<1> HIDE DEF q
<1>4. "insert" \in Holding /\ "stamp" \in Holding
  BY DEF Holding
<1>5. /\ account' \in [exists : BOOLEAN, failed : Nat, lockedUntil : Nat]
      /\ trail' \subseteq Rows /\ IsFiniteSet(trail')
      /\ \A row \in trail : \E x \in trail' : x.ev = row.ev /\ x.type = row.type
  BY <1>3 DEF Inv, TypeOK
<1>6. QED
  BY <1>2, <1>3, <1>4, <1>5, MoveStep


\* Record goes on to the sender, or returns.
LEMMA AfterInsertIs ==
  ASSUME TypeOK, NEW r \in Requests
  PROVE  LET pc == AfterInsert(writer[r])
         IN  /\ pc \in Holding \cup Afterwards \cup {"lock"}
             /\ writer[r].type \in DefaultWebhookEvents => pc = "notify"
             /\ pc \in Holding => pc = "notify" /\ writer[r].type \in DefaultWebhookEvents
  BY IdleWriter DEF TypeOK, Writer, Holding, Afterwards, AfterInsert

\* A row that is added leaves a finite set of rows.
LEMMA RowAdded ==
  ASSUME TypeOK, NEW ev \in Nat, NEW type \in Types, NEW user \in People, NEW at \in Nat,
         NEW row, row = Row(ev, type, user, at)
  PROVE  /\ trail \cup {row} \subseteq Rows /\ IsFiniteSet(trail \cup {row})
         /\ row.ev = ev /\ row.type = type /\ row.user = user /\ row.at = at
<1>1. trail \subseteq Rows /\ IsFiniteSet(trail) /\ Cardinality(trail) \in Nat
  BY FS_CardinalityType DEF TypeOK
<1>2. /\ row \in Rows
      /\ row.ev = ev /\ row.type = type /\ row.user = user /\ row.at = at
  BY <1>1 DEF Row, Rows
<1>3. IsFiniteSet(trail \cup {row})
  BY <1>1, FS_AddElement
<1>4. QED
  BY <1>1, <1>2, <1>3

\* The row is written, or refused; then the event is announced, or dropped.
LEMMA InsertInv ==
  ASSUME Inv, NEW r \in Requests, UNCHANGED clock, Insert(r) \/ InsertFails(r)
  PROVE  Inv'
<1> DEFINE pc == AfterInsert(writer[r])
<1>1. TypeOK /\ writer[r] \in Writer /\ clock \in Nat
  BY DEF Inv, TypeOK
<1>2. /\ pc \in Holding \cup Afterwards \cup {"lock"}
      /\ writer[r].type \in DefaultWebhookEvents => pc = "notify"
      /\ pc \in Holding => pc = "notify" /\ writer[r].type \in DefaultWebhookEvents
  BY <1>1, AfterInsertIs
<1>3. Goto(r, pc) /\ UNCHANGED <<account, notices, begun, unsent>>
  BY DEF Insert, InsertFails
<1>4. writer[r].pc \in Holding /\ "idle" \notin Holding /\ "notify" \in Holding
  BY DEF Insert, InsertFails, At, Holding
<1> HIDE DEF pc
<1>5. PICK q \in Writer :
        /\ writer' = [writer EXCEPT ![r] = q] /\ q.pc = pc
        /\ pc # "idle" => q.ev = writer[r].ev /\ q.type = writer[r].type
  BY <1>1, <1>2, <1>3, GotoLeads
<1>6. /\ trail' \subseteq Rows /\ IsFiniteSet(trail')
      /\ trail \subseteq trail' /\ unrecorded \subseteq unrecorded'
      /\ \A ev, type : ev = writer[r].ev /\ type = writer[r].type => Written(ev, type)'
  <2>1. CASE Insert(r)
    <3>1. PICK ev, type, user, at :
            /\ ev = writer[r].ev /\ type = writer[r].type /\ user = writer[r].user
            /\ at = IF backend = "memory" THEN clock ELSE writer[r].at
      OBVIOUS
    <3>2. ev \in Nat /\ type \in Types /\ user \in People /\ at \in Nat
      BY <1>1, <3>1 DEF Writer
    <3>3. PICK row : /\ row = Row(ev, type, user, at)
                     /\ trail' = trail \cup {row} /\ UNCHANGED unrecorded
      BY <2>1, <3>1 DEF Insert
    <3>4. row.ev = ev /\ row.type = type
      BY <3>3 DEF Row
    <3>5. trail' \subseteq Rows /\ IsFiniteSet(trail')
      BY <1>1, <3>2, <3>3, RowAdded, ZenonT(30)
    <3>6. QED
      BY <3>1, <3>3, <3>4, <3>5 DEF Written
  <2>2. CASE InsertFails(r)
    BY <1>1, <2>2 DEF InsertFails, TypeOK, Written
  <2>3. QED
    BY <2>1, <2>2
<1>7. q.pc \in Holding => /\ writer[r].pc \in Holding /\ q.ev = writer[r].ev
                          /\ q.type = writer[r].type /\ UNCHANGED notices
  BY <1>3, <1>4, <1>5
<1>8. q.pc = "notify" => q.type \in DefaultWebhookEvents /\ Written(q.ev, q.type)'
  BY <1>2, <1>4, <1>5, <1>6
<1>9. q.pc \notin Holding => writer[r].type \notin DefaultWebhookEvents
  BY <1>2, <1>4, <1>5
<1>10. /\ account' \in [exists : BOOLEAN, failed : Nat, lockedUntil : Nat]
       /\ \A row \in trail : \E x \in trail' : x.ev = row.ev /\ x.type = row.type
       /\ unsent \subseteq unsent' /\ notices' = notices /\ UNCHANGED <<clock, begun>>
  BY <1>1, <1>3, <1>6 DEF TypeOK
<1>11. QED
  BY <1>5, <1>6, <1>7, <1>8, <1>9, <1>10, MoveStep

\* The sender is called, or fails.
LEMMA SendInv ==
  ASSUME Inv, NEW r \in Requests, UNCHANGED clock, SendWebhook(r) \/ SendFails(r)
  PROVE  Inv'
<1>1. TypeOK /\ writer[r] \in Writer /\ writer[r].then \in Afterwards
  BY DEF Inv, TypeOK, Writer
<1>2. /\ UNCHANGED <<clock, account, trail, begun, unrecorded>>
      /\ writer[r].pc = "notify" /\ "notify" \in Holding
  BY DEF SendWebhook, SendFails, At, Holding
<1>3. PICK pc \in Afterwards : Goto(r, pc)
  BY <1>1 DEF SendWebhook, SendFails, Return, Afterwards
<1>4. PICK q \in Writer : writer' = [writer EXCEPT ![r] = q] /\ q.pc = pc
  BY <1>1, <1>3, GotoLeads
<1>5. q.pc \notin Holding /\ q.pc # "notify"
  BY <1>2, <1>4, IdleWriter
<1>6. /\ unsent \subseteq unsent' /\ notices \subseteq notices'
      /\ \A n \in notices' \ notices : n.ev = writer[r].ev /\ n.type = writer[r].type
      /\ \A n, m \in notices' \ notices : n = m
      /\ writer[r].ev \in unsent' \/ \E n \in notices' : n.ev = writer[r].ev
  <2>1. CASE SendWebhook(r)
    <3> DEFINE before == {n \in notices : n.ev = writer[r].ev}
               new == WebhookEvent(writer[r], Cardinality(before) + 1)
    <3>1. notices' = notices \cup {new} /\ UNCHANGED unsent
      BY <2>1 DEF SendWebhook
    <3>2. new.ev = writer[r].ev /\ new.type = writer[r].type
      BY DEF WebhookEvent
    <3> HIDE DEF new
    <3>3. QED
      BY <3>1, <3>2
  <2>2. CASE SendFails(r)
    BY <2>2 DEF SendFails
  <2>3. QED
    BY <2>1, <2>2
<1>7. /\ account' \in [exists : BOOLEAN, failed : Nat, lockedUntil : Nat]
      /\ trail' \subseteq Rows /\ IsFiniteSet(trail')
      /\ \A row \in trail : \E x \in trail' : x.ev = row.ev /\ x.type = row.type
      /\ unrecorded \subseteq unrecorded' /\ UNCHANGED <<clock, begun>>
  BY <1>1, <1>2 DEF TypeOK
<1>8. QED
  BY <1>2, <1>4, <1>5, <1>6, <1>7, MoveStep

\* A handler that has no event in its hands goes on.
LEMMA GoOnInv ==
  ASSUME Inv, NEW r \in Requests, NEW pc \in Afterwards \cup {"lock"}, Goto(r, pc),
         writer[r].pc \notin Holding,
         UNCHANGED <<clock, begun, notices, unrecorded, unsent>>,
         account' \in [exists : BOOLEAN, failed : Nat, lockedUntil : Nat],
         trail' \subseteq Rows, IsFiniteSet(trail'),
         \A row \in trail : \E x \in trail' : x.ev = row.ev /\ x.type = row.type
  PROVE  Inv'
<1>1. TypeOK
  BY DEF Inv
<1>2. PICK q \in Writer : writer' = [writer EXCEPT ![r] = q] /\ q.pc = pc
  BY <1>1, GotoLeads
<1>3. q.pc \notin Holding /\ q.pc # "notify"
  BY <1>2, IdleWriter DEF Holding
<1>4. /\ unsent \subseteq unsent' /\ unrecorded \subseteq unrecorded'
      /\ notices' = notices /\ UNCHANGED <<clock, begun>>
  OBVIOUS
<1>5. QED
  BY <1>2, <1>3, <1>4, MoveStep

\* The counter, the lock and the deletion.
LEMMA AccountInv ==
  ASSUME Inv, NEW r \in Requests, UNCHANGED clock,
         Increment(r) \/ LockAccount(r) \/ DeleteUser(r)
  PROVE  Inv'
<1> DEFINE Accounts == [exists : BOOLEAN, failed : Nat, lockedUntil : Nat]
<1>1. /\ account \in Accounts /\ clock \in Nat
      /\ trail \subseteq Rows /\ IsFiniteSet(trail)
  BY DEF Inv, TypeOK
<1>2. writer[r].pc \notin Holding
  BY IdleWriter DEF Increment, LockAccount, DeleteUser, At, Afterwards
<1>3. account' \in Accounts
  <2>1. CASE Increment(r)
    BY <1>1, <2>1 DEF Increment
  <2>2. CASE LockAccount(r)
    <3>1. clock + LockoutDuration \in Nat
      BY <1>1, LockoutAssumption
    <3>2. QED
      BY <1>1, <2>2, <3>1 DEF LockAccount
  <2>3. CASE DeleteUser(r)
    BY <1>1, <2>3 DEF DeleteUser
  <2>4. QED
    BY <2>1, <2>2, <2>3
<1>4. CASE Increment(r)
  <2>1. \E pc \in Afterwards \cup {"lock"} : Goto(r, pc)
    BY <1>4 DEF Increment, Afterwards
  <2>2. /\ UNCHANGED <<clock, begun, notices, unrecorded, unsent>>
        /\ trail' \subseteq Rows /\ IsFiniteSet(trail')
        /\ \A row \in trail : \E x \in trail' : x.ev = row.ev /\ x.type = row.type
    BY <1>1, <1>4 DEF Increment
  <2>3. QED
    BY <1>2, <1>3, <2>1, <2>2, GoOnInv
<1>5. CASE LockAccount(r)
  <2>1. CASE StartRecord(r, "account_locked", User, "idle")
    <3>1. "account_locked" \in Types /\ User \in People /\ "idle" \in Afterwards
      BY DEF Types, EventTypes, People, Afterwards
    <3>2. UNCHANGED <<clock, trail, notices, unrecorded, unsent>>
      BY <1>5 DEF LockAccount
    <3>3. QED
      BY <1>2, <1>3, <2>1, <3>1, <3>2, BeginStep
  <2>2. CASE Goto(r, "idle") /\ UNCHANGED begun
    <3>1. /\ UNCHANGED <<clock, begun, notices, unrecorded, unsent>>
          /\ trail' \subseteq Rows /\ IsFiniteSet(trail')
          /\ \A row \in trail : \E x \in trail' : x.ev = row.ev /\ x.type = row.type
      BY <1>1, <1>5, <2>2 DEF LockAccount
    <3>2. Goto(r, "idle") /\ "idle" \in Afterwards \cup {"lock"}
      BY <2>2 DEF Afterwards
    <3>3. QED
      BY <1>2, <1>3, <3>1, <3>2, GoOnInv
  <2>3. QED
    BY <1>5, <2>1, <2>2 DEF LockAccount
<1>6. CASE DeleteUser(r)
  <2> DEFINE Nulled(row) == [row EXCEPT !.user = ""]
             image == {Nulled(row) : row \in trail}
  <2>1. "" \in People
    BY DEF People
  <2>2. \A row \in Rows : /\ Nulled(row) \in Rows /\ Nulled(row).ev = row.ev
                          /\ Nulled(row).type = row.type
    BY <2>1 DEF Rows
  <2>3. IsFiniteSet(image)
    <3>1. image = {[row \in trail |-> Nulled(row)][x] : x \in trail}
      OBVIOUS
    <3> DEFINE f == [row \in trail |-> Nulled(row)]
    <3>2. f \in Surjection(trail, image)
      BY DEF Surjection
    <3>3. QED
      BY <1>1, <3>2, FS_Surjection
  <2>4. trail' = trail \/ trail' = image
    BY <1>6 DEF DeleteUser
  <2>5. /\ trail' \subseteq Rows /\ IsFiniteSet(trail')
        /\ \A row \in trail : \E x \in trail' : x.ev = row.ev /\ x.type = row.type
    <3>1. image \subseteq Rows
          /\ \A row \in trail : \E x \in image : x.ev = row.ev /\ x.type = row.type
      BY <1>1, <2>2
    <3> HIDE DEF image
    <3>2. QED
      BY <1>1, <2>3, <2>4, <3>1
  <2>6. /\ UNCHANGED <<clock, begun, notices, unrecorded, unsent>>
        /\ Goto(r, "idle") /\ "idle" \in Afterwards \cup {"lock"}
    BY <1>6 DEF DeleteUser, Afterwards
  <2>7. QED
    BY <1>2, <1>3, <2>5, <2>6, GoOnInv
<1>7. QED
  BY <1>4, <1>5, <1>6

\* The process dies: what requests held is neither recorded nor announced.
LEMMA CrashInv ==
  ASSUME Inv, UNCHANGED clock, Crash
  PROVE  Inv'
<1> DEFINE held(pcs) == {writer[r].ev : r \in {q \in Requests : writer[q].pc \in pcs}}
<1>1. /\ writer' = [r \in Requests |-> Idle]
      /\ unrecorded \subseteq unrecorded'
      /\ unsent' = unsent \cup held(Holding)
      /\ UNCHANGED <<account, trail, notices, begun>>
  BY DEF Crash, Holding
<1>2. \A r \in Requests : writer'[r] \in Writer /\ writer'[r].pc \notin Holding
  BY <1>1, IdleWriter
<1>3. \A ev : Held(ev) => ev \in unsent'
  BY <1>1 DEF Held, Holding
<1>4. "notify" \in Holding
  BY DEF Holding
<1>5. \A ev, type : Written(ev, type) => Written(ev, type)'
  BY <1>1 DEF Written
<1> HIDE DEF held
<1>6. TypeOK' /\ Numbered'
  BY <1>1, <1>2 DEF Inv, TypeOK, Numbered
<1>7. WritersHold'
  BY <1>2 DEF WritersHold
<1>8. Announced'
  BY <1>1, <1>2, <1>3 DEF Inv, Announced
<1>9. RowsFirst'
  BY <1>1, <1>2, <1>4, <1>5 DEF Inv, RowsFirst
<1>10. QED
  BY <1>6, <1>7, <1>8, <1>9 DEF Inv

\* The host writes its row past the recorder, and nobody announces it.
LEMMA HostInv ==
  ASSUME Inv, UNCHANGED clock, HostRecords
  PROVE  Inv'
<1>1. TypeOK /\ Numbered /\ clock \in Nat
  BY DEF Inv, TypeOK
<1>2. /\ NextEvent \in Nat
      /\ begun' = begun \cup {[ev |-> NextEvent, type |-> HostType]} /\ Numbered'
      /\ UNCHANGED <<account, writer, notices, unrecorded, unsent>>
  BY <1>1, NextEventIsNew DEF HostRecords, Numbered
<1>3. PICK row, user : /\ user = "" /\ row = Row(NextEvent, HostType, user, clock)
                       /\ trail' = trail \cup {row}
  BY DEF HostRecords
<1>4. HostType \in Types /\ user \in People
  BY <1>3 DEF Types, People
<1>5. trail' \subseteq Rows /\ IsFiniteSet(trail')
  BY <1>1, <1>2, <1>3, <1>4, RowAdded, ZenonT(30)
<1>6. TypeOK'
  BY <1>1, <1>2, <1>5 DEF TypeOK
<1>7. HostType \notin DefaultWebhookEvents
  BY HostTypeAssumption, IdleWriter
<1>8. WritersHold'
  BY <1>2 DEF Inv, WritersHold
<1>9. \A ev : Held(ev) => Held(ev)'
  BY <1>2 DEF Held
<1>10. Announced'
  <2>1. \A e \in begun' : e \in begun \/ e.type = HostType
    BY <1>2
  <2>2. ASSUME NEW e \in begun', e.type \in DefaultWebhookEvents
        PROVE  Held(e.ev)' \/ e.ev \in unsent \/ \E n \in notices : n.ev = e.ev
    BY <1>7, <1>9, <2>1, <2>2 DEF Inv, Announced
  <2>3. QED
    BY <1>2, <2>2 DEF Inv, Announced
<1>11. RowsFirst'
  BY <1>2, <1>3 DEF Inv, RowsFirst, Written
<1>12. QED
  BY <1>2, <1>6, <1>8, <1>10, <1>11 DEF Inv

\* Init, and every step of Next, for the invariant that follows.
LEMMA InitInv ==
  ASSUME Init
  PROVE  Inv
<1>1. TypeOK
  BY IdleWriter, FS_EmptySet DEF Init, TypeOK
<1>2. Numbered
  BY FS_EmptySet DEF Init, Numbered
<1>3. \A r \in Requests : writer[r].pc = "idle"
  BY IdleWriter DEF Init
<1>4. WritersHold /\ Announced /\ RowsFirst
  BY <1>3, IdleWriter DEF Init, WritersHold, Announced, RowsFirst, Holding
<1>5. QED
  BY <1>1, <1>2, <1>4 DEF Inv

\* Every step keeps Inv: of a request, of the admin, and of the clock.
LEMMA NextInv ==
  ASSUME Inv, [Next]_vars
  PROVE  Inv'
<1>1. ASSUME NEW r \in Requests, RequestStep(r), UNCHANGED clock
      PROVE  Inv'
  BY <1>1, BeginInv, StampInv, InsertInv, SendInv, AccountInv DEF RequestStep
<1>2. CASE UNCHANGED trailVars /\ clock' \in Nat
  <2>1. UNCHANGED <<account, trail, writer, notices, begun, unrecorded, unsent>>
    BY <1>2 DEF trailVars
  <2>2. TypeOK' /\ Numbered' /\ WritersHold' /\ RowsFirst'
    BY <1>2, <2>1 DEF Inv, TypeOK, Numbered, WritersHold, RowsFirst, Written
  <2>3. Announced'
    BY <2>1 DEF Inv, Announced, Held
  <2>4. QED
    BY <2>2, <2>3 DEF Inv
<1>3. clock \in Nat
  BY DEF Inv, TypeOK
<1>4. ASSUME \/ Tick \/ UNCHANGED vars
             \/ AdminStep /\ UNCHANGED <<backend, clock, handlers, trailVars>>
      PROVE  Inv'
  BY <1>2, <1>3, <1>4 DEF Tick, vars
<1>5. CASE /\ (\E r \in Requests : RequestStep(r)) \/ Crash \/ HostRecords
           /\ UNCHANGED <<backend, clock, handlers, adminVars>>
  BY <1>1, <1>5, CrashInv, HostInv
<1>6. CASE UNCHANGED vars
  BY <1>4, <1>6
<1>7. CASE Next
  BY <1>4, <1>5, <1>7 DEF Next
<1>8. QED
  BY <1>6, <1>7

-----------------------------------------------------------------------------
(* Theorems *)

\* Who holds which event, what was written and what was announced.
\* (webhookRecorder.Record)
THEOREM AlwaysInv == Spec => []Inv
  BY InitInv, NextInv, PTL DEF Spec

\* The trail and the requests keep their types.  (AuditEvent, users)
THEOREM TypeCorrect == Spec => []TypeOK
<1>1. Inv => TypeOK
  BY DEF Inv
<1>2. QED
  BY <1>1, AlwaysInv, PTL

\* For any number of requests that record, fail, delete the account and crash in
\* any order: a subscribed event is announced once and not before its row was
\* written or refused, the others never.  (webhookRecorder.Record)
THEOREM AlwaysNoticeFollowsRow == Spec => []NoticeFollowsRow
<1>1. ASSUME Inv
      PROVE  NoticeFollowsRow
  <2>1. ASSUME NEW e \in begun, e.type \in DefaultWebhookEvents
        PROVE  LET sent == {n \in notices : n.ev = e.ev}
               IN  /\ Cardinality(sent) <= 1
                   /\ sent = {} => Held(e.ev) \/ e.ev \in unsent
    <3> DEFINE sent == {n \in notices : n.ev = e.ev}
    <3>1. sent = {} \/ \E n \in notices : sent = {n}
      BY <1>1 DEF Inv, Announced
    <3>2. sent = {} => Held(e.ev) \/ e.ev \in unsent
      BY <1>1, <2>1 DEF Inv, Announced
    <3> HIDE DEF sent
    <3>3. Cardinality(sent) <= 1
      <4>1. CASE sent = {}
        BY <4>1, FS_EmptySet
      <4>2. ASSUME NEW n, sent = {n}
            PROVE  Cardinality(sent) <= 1
        BY <4>2, FS_Singleton
      <4>3. QED
        BY <3>1, <4>1, <4>2
    <3>4. QED
      BY <3>2, <3>3 DEF sent
  <2>2. ASSUME NEW e \in begun, e.type \notin DefaultWebhookEvents
        PROVE  {n \in notices : n.ev = e.ev} = {}
    BY <1>1, <2>2 DEF Inv, Announced, Numbered
  <2>3. \A n \in notices :
          n.ev \in unrecorded \/ \E row \in trail : row.ev = n.ev /\ row.type = n.type
    BY <1>1 DEF Inv, RowsFirst, Written
  <2>4. QED
    BY <2>1, <2>2, <2>3 DEF NoticeFollowsRow
<1>2. QED
  BY <1>1, AlwaysInv, PTL

-----------------------------------------------------------------------------
(* A lock and the event that says so *)

\* The event is lost, on its way into the table, or a row of the account.
Traced(ev) ==
  \/ ev \in unrecorded
  \/ \E r \in Requests : /\ writer[r].pc \in {"stamp", "insert"} /\ writer[r].ev = ev
                         /\ writer[r].type = "account_locked" /\ writer[r].user = User
  \/ \E row \in trail : row.ev = ev /\ row.type = "account_locked" /\ row.user = User

Explained == \E e \in begun : e.type = "account_locked" /\ Traced(e.ev)

\* A lock that is, or that a diagnosis has read, has its event.
LockInv ==
  /\ account.exists
  /\ account.lockedUntil # 0 \/ (admin.pc = "history" /\ admin.locked)
  => Explained

\* Where a request's step can leave the others, and itself.
LEMMA WritersApart ==
  ASSUME Inv, NEW r \in Requests, RequestStep(r)
  PROVE  /\ \A x \in Requests \ {r} : writer'[x] = writer[x]
         /\ begun \subseteq begun' /\ unrecorded \subseteq unrecorded'
         /\ DeleteUser(r) \/ trail \subseteq trail'
<1>1. writer \in [Requests -> Writer]
  BY DEF Inv, TypeOK
<1>2. \A x \in Requests \ {r} : writer'[x] = writer[x]
  BY <1>1 DEF RequestStep, LoginFails, DeleteAccount, RecordOther, Stamp, Insert,
        InsertFails, SendWebhook, SendFails, Increment, LockAccount, DeleteUser,
        StartRecord, Return, Goto
<1>3. begun \subseteq begun' /\ unrecorded \subseteq unrecorded'
  BY DEF RequestStep, LoginFails, DeleteAccount, RecordOther, Stamp, Insert,
        InsertFails, SendWebhook, SendFails, Increment, LockAccount, DeleteUser,
        StartRecord
<1>4. DeleteUser(r) \/ trail \subseteq trail'
  BY DEF RequestStep, LoginFails, DeleteAccount, RecordOther, Stamp, Insert,
        InsertFails, SendWebhook, SendFails, Increment, LockAccount
<1>5. QED
  BY <1>2, <1>3, <1>4

\* As long as the account is there, its lock keeps its trace.
LEMMA TracedStep ==
  ASSUME Inv, NEW r \in Requests, RequestStep(r), UNCHANGED <<backend, clock>>,
         account'.exists, NEW ev, Traced(ev)
  PROVE  Traced(ev)'
<1>1. /\ \A x \in Requests \ {r} : writer'[x] = writer[x]
      /\ unrecorded \subseteq unrecorded'
  BY WritersApart
<1>2. trail \subseteq trail'
  <2>1. ASSUME DeleteUser(r)
        PROVE  ~account'.exists
    BY <2>1 DEF DeleteUser, Inv, TypeOK
  <2>2. QED
    BY <2>1, WritersApart
<1>3. CASE ev \in unrecorded \/ \E row \in trail :
             row.ev = ev /\ row.type = "account_locked" /\ row.user = User
  BY <1>1, <1>2, <1>3 DEF Traced
<1>4. ASSUME NEW x \in Requests, writer[x].pc \in {"stamp", "insert"}, writer[x].ev = ev,
             writer[x].type = "account_locked", writer[x].user = User
      PROVE  Traced(ev)'
  <2>1. CASE x # r
    BY <1>1, <1>4, <2>1 DEF Traced
  <2>2. CASE x = r /\ Stamp(r)
    BY <1>4, <2>2 DEF Traced, Stamp, Inv, TypeOK, Writer
  <2>3. CASE x = r /\ InsertFails(r)
    BY <1>4, <2>3 DEF Traced, InsertFails
  <2>4. CASE x = r /\ Insert(r)
    <3>1. PICK at, row : /\ row = Row(ev, "account_locked", User, at)
                         /\ row \in trail'
      BY <1>4, <2>4 DEF Insert
    <3>2. row.ev = ev /\ row.type = "account_locked" /\ row.user = User
      BY <3>1 DEF Row
    <3>3. QED
      BY <3>1, <3>2 DEF Traced
  <2>5. CASE x = r /\ ~(Stamp(r) \/ Insert(r) \/ InsertFails(r))
    BY <1>4, <2>5 DEF RequestStep, LoginFails, DeleteAccount, RecordOther, Arrives, At,
          SendWebhook, SendFails, Increment, LockAccount, DeleteUser
  <2>6. QED
    BY <2>1, <2>2, <2>3, <2>4, <2>5
<1>5. QED
  BY <1>3, <1>4 DEF Traced

\* The lock's event stays traced whatever happens, as long as there is an account.
LEMMA ExplainedStep ==
  ASSUME Inv, [Next]_vars, Explained, account'.exists
  PROVE  Explained'
<1>1. PICK e \in begun : e.type = "account_locked" /\ Traced(e.ev)
  BY DEF Explained
<1>2. ASSUME NEW r \in Requests, RequestStep(r), UNCHANGED <<backend, clock>>
      PROVE  Explained'
  <2>1. e \in begun'
    BY <1>2, WritersApart
  <2>2. \A ev : Traced(ev) => Traced(ev)'
    BY <1>2, TracedStep
  <2>3. QED
    BY <1>1, <2>1, <2>2 DEF Explained
<1>3. CASE Crash
  <2>1. Traced(e.ev)'
    BY <1>1, <1>3 DEF Crash, Traced
  <2>2. QED
    BY <1>1, <1>3, <2>1 DEF Crash, Explained
<1>4. CASE HostRecords
  <2>1. Traced(e.ev)'
    BY <1>1, <1>4 DEF HostRecords, Traced
  <2>2. e \in begun'
    BY <1>4 DEF HostRecords
  <2>3. QED
    BY <1>1, <2>1, <2>2 DEF Explained
<1>5. CASE UNCHANGED trailVars
  BY <1>1, <1>5 DEF trailVars, Explained, Traced
<1>6. QED
  <2>1. CASE Next
    BY <1>2, <1>3, <1>4, <1>5, <2>1 DEF Next, Tick
  <2>2. CASE UNCHANGED vars
    BY <1>5, <2>2 DEF vars
  <2>3. QED
    BY <2>1, <2>2

\* A digest that is being built has all its fields.
Shaped ==
  /\ admin.pc \in {"count", "search"} => admin.start \in 0..clock /\ admin.since \in Nat
  /\ admin.pc = "search" =>
       admin = [pc |-> "search", start |-> admin.start, since |-> admin.since,
                counts |-> admin.counts, todo |-> admin.todo, shown |-> admin.shown,
                rows |-> admin.rows, inFlight |-> admin.inFlight]

\* What DigestSearch makes of a digest.
LEMMA SearchIs ==
  ASSUME Shaped, DigestSearch
  PROVE  \E type \in admin.todo : \E found \in SearchByType(type, HighlightLimit) :
           admin' = [pc |-> "search", start |-> admin.start, since |-> admin.since,
                     counts |-> admin.counts, todo |-> admin.todo \ {type},
                     shown |-> admin.shown \cup {row \in found : row.at >= admin.since},
                     rows |-> admin.rows, inFlight |-> admin.inFlight]
<1>1. PICK type \in admin.todo : \E found \in SearchByType(type, HighlightLimit) :
        admin' = [admin EXCEPT
                    !.todo = @ \ {type},
                    !.shown = @ \cup {row \in found : row.at >= admin.since}]
  BY DEF DigestSearch
<1>2. PICK found \in SearchByType(type, HighlightLimit) :
        admin' = [admin EXCEPT
                    !.todo = @ \ {type},
                    !.shown = @ \cup {row \in found : row.at >= admin.since}]
  BY <1>1
<1>3. PICK start, since, counts, todo, shown, rows, inFlight :
        admin = [pc |-> "search", start |-> start, since |-> since, counts |-> counts,
                 todo |-> todo, shown |-> shown, rows |-> rows, inFlight |-> inFlight]
  BY DEF DigestSearch, Shaped
<1> DEFINE window == {row \in found : row.at >= admin.since}
<1>4. admin' = [admin EXCEPT !.todo = todo \ {type}, !.shown = shown \cup window]
  BY <1>2, <1>3
<1> HIDE DEF window
<1>5. admin' = [pc |-> "search", start |-> start, since |-> since, counts |-> counts,
                todo |-> todo \ {type}, shown |-> shown \cup window, rows |-> rows,
                inFlight |-> inFlight]
  BY <1>3, <1>4
<1>6. QED
  BY <1>3, <1>5 DEF window

\* Every step of the admin leaves what it holds well-formed.
LEMMA ShapedStep ==
  ASSUME clock \in Nat, Shaped, [Next]_vars
  PROVE  Shaped'
<1>1. CASE UNCHANGED admin /\ clock' \in Nat /\ clock <= clock'
  BY <1>1 DEF Shaped
<1>2. CASE UNCHANGED vars \/ Tick
  BY <1>1, <1>2 DEF vars, adminVars, Tick
<1>3. CASE UNCHANGED <<backend, clock, handlers, adminVars>>
  BY <1>1, <1>3 DEF adminVars
<1>4. CASE AdminStep /\ UNCHANGED clock
  <2>1. ASSUME NEW since \in Sinces, DigestSince(since)
        PROVE  Shaped'
    BY <1>4, <2>1, SincesAssumption DEF DigestSince, Shaped
  <2>2. CASE DigestCount
    BY <1>4, <2>2 DEF DigestCount, Shaped
  <2>3. CASE DigestSearch
    BY <1>4, <2>3, SearchIs DEF DigestSearch, Shaped
  <2>4. CASE DigestDone \/ ReportReturns
    BY <2>4 DEF DigestDone, ReportReturns, AdminIdle, Shaped
  <2>5. ASSUME NEW parts, BuildTuningReport(0, parts)
        PROVE  Shaped'
    BY <2>5 DEF BuildTuningReport, Shaped
  <2>6. CASE DiagnoseUser \/ DiagnoseHistory
    BY <2>6 DEF DiagnoseUser, DiagnoseHistory, Shaped
  <2>7. QED
    BY <1>4, <2>1, <2>2, <2>3, <2>4, <2>5, <2>6 DEF AdminStep
<1>5. CASE Next
  BY <1>2, <1>3, <1>4, <1>5 DEF Next
<1>6. QED
  BY <1>2, <1>5

\* A lock that a step sets, or keeps, has its event, or its account goes.
LEMMA LockStep ==
  ASSUME Inv, Shaped, LockInv, [Next]_vars
  PROVE  LockInv'
<1> SUFFICES ASSUME account'.exists,
                    account'.lockedUntil # 0 \/ (admin'.pc = "history" /\ admin'.locked)
             PROVE  Explained'
  BY DEF LockInv
<1>1. account \in [exists : BOOLEAN, failed : Nat, lockedUntil : Nat] /\ clock \in Nat
  BY DEF Inv, TypeOK
<1>2. ASSUME account.exists,
             account.lockedUntil # 0 \/ (admin.pc = "history" /\ admin.locked)
      PROVE  Explained'
  BY <1>2, ExplainedStep DEF LockInv
<1>3. ASSUME NEW r \in Requests, RequestStep(r), UNCHANGED <<backend, clock, handlers, adminVars>>
      PROVE  Explained'
  <2>1. account.exists
    BY <1>1, <1>3 DEF RequestStep, LoginFails, DeleteAccount, RecordOther, Stamp, Insert,
          InsertFails, SendWebhook, SendFails, Increment, LockAccount, DeleteUser
  <2>2. CASE UNCHANGED account.lockedUntil
    BY <1>2, <1>3, <2>1, <2>2 DEF adminVars
  <2>3. CASE StartRecord(r, "account_locked", User, "idle")
    <3> DEFINE e == [ev |-> NextEvent, type |-> "account_locked"]
    <3>1. e \in begun' /\ e.type = "account_locked"
      BY <2>3 DEF StartRecord
    <3>2. \A ev : ev = NextEvent => Traced(ev)'
      BY <1>1, <2>3 DEF StartRecord, Traced, Inv, TypeOK
    <3>3. QED
      BY <3>1, <3>2 DEF Explained
  <2>4. \/ UNCHANGED account.lockedUntil
        \/ StartRecord(r, "account_locked", User, "idle")
    BY <1>1, <1>3 DEF RequestStep, LoginFails, DeleteAccount, RecordOther, Stamp, Insert,
          InsertFails, SendWebhook, SendFails, Increment, LockAccount, DeleteUser
  <2>5. QED
    BY <2>2, <2>3, <2>4
<1>4. CASE UNCHANGED <<account, admin>>
  BY <1>2, <1>4
<1>5. CASE AdminStep /\ UNCHANGED account
  <2>1. CASE DiagnoseUser
    <3>1. account.exists /\ (account.lockedUntil # 0 \/ account.lockedUntil > clock)
      BY <1>5, <2>1 DEF DiagnoseUser
    <3>2. QED
      BY <1>1, <1>2, <3>1
  <2>2. admin'.pc = "history" => DiagnoseUser
    BY <1>5, SearchIs DEF AdminStep, DigestSince, DigestCount, DigestDone, BuildTuningReport,
          DiagnoseHistory, ReportReturns, AdminIdle
  <2>3. CASE admin'.pc # "history"
    BY <1>2, <1>5, <2>3
  <2>4. QED
    BY <2>1, <2>2, <2>3
<1>6. QED
  <2>1. CASE UNCHANGED vars \/ Tick
    BY <1>4, <2>1 DEF vars, trailVars, adminVars, Tick
  <2>2. CASE (Crash \/ HostRecords) /\ UNCHANGED <<backend, clock, handlers, adminVars>>
    BY <1>4, <2>2 DEF Crash, HostRecords, adminVars
  <2>3. CASE Next
    BY <1>3, <1>5, <2>1, <2>2, <2>3 DEF Next, trailVars
  <2>4. QED
    BY <2>1, <2>3

\* Every lock has a traced event, and the digests have their fields.
LEMMA AlwaysLocked == Spec => [](Inv /\ Shaped /\ LockInv)
<1>1. Init => Inv /\ Shaped /\ LockInv
  <2>1. Init => Shaped /\ LockInv
    BY DEF Init, AdminIdle, Shaped, LockInv
  <2>2. QED
    BY <2>1, InitInv
<1>2. Inv /\ Shaped /\ LockInv /\ [Next]_vars => (Inv /\ Shaped /\ LockInv)'
  <2>1. Inv => clock \in Nat
    BY DEF Inv, TypeOK
  <2>2. QED
    BY <2>1, NextInv, ShapedStep, LockStep
<1>3. QED
  BY <1>1, <1>2, PTL DEF Spec

\* The reads return rows of what was asked for, all of them unless they are full.
LEMMA LatestIsAll ==
  ASSUME NEW rows, IsFiniteSet(rows), NEW limit \in Nat, NEW s \in Latest(rows, limit)
  PROVE  s \subseteq rows /\ (Cardinality(s) = limit \/ s = rows)
<1>1. /\ s \subseteq rows
      /\ Cardinality(s) = IF Cardinality(rows) < limit THEN Cardinality(rows) ELSE limit
  BY DEF Latest, Newest, NewestInserted
<1>2. Cardinality(s) = Cardinality(rows) => s = rows
  BY <1>1, FS_Subset
<1>3. QED
  BY <1>1, <1>2

\* A diagnosis that finds the account locked shows why, for every history limit and
\* whatever is recorded, fails or crashes between its two reads.
\* (DiagnoseLogin, Login)
THEOREM AlwaysLockIsExplained == Spec => LockIsExplained
<1> DEFINE Shows ==
      DiagnoseHistory /\ admin.locked
      => \/ \E row \in RecentFailureEvents(admin') : row.type = "account_locked"
         \/ Cardinality(admin'.events) = HistoryLimit
         \/ ~account.exists
         \/ \E e \in begun : /\ e.type = "account_locked"
                             /\ e.ev \in unrecorded \/ Held(e.ev)
<1>1. ASSUME Inv, LockInv
      PROVE  Shows
  <2> SUFFICES ASSUME DiagnoseHistory, admin.locked, account.exists
               PROVE  \/ \E row \in RecentFailureEvents(admin') : row.type = "account_locked"
                      \/ Cardinality(admin'.events) = HistoryLimit
                      \/ \E e \in begun : /\ e.type = "account_locked"
                                          /\ e.ev \in unrecorded \/ Held(e.ev)
    OBVIOUS
  <2>1. PICK e \in begun : e.type = "account_locked" /\ Traced(e.ev)
    BY <1>1 DEF DiagnoseHistory, LockInv, Explained
  <2>2. CASE e.ev \in unrecorded
    BY <2>1, <2>2
  <2>3. ASSUME NEW r \in Requests, writer[r].pc \in {"stamp", "insert"}, writer[r].ev = e.ev
        PROVE  Held(e.ev)
    BY <2>3 DEF Held
  <2>4. ASSUME NEW row \in trail, row.ev = e.ev, row.type = "account_locked", row.user = User
        PROVE  \/ \E x \in RecentFailureEvents(admin') : x.type = "account_locked"
               \/ Cardinality(admin'.events) = HistoryLimit
    <3> DEFINE mine == {x \in trail : x.user = User}
    <3>0. PICK events \in ListByUser(HistoryLimit) : admin'.events = events
      BY DEF DiagnoseHistory
    <3>1. events \in Latest(mine, HistoryLimit)
      BY DEF ListByUser
    <3>2. IsFiniteSet(mine)
      BY <1>1, FS_Subset DEF Inv, TypeOK
    <3>3. HistoryLimit \in Nat
      BY LimitsAssumption
    <3>4. row \in mine
      BY <2>4
    <3> HIDE DEF mine
    <3>5. Cardinality(events) = HistoryLimit \/ row \in events
      BY <3>1, <3>2, <3>3, <3>4, LatestIsAll
    <3>6. row.type \in LoginFailureTypes
      BY <2>4 DEF LoginFailureTypes
    <3>7. QED
      BY <2>4, <3>0, <3>5, <3>6 DEF RecentFailureEvents
  <2>5. QED
    BY <2>1, <2>2, <2>3, <2>4 DEF Traced
<1>2. Inv /\ LockInv /\ [Next]_vars => [Shows]_vars
  BY <1>1
<1> HIDE DEF Shows
<1>3. Spec => [][Shows]_vars
  BY <1>2, AlwaysLocked, PTL DEF Spec
<1>4. QED
  BY <1>3 DEF LockIsExplained, Shows

-----------------------------------------------------------------------------
(* What the digests see *)

\* An event has one row, and the memory store's slice is in the order of its
\* timestamps.
RowsOrdered ==
  /\ \A row \in trail : row.at <= clock /\ \E e \in begun : e.ev = row.ev
  /\ \A x, y \in trail : x.ev = y.ev => x = y
  /\ backend = "memory" => \A x, y \in trail :
       x.seq \in 1..Cardinality(trail) /\ (x.seq < y.seq => x.at <= y.at)

\* An event that is on its way has none yet.
NotYetWritten ==
  \A r \in Requests : writer[r].pc \in {"stamp", "insert"} =>
    writer[r].at <= clock /\ \A row \in trail : row.ev # writer[r].ev

Order == RowsOrdered /\ NotYetWritten

\* d's count has the event, saw it in flight, or is not about its time.
Caught(d, ev, at) ==
  \/ at < d.since \/ at >= d.start
  \/ ev \in {x.ev : x \in d.rows} \cup d.inFlight

Catches(d) ==
  /\ d.since \in Nat /\ d.start \in 0..clock
  /\ \A row \in trail : Caught(d, row.ev, row.at)
  /\ \A r \in Requests :
       writer[r].pc = "insert" => Caught(d, writer[r].ev, writer[r].at)

CatchInv ==
  /\ admin.pc = "search" => Catches(admin)
  /\ digest # None => Catches(digest)
  /\ previous # None => Catches(previous)

\* What DigestAddsUp says of one type.
AddsUp(d, type) ==
  LET shown == {row \in d.shown : row.type = type}
      counted == {row \in d.rows : row.type = type}
      total == CountOf(d.counts, type)
      listed == {row.ev : row \in shown}
  IN  /\ Cardinality(shown) < total =>
           /\ Cardinality(shown) = HighlightLimit
           /\ CapNote(Cardinality(shown), total)
      /\ \A x \in counted, y \in shown : x.ev \in listed \/ x.at <= y.at

\* The counted rows, and the counts that the text prints of them.
Counted(d, until) ==
  /\ IsFiniteSet(d.rows)
  /\ d.counts = [type \in {row.type : row \in d.rows} |->
                   Cardinality({row \in d.rows : row.type = type})]
  /\ \A row \in d.shown \cup d.rows : row.at \in d.since..until

\* A digest on its way from the count to the last search.
Building(d) ==
  /\ Counted(d, clock)
  /\ \A x \in d.rows : \E row \in trail :
       row.ev = x.ev /\ row.type = x.type /\ row.at = x.at
  /\ \A x, y \in d.rows : x.ev = y.ev => x = y
  /\ d.todo \subseteq DigestAttentionTypes
  /\ \A row \in d.shown : row.type \notin d.todo
  /\ \A type \in DigestAttentionTypes \ d.todo : AddsUp(d, type)

BuildInv ==
  /\ admin.pc = "search" => Building(admin)
  /\ digest # None => /\ Counted(digest, digest.until)
                      /\ \A type \in DigestAttentionTypes : AddsUp(digest, type)

\* A time is its digits.
LEMMA DigitsOf ==
  ASSUME NEW t \in Nat
  PROVE  /\ t \div 4 \in Nat /\ (t \div 2) % 2 \in 0..1 /\ t % 2 \in 0..1
         /\ t = (4 * (t \div 4)) + (2 * ((t \div 2) % 2)) + (t % 2)
  OBVIOUS

\* The text of a time orders like the time itself: SQLite's created_at.
LEMMA TextKeepsOrder ==
  ASSUME NEW a \in Nat, NEW b \in Nat
  PROVE  TextBefore(FormatTime(a), FormatTime(b)) <=> a < b
<1> DEFINE s == FormatTime(a)
           t == FormatTime(b)
<1>1. ASSUME NEW d1 \in Int, NEW d2 \in Int, NEW d3 \in Int, NEW d4 \in Int
      PROVE  LET text == << d1, d2, d3, d4 >> \o << 9 >>
             IN  /\ Len(text) = 5 /\ text[1] = d1 /\ text[2] = d2 /\ text[3] = d3
                 /\ text[4] = d4 /\ text[5] = 9
  OBVIOUS
<1>2. /\ Len(s) = 5 /\ s[1] = (a \div 4) + 1 /\ s[2] = 0 /\ s[3] = ((a \div 2) % 2) + 1
      /\ s[4] = (a % 2) + 1 /\ s[5] = 9
  BY <1>1, DigitsOf DEF FormatTime, Digits
<1>3. /\ Len(t) = 5 /\ t[1] = (b \div 4) + 1 /\ t[2] = 0 /\ t[3] = ((b \div 2) % 2) + 1
      /\ t[4] = (b % 2) + 1 /\ t[5] = 9
  BY <1>1, DigitsOf DEF FormatTime, Digits
<1> HIDE DEF s, t
<1>4. TextBefore(s, t) <=> \/ s[1] < t[1]
                           \/ s[1] = t[1] /\ s[3] < t[3]
                           \/ s[1] = t[1] /\ s[3] = t[3] /\ s[4] < t[4]
  <2>1. ASSUME s[1] < t[1]
        PROVE  TextBefore(s, t)
    <3>1. 1 \in 1..Len(s) /\ 1 <= Len(t) /\ \A j \in 1..(1 - 1) : s[j] = t[j]
      BY <1>2, <1>3
    <3>2. QED
      BY <2>1, <3>1 DEF TextBefore
  <2>2. ASSUME s[1] = t[1], s[3] < t[3]
        PROVE  TextBefore(s, t)
    <3>1. 3 \in 1..Len(s) /\ 3 <= Len(t) /\ \A j \in 1..(3 - 1) : j = 1 \/ j = 2
      BY <1>2, <1>3
    <3>2. \A j \in 1..(3 - 1) : s[j] = t[j]
      BY <1>2, <1>3, <2>2, <3>1
    <3>3. QED
      BY <2>2, <3>1, <3>2 DEF TextBefore
  <2>3. ASSUME s[1] = t[1], s[3] = t[3], s[4] < t[4]
        PROVE  TextBefore(s, t)
    <3>1. 4 \in 1..Len(s) /\ 4 <= Len(t) /\ \A j \in 1..(4 - 1) : j = 1 \/ j = 2 \/ j = 3
      BY <1>2, <1>3
    <3>2. \A j \in 1..(4 - 1) : s[j] = t[j]
      BY <1>2, <1>3, <2>3, <3>1
    <3>3. QED
      BY <2>3, <3>1, <3>2 DEF TextBefore
  <2>4. ASSUME NEW k \in 1..Len(s), s[k] < t[k], \A j \in 1..(k - 1) : s[j] = t[j]
        PROVE  \/ s[1] < t[1]
               \/ s[1] = t[1] /\ s[3] < t[3]
               \/ s[1] = t[1] /\ s[3] = t[3] /\ s[4] < t[4]
    <3>1. k = 1 \/ k = 2 \/ k = 3 \/ k = 4 \/ k = 5
      BY <1>2
    <3>2. k = 3 => s[1] = t[1]
      BY <2>4
    <3>3. k = 4 => s[1] = t[1] /\ s[3] = t[3]
      BY <2>4
    <3>4. QED
      BY <1>2, <1>3, <2>4, <3>1, <3>2, <3>3
  <2>5. QED
    BY <1>2, <1>3, <2>1, <2>2, <2>3, <2>4 DEF TextBefore
<1>5. QED
  BY <1>2, <1>3, <1>4, DigitsOf DEF s, t

\* So all the stores compare times.
LEMMA EarlierIs ==
  ASSUME NEW a \in Nat, NEW b \in Nat
  PROVE  Earlier(a, b) <=> a < b
  BY TextKeepsOrder DEF Earlier

\* The reads return the newest rows, all of them unless they are full.
LEMMA LatestAreNewest ==
  ASSUME TypeOK, Order, NEW rows \in SUBSET trail, NEW limit \in Nat,
         NEW s \in Latest(rows, limit)
  PROVE  \A x \in s, y \in rows \ s : y.at <= x.at
<1>1. \A x \in trail : x.at \in Nat /\ x.seq \in Nat
  BY DEF TypeOK, Rows
<1>2. s \subseteq rows
  BY DEF Latest, Newest, NewestInserted
<1>3. CASE backend = "memory"
  BY <1>1, <1>2, <1>3 DEF Latest, NewestInserted, Order, RowsOrdered
<1>4. CASE backend # "memory"
  <2> SUFFICES ASSUME NEW x \in s, NEW y \in rows \ s
               PROVE  y.at <= x.at
    OBVIOUS
  <2>1. ~Earlier(x.at, y.at)
    BY <1>4 DEF Latest, Newest
  <2>2. x.at \in Nat /\ y.at \in Nat
    BY <1>1, <1>2
  <2>3. QED
    BY <2>1, <2>2, EarlierIs
<1>5. QED
  BY <1>3, <1>4

\* A row for an event that has none keeps the order.
LEMMA AddKeepsOrder ==
  ASSUME TypeOK, RowsOrdered, NEW ev \in Nat, NEW type \in Types, NEW user \in People,
         NEW at \in Nat, at <= clock, backend = "memory" => at = clock,
         NEW row, row = Row(ev, type, user, at), trail' = trail \cup {row},
         \A x \in trail : x.ev # ev,
         UNCHANGED <<backend, clock>>, begun \subseteq begun', \E e \in begun' : e.ev = ev
  PROVE  RowsOrdered'
<1>1. trail \subseteq Rows /\ IsFiniteSet(trail) /\ Cardinality(trail) \in Nat
  BY FS_CardinalityType DEF TypeOK
<1>2. /\ row.ev = ev /\ row.at = at
      /\ backend = "memory" => row.seq = Cardinality(trail) + 1
  BY DEF Row
<1>3. row \notin trail
  BY <1>2
<1>4. Cardinality(trail') = Cardinality(trail) + 1
  BY <1>1, <1>3, FS_AddElement
<1>5. \A x \in trail' : x.at <= clock /\ \E e \in begun' : e.ev = x.ev
  BY <1>2 DEF RowsOrdered
<1>6. \A x, y \in trail' : x.ev = y.ev => x = y
  BY <1>2 DEF RowsOrdered
<1>7. ASSUME backend = "memory", NEW x \in trail', NEW y \in trail'
      PROVE  x.seq \in 1..Cardinality(trail') /\ (x.seq < y.seq => x.at <= y.at)
  <2>1. \A z \in trail : z.seq \in 1..Cardinality(trail) /\ z.at <= clock
    BY <1>7 DEF RowsOrdered
  <2>2. row.seq = Cardinality(trail) + 1 /\ row.at = clock
    BY <1>2, <1>7
  <2>3. CASE x \in trail /\ y \in trail
    BY <1>1, <1>4, <1>7, <2>1, <2>3 DEF RowsOrdered
  <2>4. CASE x \in trail /\ y = row
    BY <1>1, <1>4, <2>1, <2>2, <2>4
  <2>5. CASE x = row /\ y \in trail
    BY <1>1, <1>4, <2>1, <2>2, <2>5
  <2>6. CASE x = row /\ y = row
    BY <1>1, <1>4, <2>2, <2>6
  <2>7. QED
    BY <2>3, <2>4, <2>5, <2>6
<1>8. QED
  BY <1>5, <1>6, <1>7 DEF RowsOrdered

\* A request records something new.
LEMMA BeginKeepsOrder ==
  ASSUME Inv, Order, NEW r \in Requests, NEW type, NEW user, NEW then,
         StartRecord(r, type, user, then), UNCHANGED <<backend, clock, trail>>
  PROVE  Order'
<1>1. writer \in [Requests -> Writer] /\ clock \in Nat
  BY DEF Inv, TypeOK
<1>2. begun \subseteq begun' /\ \A e \in begun : e.ev # NextEvent
  BY NextEventIsNew DEF StartRecord, Inv
<1>3. /\ \A x \in Requests \ {r} : writer'[x] = writer[x]
      /\ writer'[r].ev = NextEvent /\ writer'[r].at = 0
  BY <1>1 DEF StartRecord
<1>4. RowsOrdered'
  BY <1>2 DEF Order, RowsOrdered
<1>5. \A row \in trail : row.ev # NextEvent
  BY <1>2 DEF Order, RowsOrdered
<1>6. NotYetWritten'
  BY <1>1, <1>3, <1>5 DEF Order, NotYetWritten
<1>7. QED
  BY <1>4, <1>6 DEF Order

\* A request that writes no row is not on its way to one, or was before.
LEMMA GoOnKeepsOrder ==
  ASSUME Inv, Order, NEW r \in Requests, NEW q \in Writer,
         writer' = [writer EXCEPT ![r] = q],
         q.pc \in {"stamp", "insert"} =>
           /\ writer[r].pc \in {"stamp", "insert"} /\ q.ev = writer[r].ev /\ q.at <= clock,
         UNCHANGED <<backend, clock, trail, begun>>
  PROVE  Order'
<1>1. writer \in [Requests -> Writer]
  BY DEF Inv, TypeOK
<1>2. RowsOrdered'
  BY DEF Order, RowsOrdered
<1>3. NotYetWritten'
  BY <1>1 DEF Order, NotYetWritten
<1>4. QED
  BY <1>2, <1>3 DEF Order

\* A row that Insert adds is its event's first, and the memory store's latest.
LEMMA InsertKeepsOrder ==
  ASSUME Inv, Order, NEW r \in Requests, Insert(r), UNCHANGED <<backend, clock>>
  PROVE  Order'
<1>1. TypeOK /\ RowsOrdered /\ clock \in Nat /\ writer[r] \in Writer
  BY DEF Inv, TypeOK, Order
<1> DEFINE at == IF backend = "memory" THEN clock ELSE writer[r].at
<1>2. /\ writer[r].ev \in Nat /\ writer[r].type \in Types /\ writer[r].user \in People
      /\ at \in Nat
  BY <1>1 DEF Writer
<1>3. writer[r].pc \in {"stamp", "insert"} /\ {"stamp", "insert"} \subseteq Holding
  BY DEF Insert, At, Holding
<1>4. at <= clock /\ (backend = "memory" => at = clock)
  BY <1>1, <1>3 DEF Order, NotYetWritten
<1> HIDE DEF at
<1>5. PICK row : /\ row = Row(writer[r].ev, writer[r].type, writer[r].user, at)
                 /\ trail' = trail \cup {row} /\ begun' = begun
  BY DEF Insert, at
<1>6. \E e \in begun : e.ev = writer[r].ev
  <2> DEFINE e == [ev |-> writer[r].ev, type |-> writer[r].type]
  <2>1. e \in begun /\ e.ev = writer[r].ev
    BY <1>3 DEF Inv, WritersHold
  <2>2. QED
    BY <2>1
<1>7. \A x \in trail : x.ev # writer[r].ev
  BY <1>3 DEF Order, NotYetWritten
<1>8. RowsOrdered'
  BY <1>1, <1>2, <1>4, <1>5, <1>6, <1>7, AddKeepsOrder
<1>9. row.ev = writer[r].ev
  BY <1>5 DEF Row
<1>10. \A x \in Requests \ {r} : writer'[x] = writer[x]
  BY <1>1 DEF Insert, Goto, TypeOK
<1>11. writer'[r].pc \notin {"stamp", "insert"}
  <2>1. LET pc == AfterInsert(writer[r])
        IN  pc \in Holding \cup Afterwards \cup {"lock"} /\ pc \notin {"stamp", "insert"}
    BY <1>1, AfterInsertIs DEF Holding, Afterwards
  <2>2. PICK pc \in Holding \cup Afterwards \cup {"lock"} :
          pc = AfterInsert(writer[r]) /\ pc \notin {"stamp", "insert"} /\ Goto(r, pc)
    BY <2>1 DEF Insert
  <2>3. PICK q \in Writer : writer' = [writer EXCEPT ![r] = q] /\ q.pc = pc
    BY <1>1, <2>2, GotoLeads
  <2>4. QED
    BY <1>1, <2>2, <2>3 DEF TypeOK
<1>12. \A x \in Requests \ {r} :
         writer[x].pc \in {"stamp", "insert"} => writer[x].ev # writer[r].ev
  BY <1>3 DEF Inv, WritersHold
<1>13. NotYetWritten'
  BY <1>5, <1>9, <1>10, <1>11, <1>12 DEF Order, NotYetWritten
<1>14. QED
  BY <1>8, <1>13 DEF Order

\* Deleting an account removes rows, or names, and leaves their order.
LEMMA DeleteKeepsOrder ==
  ASSUME Inv, Order, NEW r \in Requests, DeleteUser(r), UNCHANGED <<backend, clock>>
  PROVE  Order'
<1>1. TypeOK
  BY DEF Inv
<1>2. \A x \in trail' : \E y \in trail : x.ev = y.ev /\ x.at = y.at
  BY <1>1 DEF DeleteUser, TypeOK, Rows
<1>3. \A x, y \in trail' : x.ev = y.ev => x = y
  <2>1. CASE backend = "memory"
    BY <2>1 DEF DeleteUser, Order, RowsOrdered
  <2>2. CASE backend # "memory"
    <3> SUFFICES ASSUME NEW x \in trail', NEW y \in trail', x.ev = y.ev
                 PROVE  x = y
      OBVIOUS
    <3>1. PICK a \in trail : x = [a EXCEPT !.user = ""]
      BY <2>2 DEF DeleteUser
    <3>2. PICK b \in trail : y = [b EXCEPT !.user = ""]
      BY <2>2 DEF DeleteUser
    <3>3. a.ev = b.ev
      BY <1>1, <3>1, <3>2 DEF TypeOK, Rows
    <3>4. a = b
      BY <3>3 DEF Order, RowsOrdered
    <3>5. QED
      BY <3>1, <3>2, <3>4
  <2>3. QED
    BY <2>1, <2>2
<1>4. backend = "memory" => trail' = trail
  BY DEF DeleteUser
<1>5. RowsOrdered'
  <2>1. UNCHANGED begun
    BY DEF DeleteUser
  <2>2. \A row \in trail' : row.at <= clock /\ \E e \in begun : e.ev = row.ev
    BY <1>2 DEF Order, RowsOrdered
  <2>3. QED
    BY <1>3, <1>4, <2>1, <2>2 DEF Order, RowsOrdered
<1>6. PICK q \in Writer : writer' = [writer EXCEPT ![r] = q] /\ q.pc = "idle"
  BY IdleWriter DEF DeleteUser, Goto
<1>7. NotYetWritten'
  BY <1>1, <1>2, <1>6 DEF Order, NotYetWritten, TypeOK
<1>8. QED
  BY <1>5, <1>7 DEF Order

\* Every step keeps one row to an event, in the order of time.
LEMMA OrderStep ==
  ASSUME Inv, Order, [Next]_vars
  PROVE  Order'
<1>1. TypeOK /\ clock \in Nat /\ writer \in [Requests -> Writer]
  BY DEF Inv, TypeOK
<1>2. ASSUME NEW r \in Requests, RequestStep(r), UNCHANGED <<backend, clock>>
      PROVE  Order'
  <2>1. CASE \/ LoginFails(r) \/ DeleteAccount(r)
             \/ \E event \in Others : RecordOther(r, event)
    BY <1>2, <2>1, BeginKeepsOrder DEF LoginFails, DeleteAccount, RecordOther
  <2>2. CASE Stamp(r)
    <3> DEFINE q == [writer[r] EXCEPT !.pc = "insert", !.at = clock]
    <3>1. q \in Writer /\ q.pc = "insert" /\ q.ev = writer[r].ev /\ q.at = clock
      BY <1>1 DEF Writer, Holding
    <3>2. /\ writer' = [writer EXCEPT ![r] = q] /\ writer[r].pc = "stamp"
          /\ UNCHANGED <<backend, clock, trail, begun>>
      BY <1>1, <1>2, <2>2 DEF Stamp, At
    <3> HIDE DEF q
    <3>3. q.at <= clock
      BY <1>1, <3>1
    <3>4. QED
      BY <3>1, <3>2, <3>3, GoOnKeepsOrder
  <2>3. CASE Insert(r)
    BY <1>2, <2>3, InsertKeepsOrder
  <2>4. CASE DeleteUser(r)
    BY <1>2, <2>4, DeleteKeepsOrder
  <2>5. CASE LockAccount(r) /\ StartRecord(r, "account_locked", User, "idle")
    <3>1. UNCHANGED trail
      BY <2>5 DEF LockAccount
    <3>2. QED
      BY <1>2, <2>5, <3>1, BeginKeepsOrder
  <2>6. ASSUME NEW pc \in {"notify", "lock"} \cup Afterwards, Goto(r, pc),
               UNCHANGED <<trail, begun>>
        PROVE  Order'
    <3>1. pc \in Holding \cup Afterwards \cup {"lock"} /\ pc \notin {"stamp", "insert"}
      BY DEF Holding, Afterwards
    <3>2. PICK q \in Writer : writer' = [writer EXCEPT ![r] = q] /\ q.pc = pc
      BY <1>1, <2>6, <3>1, GotoLeads
    <3>3. UNCHANGED <<backend, clock, trail, begun>>
      BY <1>2, <2>6
    <3>4. q.pc \notin {"stamp", "insert"}
      BY <3>1, <3>2
    <3>5. QED
      BY <3>2, <3>3, <3>4, GoOnKeepsOrder
  <2>7. CASE InsertFails(r)
    <3>1. AfterInsert(writer[r]) \in {"notify", "lock"} \cup Afterwards
      BY <1>1 DEF AfterInsert, Writer
    <3>2. QED
      BY <2>6, <2>7, <3>1 DEF InsertFails
  <2>8. CASE SendWebhook(r) \/ SendFails(r)
    <3>1. writer[r].then \in Afterwards /\ "idle" \in Afterwards
      BY <1>1 DEF Writer, Afterwards
    <3>2. QED
      BY <2>6, <2>8, <3>1 DEF SendWebhook, SendFails, Return
  <2>9. CASE Increment(r) \/ (LockAccount(r) /\ Goto(r, "idle") /\ UNCHANGED begun)
    BY <2>6, <2>9 DEF Increment, LockAccount, Afterwards
  <2>10. QED
    BY <1>2, <2>1, <2>2, <2>3, <2>4, <2>5, <2>7, <2>8, <2>9 DEF RequestStep, LockAccount
<1>3. CASE Crash /\ UNCHANGED <<backend, clock>>
  <2>1. \A r \in Requests : writer'[r].pc \notin {"stamp", "insert"}
    BY <1>3 DEF Crash, Idle
  <2>2. UNCHANGED <<backend, clock, trail, begun>>
    BY <1>3 DEF Crash
  <2>3. QED
    BY <2>1, <2>2 DEF Order, RowsOrdered, NotYetWritten
<1>4. CASE HostRecords /\ UNCHANGED <<backend, clock>>
  <2>1. /\ NextEvent \in Nat /\ \A e \in begun : e.ev # NextEvent
        /\ begun' = begun \cup {[ev |-> NextEvent, type |-> HostType]} /\ UNCHANGED writer
    BY <1>4, NextEventIsNew DEF Inv, HostRecords
  <2>2. PICK row, user : /\ user = "" /\ row = Row(NextEvent, HostType, user, clock)
                         /\ trail' = trail \cup {row}
    BY <1>4 DEF HostRecords
  <2>3. HostType \in Types /\ user \in People
    BY <2>2 DEF Types, People
  <2>4. \A x \in trail : x.ev # NextEvent
    BY <2>1 DEF Order, RowsOrdered
  <2>5. /\ clock <= clock /\ begun \subseteq begun' /\ \E e \in begun' : e.ev = NextEvent
        /\ RowsOrdered /\ UNCHANGED <<backend, clock>>
    <3> DEFINE e == [ev |-> NextEvent, type |-> HostType]
    <3>1. e \in begun' /\ e.ev = NextEvent
      BY <2>1
    <3> HIDE DEF e
    <3>2. begun \subseteq begun' /\ clock <= clock
      BY <1>1, <2>1
    <3>3. RowsOrdered
      BY DEF Order
    <3>4. QED
      BY <1>4, <3>1, <3>2, <3>3
  <2>6. RowsOrdered'
    BY <1>1, <2>1, <2>2, <2>3, <2>4, <2>5, AddKeepsOrder
  <2>7. row.ev = NextEvent
    BY <2>2 DEF Row
  <2>8. \A r \in Requests : writer[r].pc \in {"stamp", "insert"} => writer[r].ev # NextEvent
    BY <2>1 DEF Inv, WritersHold, Holding
  <2>9. NotYetWritten'
    BY <1>4, <2>1, <2>2, <2>7, <2>8 DEF Order, NotYetWritten
  <2>10. QED
    BY <2>6, <2>9 DEF Order
<1>5. CASE UNCHANGED <<backend, trailVars>> /\ clock' \in Nat /\ clock <= clock'
  <2>1. UNCHANGED <<backend, trail, writer, begun>>
    BY <1>5 DEF trailVars
  <2>2. /\ \A row \in trail : row.at \in Nat
        /\ \A r \in Requests : writer[r].at \in Nat
    BY <1>1 DEF TypeOK, Rows, Writer
  <2>3. RowsOrdered'
    BY <1>1, <1>5, <2>1, <2>2 DEF Order, RowsOrdered
  <2>4. NotYetWritten'
    BY <1>1, <1>5, <2>1, <2>2 DEF Order, NotYetWritten
  <2>5. QED
    BY <2>3, <2>4 DEF Order
<1>6. CASE UNCHANGED vars
  BY <1>1, <1>5, <1>6 DEF vars
<1>7. CASE Next
  BY <1>1, <1>2, <1>3, <1>4, <1>5, <1>7 DEF Next, Tick
<1>8. QED
  BY <1>6, <1>7

\* A row is new, was there, or was about to be inserted; and likewise a stamp.
LEMMA FlowStep ==
  ASSUME Inv, [Next]_vars
  PROVE  /\ \A x \in trail' : \/ x.at = clock
                              \/ \E y \in trail : x.ev = y.ev /\ x.at = y.at
                              \/ \E r \in Requests : /\ writer[r].pc = "insert"
                                                     /\ x.ev = writer[r].ev /\ x.at = writer[r].at
         /\ \A r \in Requests : writer'[r].pc = "insert" =>
              writer'[r] = writer[r] \/ writer'[r].at = clock
         /\ clock \in Nat /\ clock' \in Nat /\ clock <= clock'
<1>1. TypeOK /\ clock \in Nat /\ writer \in [Requests -> Writer]
  BY DEF Inv, TypeOK
<1>2. clock' \in Nat /\ clock <= clock'
  BY <1>1 DEF Next, Tick, vars
<1>3. ASSUME NEW x \in trail', x \notin trail
      PROVE  \/ x.at = clock
             \/ \E y \in trail : x.ev = y.ev /\ x.at = y.at
             \/ \E r \in Requests : /\ writer[r].pc = "insert"
                                    /\ x.ev = writer[r].ev /\ x.at = writer[r].at
  <2>1. ASSUME NEW r \in Requests, Insert(r)
        PROVE  \/ x.at = clock
               \/ writer[r].pc = "insert" /\ x.ev = writer[r].ev /\ x.at = writer[r].at
    <3> DEFINE at == IF backend = "memory" THEN clock ELSE writer[r].at
    <3>1. x = Row(writer[r].ev, writer[r].type, writer[r].user, at)
      BY <1>3, <2>1 DEF Insert
    <3>2. at = clock \/ (writer[r].pc = "insert" /\ at = writer[r].at)
      <4>1. backend = "memory" \/ writer[r].pc = "insert"
        BY <2>1 DEF Insert, At
      <4>2. QED
        BY <4>1
    <3> HIDE DEF at
    <3>3. x.ev = writer[r].ev /\ x.at = at
      BY <3>1 DEF Row
    <3>4. QED
      BY <3>2, <3>3
  <2>2. ASSUME NEW r \in Requests, DeleteUser(r)
        PROVE  \E y \in trail : x.ev = y.ev /\ x.at = y.at
    BY <1>1, <1>3, <2>2 DEF DeleteUser, TypeOK, Rows
  <2>3. ASSUME HostRecords
        PROVE  x.at = clock
    <3>1. x = Row(NextEvent, HostType, "", clock)
      BY <1>3, <2>3 DEF HostRecords
    <3>2. QED
      BY <3>1 DEF Row
  <2>4. ASSUME NEW r \in Requests, RequestStep(r)
        PROVE  Insert(r) \/ DeleteUser(r)
    BY <1>3, <2>4 DEF RequestStep, LoginFails, DeleteAccount, RecordOther, Stamp,
          InsertFails, SendWebhook, SendFails, Increment, LockAccount
  <2>5. trail' # trail => HostRecords \/ \E r \in Requests : RequestStep(r)
    BY DEF Next, Tick, vars, trailVars, Crash
  <2>6. QED
    BY <1>3, <2>1, <2>2, <2>3, <2>4, <2>5
<1>4. ASSUME NEW x \in Requests, writer'[x].pc = "insert", writer'[x] # writer[x]
      PROVE  writer'[x].at = clock
  <2>1. PICK r \in Requests : RequestStep(r)
    <3>1. \/ \E r \in Requests : RequestStep(r)
          \/ UNCHANGED writer \/ Crash
      BY DEF Next, Tick, vars, trailVars, HostRecords
    <3>2. ASSUME Crash
          PROVE  FALSE
      <4>1. writer'[x] = Idle
        BY <3>2 DEF Crash
      <4>2. QED
        BY <1>4, <4>1, IdleWriter
    <3>3. QED
      BY <1>4, <3>1, <3>2
  <2>2. x = r
    BY <1>4, <2>1, WritersApart
  <2>3. ASSUME NEW pc, pc # "insert"
        PROVE  ~Goto(r, pc)
    <3>1. [writer[r] EXCEPT !.pc = pc].pc = pc /\ Idle.pc = "idle"
      BY <1>1 DEF Writer, Idle
    <3>2. Goto(r, pc) => writer'[r] = IF pc = "idle" THEN Idle ELSE [writer[r] EXCEPT !.pc = pc]
      BY <1>1 DEF Goto
    <3>3. QED
      BY <1>4, <2>2, <2>3, <3>1, <3>2
  <2>4. writer[r].then # "insert" /\ AfterInsert(writer[r]) # "insert"
    BY <1>1 DEF Writer, Afterwards, AfterInsert
  <2>5. ASSUME NEW type, NEW user, NEW then
        PROVE  ~StartRecord(r, type, user, then)
    BY <1>1, <1>4, <2>2 DEF StartRecord
  <2>6. ~Increment(r) /\ ~LockAccount(r) /\ ~DeleteUser(r)
    BY <2>3, <2>5 DEF Increment, LockAccount, DeleteUser
  <2>7. ~Insert(r) /\ ~InsertFails(r) /\ ~SendWebhook(r) /\ ~SendFails(r)
    BY <2>3, <2>4 DEF Insert, InsertFails, SendWebhook, SendFails, Return
  <2>8. Stamp(r)
    BY <2>1, <2>5, <2>6, <2>7 DEF RequestStep, LoginFails, DeleteAccount, RecordOther
  <2>9. QED
    BY <1>1, <2>2, <2>8 DEF Stamp, Writer
<1>5. QED
  BY <1>1, <1>2, <1>3, <1>4

\* What a digest has caught stays caught.
LEMMA CatchesStep ==
  ASSUME Inv, [Next]_vars, NEW d, Catches(d)
  PROVE  Catches(d)'
<1>1. /\ d.since \in Nat /\ d.start \in 0..clock /\ clock \in Nat
      /\ clock' \in Nat /\ clock <= clock'
  BY FlowStep DEF Catches
<1>2. \A ev, at : at = clock => Caught(d, ev, at)
  BY <1>1 DEF Caught
<1>3. \A row \in trail' : Caught(d, row.ev, row.at)
  BY <1>2, FlowStep DEF Catches
<1>4. \A r \in Requests : writer'[r].pc = "insert" => Caught(d, writer'[r].ev, writer'[r].at)
  BY <1>2, FlowStep DEF Catches
<1>5. d.start \in 0..clock'
  BY <1>1
<1>6. QED
  BY <1>1, <1>3, <1>4, <1>5 DEF Catches, Caught

\* A count catches everything: it sees the rows, and the rest is in flight.
LEMMA CountCatches ==
  ASSUME Inv, Shaped, DigestCount, NEW d, d = admin'
  PROVE  Catches(d)
<1>1. /\ d.since = admin.since /\ d.start = admin.start
      /\ d.rows = InWindow(admin.since) /\ d.inFlight = InFlight
  BY DEF DigestCount
<1>2. d.since \in Nat /\ d.start \in 0..clock
  BY <1>1 DEF Shaped, DigestCount
<1>3. ASSUME NEW row \in trail, ~(row.at < d.since)
      PROVE  row \in d.rows
  <2>1. row.at \in Nat
    BY DEF Inv, TypeOK, Rows
  <2>2. ~Earlier(row.at, admin.since)
    BY <1>1, <1>2, <1>3, <2>1, EarlierIs
  <2>3. QED
    BY <1>1, <2>2 DEF InWindow
<1>4. ASSUME NEW r \in Requests, writer[r].pc = "insert"
      PROVE  writer[r].ev \in d.inFlight
  BY <1>1, <1>4 DEF InFlight, At
<1>5. QED
  BY <1>2, <1>3, <1>4 DEF Catches, Caught

\* Every digest, and the one that is being built, catches what it is about.
LEMMA CatchStep ==
  ASSUME Inv, Shaped, CatchInv, [Next]_vars
  PROVE  CatchInv'
<1>1. ASSUME NEW d, NEW c, Catches(d), c.since = d.since, c.start = d.start,
             c.rows = d.rows, c.inFlight = d.inFlight
      PROVE  Catches(c)'
  <2>1. Catches(d)'
    BY <1>1, CatchesStep
  <2>2. QED
    BY <1>1, <2>1 DEF Catches, Caught
<1>2. PICK a, d, p : a = admin' /\ d = digest' /\ p = previous'
  OBVIOUS
<1>3. a.pc = "search" => Catches(a)'
  <2>1. CASE UNCHANGED admin
    BY <1>1, <1>2, <2>1 DEF CatchInv
  <2>2. CASE DigestSearch
    <3>1. /\ admin.pc = "search" /\ a.since = admin.since /\ a.start = admin.start
          /\ a.rows = admin.rows /\ a.inFlight = admin.inFlight
      BY <1>2, <2>2, SearchIs DEF DigestSearch
    <3>2. QED
      BY <1>1, <3>1 DEF CatchInv
  <2>3. CASE DigestCount
    <3>1. Catches(a)
      BY <1>2, <2>3, CountCatches
    <3>2. QED
      BY <1>1, <3>1
  <2>4. CASE AdminStep /\ ~DigestSearch /\ ~DigestCount
    <3>1. a.pc # "search"
      BY <1>2, <2>4 DEF AdminStep, DigestSince, DigestDone, BuildTuningReport,
            DiagnoseUser, DiagnoseHistory, ReportReturns, AdminIdle
    <3>2. QED
      BY <3>1
  <2>5. QED
    BY <2>1, <2>2, <2>3, <2>4 DEF Next, Tick, vars, adminVars
<1>4. \/ UNCHANGED <<digest, previous>>
      \/ DigestDone
  BY DEF Next, Tick, vars, adminVars, AdminStep, DigestSince, DigestCount, DigestSearch,
         BuildTuningReport, DiagnoseUser, DiagnoseHistory, ReportReturns
<1>5. d # None => Catches(d)'
  <2>1. CASE UNCHANGED digest
    BY <1>1, <1>2, <2>1 DEF CatchInv
  <2>2. CASE DigestDone
    <3>1. /\ admin.pc = "search" /\ d.since = admin.since /\ d.start = admin.start
          /\ d.rows = admin.rows /\ d.inFlight = admin.inFlight
      BY <1>2, <2>2 DEF DigestDone
    <3>2. QED
      BY <1>1, <3>1 DEF CatchInv
  <2>3. QED
    BY <1>4, <2>1, <2>2
<1>6. p # None => Catches(p)'
  <2>1. CASE UNCHANGED previous
    BY <1>1, <1>2, <2>1 DEF CatchInv
  <2>2. CASE DigestDone /\ p # None
    <3>1. /\ digest # None /\ p.since = digest.since /\ p.start = digest.start
          /\ p.rows = digest.rows /\ p.inFlight = digest.inFlight
      BY <1>2, <2>2 DEF DigestDone
    <3>2. QED
      BY <1>1, <3>1 DEF CatchInv
  <2>3. QED
    BY <1>4, <2>1, <2>2
<1>7. QED
  BY <1>2, <1>3, <1>5, <1>6 DEF CatchInv, Catches, Caught

\* One row to an event, and no digest misses what it is about.
LEMMA AlwaysCaught == Spec => [](Inv /\ Shaped /\ Order /\ CatchInv)
<1>1. Init => Inv /\ Shaped /\ Order /\ CatchInv
  <2>1. Init => Shaped /\ CatchInv
    BY DEF Init, AdminIdle, Shaped, CatchInv
  <2>2. Init => RowsOrdered
    BY DEF Init, RowsOrdered
  <2>3. ASSUME Init
        PROVE  NotYetWritten
    <3>1. \A r \in Requests : writer[r].pc = "idle"
      BY <2>3, IdleWriter DEF Init
    <3>2. QED
      BY <3>1 DEF NotYetWritten
  <2>4. QED
    BY <2>1, <2>2, <2>3, InitInv DEF Order
<1>2. /\ Inv /\ Shaped /\ Order /\ CatchInv /\ [Next]_vars
      => (Inv /\ Shaped /\ Order /\ CatchInv)'
  <2>1. Inv => clock \in Nat
    BY DEF Inv, TypeOK
  <2>2. QED
    BY <2>1, NextInv, ShapedStep, OrderStep, CatchStep
<1>3. QED
  BY <1>1, <1>2, PTL DEF Spec

\* Between two digests that meet or overlap only rows that were on their way into
\* the table get lost, for every store, any windows and any number of requests.
\* (created_at is stamped before the row is visible; BuildDigest, CountByType)
THEOREM AlwaysDigestsMissOnlyInFlight == Spec => []DigestsMissOnlyInFlight
<1>1. ASSUME Inv, CatchInv
      PROVE  DigestsMissOnlyInFlight
  <2> SUFFICES ASSUME digest # None, previous # None, digest.since <= previous.start,
                      NEW row \in trail, row.at >= previous.since, row.at < digest.start
               PROVE  \/ row.ev \in {x.ev : x \in previous.rows \cup digest.rows}
                      \/ row.ev \in previous.inFlight \cup digest.inFlight
    BY DEF DigestsMissOnlyInFlight
  <2>1. row.at \in Nat
    BY <1>1 DEF Inv, TypeOK, Rows
  <2>2. /\ digest.since \in Nat /\ digest.start \in Nat /\ Caught(digest, row.ev, row.at)
        /\ previous.since \in Nat /\ previous.start \in Nat /\ Caught(previous, row.ev, row.at)
        /\ clock \in Nat
    BY <1>1 DEF CatchInv, Catches, Inv, TypeOK
  <2>3. QED
    BY <2>1, <2>2 DEF Caught
<1>2. QED
  BY <1>1, AlwaysCaught, PTL

-----------------------------------------------------------------------------
(* A digest adds up *)

\* The rows of a type that were counted are in the table, though perhaps without
\* their users.
Matched(counted, type, since) ==
  /\ \A x \in counted : \E row \in trail :
       row.ev = x.ev /\ row.type = type /\ row.at = x.at /\ x.at >= since
  /\ \A x, y \in counted : x.ev = y.ev => x = y

WindowOf(found, since) == {row \in found : row.at >= since}

\* Everything counted is in the window, or that is full and what it leaves out is
\* no newer.
Finds(window, counted, type) ==
  /\ Cardinality(window) \in Nat /\ Cardinality(counted) \in Nat
  /\ Cardinality(window) < Cardinality(counted) => Cardinality(window) = HighlightLimit
  /\ \A x \in counted, y \in window : x.ev \in {row.ev : row \in window} \/ x.at <= y.at
  /\ \A row \in window : row \in trail /\ row.type = type

\* That is what a search of the newest rows gives.
LEMMA SearchFinds ==
  ASSUME TypeOK, Order, NEW since \in Nat, NEW type, NEW counted,
         Matched(counted, type, since), NEW found \in SearchByType(type, HighlightLimit)
  PROVE  Finds(WindowOf(found, since), counted, type)
<1>0. PICK window : window = WindowOf(found, since)
  OBVIOUS
<1> DEFINE rows == {row \in trail : row.type = type}
           recent == {row \in rows : row.at >= since}
<1>1. found \in Latest(rows, HighlightLimit) /\ HighlightLimit \in Nat
  BY LimitsAssumption DEF SearchByType
<1>2. IsFiniteSet(rows) /\ IsFiniteSet(recent) /\ rows \in SUBSET trail
  BY FS_Subset DEF TypeOK
<1>3. \A row \in trail : row.at \in Nat
  BY DEF TypeOK, Rows
<1>4. \A x \in counted : \E row \in recent : row.ev = x.ev /\ row.at = x.at
  BY DEF Matched
<1>5. \A row \in recent : row \in rows /\ row \in trail /\ row.at >= since
  OBVIOUS
<1>6. \A row \in rows : row.at >= since => row \in recent
  OBVIOUS
<1>7. \A row \in rows : row \in trail /\ row.type = type
  OBVIOUS
<1> HIDE DEF rows, recent
<1>8. /\ found \subseteq rows /\ (Cardinality(found) = HighlightLimit \/ found = rows)
      /\ \A x \in found, y \in rows \ found : y.at <= x.at
  BY <1>1, <1>2, LatestIsAll, LatestAreNewest
<1>9. window \subseteq recent /\ \A row \in recent : row \in found => row \in window
  BY <1>0, <1>5, <1>6, <1>8 DEF WindowOf
<1>10. Cardinality(counted) \in Nat /\ Cardinality(counted) <= Cardinality(recent)
  <2> DEFINE f == [x \in counted |-> CHOOSE row \in recent : row.ev = x.ev]
  <2>1. \A x \in counted : f[x] \in recent /\ f[x].ev = x.ev
    BY <1>4
  <2>2. f \in Injection(counted, recent)
    <3>1. f \in [counted -> recent]
      BY <2>1
    <3>2. \A x, y \in counted : f[x] = f[y] => x = y
      BY <2>1 DEF Matched
    <3> HIDE DEF f
    <3>3. QED
      BY <3>1, <3>2 DEF Injection, IsInjective
  <2>3. IsFiniteSet(counted) /\ Cardinality(counted) <= Cardinality(recent)
    BY <1>2, <2>2, FS_Injection
  <2>4. QED
    BY <2>3, FS_CardinalityType
<1>11. IsFiniteSet(window) /\ Cardinality(window) \in Nat /\ Cardinality(recent) \in Nat
  BY <1>2, <1>9, FS_Subset, FS_CardinalityType
<1>12. ASSUME window # recent
       PROVE  Cardinality(window) = HighlightLimit
  <2>1. PICK z \in recent : z \notin found
    BY <1>9, <1>12
  <2>2. found # rows
    BY <1>5, <2>1
  <2>3. ASSUME NEW x \in found
        PROVE  x \in window
    <3>1. z.at <= x.at /\ z.at >= since
      BY <1>5, <1>8, <2>1
    <3>2. x.at \in Nat /\ z.at \in Nat
      BY <1>3, <1>5, <1>7, <1>8
    <3>3. QED
      BY <1>0, <3>1, <3>2 DEF WindowOf
  <2>4. window = found
    BY <1>0, <2>3 DEF WindowOf
  <2>5. QED
    BY <1>8, <2>2, <2>4
<1>13. ASSUME NEW x \in counted, NEW y \in window
       PROVE  x.ev \in {row.ev : row \in window} \/ x.at <= y.at
  <2>1. PICK row \in recent : row.ev = x.ev /\ row.at = x.at
    BY <1>4
  <2>2. CASE row \in found
    BY <1>9, <2>1, <2>2
  <2>3. CASE row \notin found
    BY <1>0, <1>5, <1>8, <2>1, <2>3 DEF WindowOf
  <2>4. QED
    BY <2>2, <2>3
<1>14. Cardinality(window) < Cardinality(counted) => Cardinality(window) = HighlightLimit
  BY <1>10, <1>11, <1>12
<1>15. \A row \in window : row \in trail /\ row.type = type
  BY <1>0, <1>7, <1>8 DEF WindowOf
<1>16. QED
  BY <1>0, <1>10, <1>11, <1>13, <1>14, <1>15 DEF Finds

\* A count is the number of rows that were counted.
LEMMA CountOfIs ==
  ASSUME NEW d, NEW until, Counted(d, until), NEW type
  PROVE  CountOf(d.counts, type) = Cardinality({row \in d.rows : row.type = type})
<1>1. d.counts = [t \in {row.type : row \in d.rows} |->
                    Cardinality({row \in d.rows : row.type = t})]
  BY DEF Counted
<1>2. CASE type \in {row.type : row \in d.rows}
  BY <1>1, <1>2 DEF CountOf
<1>3. CASE type \notin {row.type : row \in d.rows}
  <2>1. {row \in d.rows : row.type = type} = {}
    BY <1>3
  <2>2. CountOf(d.counts, type) = 0
    BY <1>1, <1>3 DEF CountOf
  <2>3. QED
    BY <2>1, <2>2, FS_EmptySet
<1>4. QED
  BY <1>2, <1>3

\* Nothing else than the rows of the type matters to its part of the digest.
LEMMA AddsUpOf ==
  ASSUME NEW c, NEW d, NEW type, AddsUp(d, type), c.rows = d.rows, c.counts = d.counts,
         {row \in c.shown : row.type = type} = {row \in d.shown : row.type = type}
  PROVE  AddsUp(c, type)
  BY DEF AddsUp

\* Rows stay, whatever happens to their users.
LEMMA RowsStay ==
  ASSUME Inv, [Next]_vars
  PROVE  \A row \in trail : \E x \in trail' :
           x.ev = row.ev /\ x.type = row.type /\ x.at = row.at
<1>1. ASSUME NEW r \in Requests, DeleteUser(r), NEW row \in trail
      PROVE  \E x \in trail' : x.ev = row.ev /\ x.type = row.type /\ x.at = row.at
  <2>1. row \in Rows
    BY DEF Inv, TypeOK
  <2> DEFINE x == [row EXCEPT !.user = ""]
  <2>2. x.ev = row.ev /\ x.type = row.type /\ x.at = row.at
    BY <2>1 DEF Rows
  <2>3. row \in trail' \/ x \in trail'
    BY <1>1 DEF DeleteUser
  <2> HIDE DEF x
  <2>4. QED
    BY <2>2, <2>3
<1>2. trail \subseteq trail' \/ \E r \in Requests : DeleteUser(r)
  BY WritersApart DEF Next, Tick, vars, trailVars, Crash, HostRecords
<1>3. QED
  BY <1>1, <1>2

\* The count begins a digest that adds up.
LEMMA CountBuilds ==
  ASSUME Inv, Shaped, Order, DigestCount, NEW d, d = admin'
  PROVE  Building(d)
<1>1. /\ d.since = admin.since /\ d.rows = InWindow(admin.since) /\ d.shown = {}
      /\ d.counts = CountByType(admin.since)
      /\ d.todo = DigestAttentionTypes \cap DOMAIN d.counts
  BY DEF DigestCount
<1>2. admin.since \in Nat /\ clock \in Nat
  BY DEF Shaped, DigestCount, Inv, TypeOK
<1>3. d.rows \subseteq trail /\ IsFiniteSet(d.rows)
  BY <1>1, FS_Subset DEF InWindow, Inv, TypeOK
<1>4. ASSUME NEW row \in d.rows
      PROVE  row.at \in d.since..clock
  <2>1. row \in trail /\ ~Earlier(row.at, admin.since)
    BY <1>1 DEF InWindow
  <2>2. row.at \in Nat /\ row.at <= clock
    BY <2>1 DEF Inv, TypeOK, Rows, Order, RowsOrdered
  <2>3. QED
    BY <1>1, <1>2, <2>1, <2>2, EarlierIs
<1>5. Counted(d, clock)
  BY <1>1, <1>3, <1>4 DEF Counted, CountByType
<1>6. /\ \A x \in d.rows : \E row \in trail :
           row.ev = x.ev /\ row.type = x.type /\ row.at = x.at
      /\ \A x, y \in d.rows : x.ev = y.ev => x = y
  BY <1>3 DEF Order, RowsOrdered
<1>7. ASSUME NEW type \in DigestAttentionTypes \ d.todo
      PROVE  AddsUp(d, type)
  <2>1. CountOf(d.counts, type) = 0
    BY <1>1 DEF CountOf
  <2>2. {row \in d.shown : row.type = type} = {}
    BY <1>1
  <2>3. QED
    BY <2>1, <2>2, FS_EmptySet DEF AddsUp
<1>8. QED
  BY <1>1, <1>5, <1>6, <1>7 DEF Building

\* So does every search.
LEMMA SearchBuilds ==
  ASSUME Inv, Shaped, Order, Building(admin), DigestSearch, NEW d, d = admin'
  PROVE  Building(d)
<1>1. PICK type \in admin.todo : \E found \in SearchByType(type, HighlightLimit) :
        d = [pc |-> "search", start |-> admin.start, since |-> admin.since,
             counts |-> admin.counts, todo |-> admin.todo \ {type},
             shown |-> admin.shown \cup WindowOf(found, admin.since),
             rows |-> admin.rows, inFlight |-> admin.inFlight]
  BY SearchIs DEF WindowOf
<1>2. PICK found \in SearchByType(type, HighlightLimit) :
        d = [pc |-> "search", start |-> admin.start, since |-> admin.since,
             counts |-> admin.counts, todo |-> admin.todo \ {type},
             shown |-> admin.shown \cup WindowOf(found, admin.since),
             rows |-> admin.rows, inFlight |-> admin.inFlight]
  BY <1>1
<1> DEFINE window == WindowOf(found, admin.since)
           counted == {row \in admin.rows : row.type = type}
<1>3. /\ d.since = admin.since /\ d.counts = admin.counts /\ d.todo = admin.todo \ {type}
      /\ d.shown = admin.shown \cup window /\ d.rows = admin.rows
  BY <1>2
<1>4. admin.since \in Nat /\ clock \in Nat /\ TypeOK /\ Counted(admin, clock)
  BY DEF Shaped, DigestSearch, Inv, TypeOK, Building
<1>5. Finds(window, counted, type)
  <2>1. Matched(counted, type, admin.since)
    BY <1>4 DEF Building, Counted, Matched
  <2> HIDE DEF counted
  <2>2. QED
    BY <1>4, <2>1, SearchFinds
<1>0. \A row \in window : row.at >= admin.since
  BY DEF WindowOf
<1> HIDE DEF window
<1>6. Counted(d, clock)
  <2>1. \A row \in window : row.at \in admin.since..clock
    BY <1>0, <1>4, <1>5 DEF TypeOK, Rows, Order, RowsOrdered, Finds
  <2>2. QED
    BY <1>3, <1>4, <2>1 DEF Counted
<1>7. AddsUp(d, type)
  <2>1. {row \in d.shown : row.type = type} = window
    BY <1>3, <1>5 DEF Building, Finds
  <2>2. {row \in d.rows : row.type = type} = counted
    BY <1>3
  <2>3. CountOf(d.counts, type) = Cardinality({row \in d.rows : row.type = type})
    BY <1>6, CountOfIs
  <2>4. CountOf(d.counts, type) = Cardinality(counted)
    BY <2>2, <2>3
  <2> HIDE DEF counted
  <2>5. QED
    BY <1>5, <2>1, <2>2, <2>4, LimitsAssumption DEF AddsUp, CapNote, Finds
<1>8. ASSUME NEW t \in DigestAttentionTypes \ d.todo, t # type
      PROVE  AddsUp(d, t)
  <2>1. AddsUp(admin, t)
    BY <1>3, <1>8 DEF Building
  <2>2. {row \in d.shown : row.type = t} = {row \in admin.shown : row.type = t}
    BY <1>3, <1>5, <1>8 DEF Finds
  <2>3. QED
    BY <1>3, <2>1, <2>2, AddsUpOf
<1>9. d.todo \subseteq DigestAttentionTypes /\ \A row \in d.shown : row.type \notin d.todo
  BY <1>3, <1>5 DEF Building, Finds
<1>10. QED
  BY <1>3, <1>6, <1>7, <1>8, <1>9 DEF Building

\* And nothing that happens between the reads disturbs it.
LEMMA BuildingStays ==
  ASSUME Inv, [Next]_vars, NEW d, Building(d), d.since \in Nat
  PROVE  Building(d)'
<1>1. clock \in Nat /\ clock' \in Nat /\ clock <= clock'
  BY FlowStep
<1>2. Counted(d, clock)
  BY DEF Building
<1>3. \A row \in d.shown \cup d.rows : row.at \in d.since..clock'
  BY <1>1, <1>2 DEF Counted
<1>4. \A x \in d.rows : \E row \in trail' :
        row.ev = x.ev /\ row.type = x.type /\ row.at = x.at
  BY RowsStay DEF Building
<1>5. \A c : c = clock' => Counted(d, c)
  BY <1>2, <1>3 DEF Counted
<1>6. Counted(d, clock)'
  BY <1>5 DEF Counted
<1>7. \A type \in DigestAttentionTypes \ d.todo : AddsUp(d, type)'
  BY DEF Building, AddsUp
<1>8. QED
  BY <1>4, <1>6, <1>7 DEF Building

\* Every step keeps the digests adding up.
LEMMA BuildStep ==
  ASSUME Inv, Shaped, Order, BuildInv, [Next]_vars
  PROVE  BuildInv'
<1>1. PICK a, d : a = admin' /\ d = digest'
  OBVIOUS
<1>2. a.pc = "search" => Building(a)'
  <2>1. ASSUME UNCHANGED admin, admin.pc = "search"
        PROVE  Building(a)'
    <3>1. Building(a) /\ a.since \in Nat
      BY <1>1, <2>1 DEF BuildInv, Shaped
    <3>2. QED
      BY <3>1, BuildingStays
  <2>2. ASSUME AdminStep, UNCHANGED <<clock, trail>>, a.pc = "search"
        PROVE  Building(a)'
    <3>1. Building(a)
      <4>1. CASE DigestCount
        BY <1>1, <4>1, CountBuilds
      <4>2. CASE DigestSearch
        <5>1. Building(admin)
          BY <4>2 DEF DigestSearch, BuildInv
        <5>2. QED
          BY <1>1, <4>2, <5>1, SearchBuilds
      <4>3. DigestCount \/ DigestSearch
        BY <1>1, <2>2 DEF AdminStep, DigestSince, DigestDone, BuildTuningReport,
              DiagnoseUser, DiagnoseHistory, ReportReturns, AdminIdle
      <4>4. QED
        BY <4>1, <4>2, <4>3
    <3>2. QED
      BY <2>2, <3>1 DEF Building, Counted, AddsUp
  <2>3. QED
    BY <1>1, <2>1, <2>2 DEF Next, Tick, vars, adminVars, trailVars
<1>3. ASSUME d # None
      PROVE  Counted(d, d.until) /\ \A type \in DigestAttentionTypes : AddsUp(d, type)
  <2>1. CASE UNCHANGED digest
    BY <1>1, <1>3, <2>1 DEF BuildInv
  <2>2. CASE DigestDone
    <3>1. /\ d.since = admin.since /\ d.until = clock /\ d.counts = admin.counts
          /\ d.shown = admin.shown /\ d.rows = admin.rows
      BY <1>1, <2>2 DEF DigestDone
    <3>2. Building(admin) /\ admin.todo = {}
      BY <2>2 DEF DigestDone, BuildInv
    <3>3. Counted(d, d.until)
      BY <3>1, <3>2 DEF Building, Counted
    <3>4. ASSUME NEW type \in DigestAttentionTypes
          PROVE  AddsUp(d, type)
      <4>1. AddsUp(admin, type)
        BY <3>2 DEF Building
      <4>2. QED
        BY <3>1, <4>1 DEF AddsUp
    <3>5. QED
      BY <3>3, <3>4
  <2>3. UNCHANGED digest \/ DigestDone
    BY DEF Next, Tick, vars, adminVars, AdminStep, DigestSince, DigestCount, DigestSearch,
           BuildTuningReport, DiagnoseUser, DiagnoseHistory, ReportReturns
  <2>4. QED
    BY <2>1, <2>2, <2>3
<1>4. (admin.pc = "search" => Building(admin))'
  BY <1>1, <1>2 DEF Building, Counted, AddsUp
<1>5. (digest # None => /\ Counted(digest, digest.until)
                        /\ \A type \in DigestAttentionTypes : AddsUp(digest, type))'
  BY <1>1, <1>3 DEF Counted, AddsUp
<1>6. QED
  BY <1>4, <1>5 DEF BuildInv

\* Digest.Text has no type in two sections.
LEMMA SectionsApart ==
  /\ Len(DigestSections) = 5
  /\ \A j, k \in 1..5 : j # k => DigestSections[j] \cap DigestSections[k] = {}
<1>1. Len(DigestSections) = 5
  BY DEF DigestSections
<1>2. \A j \in 1..5 : j = 1 \/ j = 2 \/ j = 3 \/ j = 4 \/ j = 5
  OBVIOUS
<1>3. /\ DigestSections[1] \cap DigestSections[2] = {}
      /\ DigestSections[1] \cap DigestSections[3] = {}
      /\ DigestSections[1] \cap DigestSections[4] = {}
      /\ DigestSections[1] \cap DigestSections[5] = {}
  BY DEF DigestSections
<1>4. /\ DigestSections[2] \cap DigestSections[3] = {}
      /\ DigestSections[2] \cap DigestSections[4] = {}
      /\ DigestSections[2] \cap DigestSections[5] = {}
  BY DEF DigestSections
<1>5. /\ DigestSections[3] \cap DigestSections[4] = {}
      /\ DigestSections[3] \cap DigestSections[5] = {}
      /\ DigestSections[4] \cap DigestSections[5] = {}
  BY DEF DigestSections
<1>6. QED
  BY <1>1, <1>2, <1>3, <1>4, <1>5

\* Digest.Text prints every counted type in one section.
LEMMA PrintedOnce ==
  ASSUME NEW d, NEW type \in DOMAIN d.counts
  PROVE  Cardinality({k \in DOMAIN Text(d) : <<type, d.counts[type]>> \in Text(d)[k]}) = 1
<1> DEFINE Part(k) == IF k <= 5 THEN DigestSections[k] \cap DOMAIN d.counts
                      ELSE UnclassifiedTypes(d)
<1>1. Text(d) = [k \in 1..6 |-> {<<t, d.counts[t]>> : t \in Part(k)}]
  BY SectionsApart DEF Text
<1>2. UnclassifiedTypes(d) = DOMAIN d.counts \ UNION {DigestSections[k] : k \in 1..5}
  BY SectionsApart DEF UnclassifiedTypes
<1>3. PICK k \in 1..6 : type \in Part(k) /\ \A j \in 1..6 : type \in Part(j) => j = k
  <2>1. CASE type \in UNION {DigestSections[k] : k \in 1..5}
    <3>1. PICK k \in 1..5 : type \in DigestSections[k]
      BY <2>1
    <3>2. \A j \in 1..5 : type \in DigestSections[j] => j = k
      BY <3>1, SectionsApart
    <3>3. type \in Part(k)
      BY <3>1
    <3>4. \A j \in 1..6 : type \in Part(j) => j = k
      BY <1>2, <2>1, <3>2
    <3>5. k \in 1..6
      OBVIOUS
    <3>6. QED
      BY <3>3, <3>4, <3>5
  <2>2. CASE type \notin UNION {DigestSections[k] : k \in 1..5}
    <3>1. type \in Part(6)
      BY <1>2, <2>2
    <3>2. \A j \in 1..6 : type \in Part(j) => j = 6
      BY <2>2
    <3>3. QED
      BY <3>1, <3>2
  <2>3. QED
    BY <2>1, <2>2
<1> HIDE DEF Part
<1>4. \A j \in 1..6 : <<type, d.counts[type]>> \in Text(d)[j] <=> type \in Part(j)
  BY <1>1
<1>5. DOMAIN Text(d) = 1..6
  BY <1>1
<1>6. {j \in DOMAIN Text(d) : <<type, d.counts[type]>> \in Text(d)[j]} = {k}
  BY <1>3, <1>4, <1>5
<1>7. QED
  BY <1>6, FS_Singleton

\* The digests add up, and so does the one that is being built.
LEMMA AlwaysBuilding == Spec => [](Inv /\ Shaped /\ Order /\ BuildInv)
<1>1. Init => BuildInv
  BY DEF Init, AdminIdle, BuildInv
<1>2. Inv /\ Shaped /\ Order /\ BuildInv /\ [Next]_vars => BuildInv'
  BY BuildStep
<1>3. QED
  BY <1>1, <1>2, AlwaysCaught, PTL DEF Spec

\* A digest adds up for every cap, every window and every store, whatever is
\* recorded or deleted between its reads.
\* (BuildDigest, Text, CountByType, SearchByType)
THEOREM AlwaysDigestAddsUp == Spec => []DigestAddsUp
<1>1. ASSUME BuildInv
      PROVE  DigestAddsUp
  <2> SUFFICES ASSUME digest # None
               PROVE  DigestAddsUp
    BY DEF DigestAddsUp
  <2>1. Counted(digest, digest.until) /\ \A type \in DigestAttentionTypes : AddsUp(digest, type)
    BY <1>1 DEF BuildInv
  <2>2. \A type \in DOMAIN digest.counts :
          Cardinality({k \in DOMAIN Text(digest) :
                         <<type, digest.counts[type]>> \in Text(digest)[k]}) = 1
    BY PrintedOnce
  <2>3. \A row \in digest.shown \cup digest.rows :
          digest.since <= row.at /\ row.at <= digest.until
    BY <2>1 DEF Counted
  <2>4. QED
    BY <2>1, <2>2, <2>3 DEF DigestAddsUp, AddsUp
<1>2. QED
  BY <1>1, AlwaysBuilding, PTL

=============================================================================
