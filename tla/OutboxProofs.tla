---------------------------- MODULE OutboxProofs ----------------------------
(***************************************************************************)
(* Theorems about Outbox for every number of events and replicas and every *)
(* batch size. Delivery itself needs fairness and is only model-checked.   *)
(***************************************************************************)
EXTENDS Outbox, TLAPS

Logged == {log[n] : n \in DOMAIN log}

LEMMA AppendLog ==
  ASSUME log \in Seq(Event), NEW e \in Event, log' = Append(log, e)
  PROVE  /\ DOMAIN log' = DOMAIN log \cup {Len(log) + 1}
         /\ DOMAIN log = 1 .. Len(log) /\ Len(log) \in Nat
         /\ \A n \in DOMAIN log : log'[n] = log[n]
         /\ log'[Len(log) + 1] = e
         /\ Logged' = Logged \cup {e}
  <1>1. /\ DOMAIN log' = DOMAIN log \cup {Len(log) + 1}
        /\ DOMAIN log = 1 .. Len(log) /\ Len(log) \in Nat
        /\ \A n \in DOMAIN log : log'[n] = log[n]
        /\ log'[Len(log) + 1] = e
    OBVIOUS
  <1>2. Logged' = Logged \cup {e}
    BY ONLY <1>1 DEF Logged
  <1>3. QED
    BY <1>1, <1>2

-----------------------------------------------------------------------------
LEMMA TypeStep == TypeOK /\ [Next]_vars => TypeOK'
  <1> SUFFICES ASSUME TypeOK, [Next]_vars PROVE TypeOK'
    OBVIOUS
  <1> USE DEF TypeOK, RowStatus, Phase
  <1>1. ASSUME NEW e \in Event, EnqueueNotificationEvent(e) PROVE TypeOK'
    <2>1. log' \in Seq(Event)
      BY <1>1 DEF EnqueueNotificationEvent
    <2>2. QED
      BY <1>1, <2>1 DEF EnqueueNotificationEvent
  <1>2. ASSUME NEW e \in Event, Rested(e) PROVE TypeOK'
    BY <1>2 DEF Rested
  <1>3. ASSUME NEW p \in Publisher, Tick(p) PROVE TypeOK'
    <2>1. batch' \in [Publisher -> SUBSET Event]
      BY <1>3 DEF Tick, Ready
    <2>2. QED
      BY <1>3, <2>1 DEF Tick
  <1>4. ASSUME NEW p \in Publisher, NotConfigured(p) \/ Crash(p) PROVE TypeOK'
    BY <1>4 DEF NotConfigured, Crash, EndTick
  <1>5. ASSUME NEW p \in Publisher, Fail(p) PROVE TypeOK'
    BY <1>5 DEF Fail
  <1>6. ASSUME NEW p \in Publisher, NEW e \in Event, Claim(p, e) PROVE TypeOK'
    BY <1>6 DEF Claim
  <1>7. ASSUME NEW p \in Publisher, NEW e \in Event, Send(p, e) \/ SendUnconfirmed(p, e)
        PROVE TypeOK'
    BY <1>7 DEF Send, SendUnconfirmed
  <1>8. ASSUME NEW p \in Publisher, NEW e \in Event, Mark(p, e) PROVE TypeOK'
    BY <1>8 DEF Mark, Advance
  <1>9. ASSUME NEW p \in Publisher, NEW e \in Event, MarkUnconfirmed(p, e) PROVE TypeOK'
    BY <1>9 DEF MarkUnconfirmed
  <1>10. ASSUME NEW p \in Publisher, NEW e \in Event, Backoff(p, e) PROVE TypeOK'
    BY <1>10 DEF Backoff, Advance
  <1>11. CASE UNCHANGED vars
    BY <1>11 DEF vars
  <1>12. QED
    BY <1>1, <1>2, <1>3, <1>4, <1>5, <1>6, <1>7, <1>8, <1>9, <1>10, <1>11
    DEF Next, RowNext

-----------------------------------------------------------------------------
(* A publisher works on one row at a time: the oldest one is unique.        *)

RowsLogged == \A e \in Event : row[e] = "none" <=> e \notin Logged
BatchesExist == \A p \in Publisher : \A e \in batch[p] : row[e] # "none"
MarkedWasDelivered ==
    \A p \in Publisher : phase[p] = "mark" => \A e \in Current(p) : e \in delivered

LEMMA OutboxInvSplit ==
    OutboxInv <=> TypeOK /\ PublishedWasDelivered /\ RowsLogged /\ BatchesExist
                  /\ MarkedWasDelivered
  BY DEF OutboxInv, RowsLogged, BatchesExist, MarkedWasDelivered, Logged

LEMMA CurrentUnique ==
  ASSUME TypeOK, RowsLogged, BatchesExist,
         NEW p \in Publisher, NEW e \in Current(p), NEW f \in Current(p)
  PROVE  e = f
  <1>1. e \in Logged /\ f \in Logged
    BY DEF TypeOK, RowsLogged, BatchesExist, Current
  <1>2. PICK m \in DOMAIN log : log[m] = e
    BY <1>1 DEF Logged
  <1>3. PICK n \in DOMAIN log : log[n] = f
    BY <1>1 DEF Logged
  <1>4. m \in Nat /\ n \in Nat
    <2>1. DOMAIN log = 1 .. Len(log) /\ Len(log) \in Nat
      BY DEF TypeOK
    <2>2. QED
      BY <2>1
  <1>5. ~ m < n /\ ~ n < m
    BY <1>2, <1>3 DEF Current, Older
  <1>6. QED
    BY <1>2, <1>3, <1>4, <1>5

LEMMA InitInv == Init => OutboxInv
  BY DEF Init, OutboxInv, TypeOK, RowStatus, Phase, PublishedWasDelivered

LEMMA ExistsStep ==
  ASSUME TypeOK, TypeOK', RowsLogged, BatchesExist, [Next]_vars
  PROVE  RowsLogged' /\ BatchesExist'
  <1> DEFINE Goal == RowsLogged' /\ BatchesExist'
  <1> USE DEF TypeOK, RowsLogged, BatchesExist
  <1>u. ASSUME log' = log, \A f \in Event : row'[f] = "none" <=> row[f] = "none",
               \A q \in Publisher : \A f \in batch'[q] : row[f] # "none"
        PROVE  Goal
    BY <1>u DEF Logged
  <1>1. ASSUME NEW e \in Event, EnqueueNotificationEvent(e) PROVE Goal
    <2>1. Logged' = Logged \cup {e}
      BY <1>1, AppendLog DEF EnqueueNotificationEvent
    <2>2. QED
      BY <1>1, <2>1 DEF EnqueueNotificationEvent
  <1>2. ASSUME NEW e \in Event, Rested(e) PROVE Goal
    BY <1>2, <1>u DEF Rested
  <1>3. ASSUME NEW p \in Publisher, Tick(p) PROVE Goal
    <2>1. \A q \in Publisher : \A f \in batch'[q] : row[f] # "none"
      BY <1>3 DEF Tick, Ready
    <2>2. QED
      BY <1>3, <1>u, <2>1 DEF Tick
  <1>4. ASSUME NEW p \in Publisher, NotConfigured(p) \/ Crash(p) PROVE Goal
    BY <1>4, <1>u DEF NotConfigured, Crash, EndTick
  <1>5. ASSUME NEW p \in Publisher, Fail(p) PROVE Goal
    BY <1>5, <1>u DEF Fail
  <1>6. ASSUME NEW p \in Publisher, NEW e \in Event, RowNext(p, e) PROVE Goal
    <2>1. e \in Current(p) => row[e] # "none"
      BY DEF Current
    <2>2. CASE Claim(p, e)
      BY <1>u, <2>1, <2>2 DEF Claim
    <2>3. CASE Send(p, e) \/ SendUnconfirmed(p, e)
      BY <1>u, <2>3 DEF Send, SendUnconfirmed
    <2>4. CASE Mark(p, e)
      BY <1>u, <2>1, <2>4 DEF Mark, Advance
    <2>5. CASE MarkUnconfirmed(p, e)
      BY <1>u, <2>1, <2>5 DEF MarkUnconfirmed
    <2>6. CASE Backoff(p, e)
      BY <1>u, <2>1, <2>6 DEF Backoff, Advance
    <2>7. QED
      BY <1>6, <2>2, <2>3, <2>4, <2>5, <2>6 DEF RowNext
  <1>7. CASE UNCHANGED vars
    BY <1>7, <1>u DEF vars
  <1>8. QED
    BY <1>1, <1>2, <1>3, <1>4, <1>5, <1>6, <1>7 DEF Next

LEMMA DeliveredStep ==
  ASSUME OutboxInv, [Next]_vars
  PROVE  PublishedWasDelivered' /\ MarkedWasDelivered'
  <1> DEFINE Goal == PublishedWasDelivered' /\ MarkedWasDelivered'
  <1>0. TypeOK /\ PublishedWasDelivered /\ RowsLogged /\ BatchesExist /\ MarkedWasDelivered
    BY OutboxInvSplit
  <1> USE DEF TypeOK
  (* What is published was delivered, and nobody starts marking. *)
  <1>u. ASSUME log' = log, delivered \subseteq delivered',
               \A f \in Event : row'[f] = "published" => row[f] = "published" \/ f \in delivered,
               \A q \in Publisher :
                  phase'[q] = "mark" => phase[q] = "mark" /\ batch'[q] = batch[q]
        PROVE  Goal
    <2>1. \A q \in Publisher : phase'[q] = "mark" => Current(q)' = Current(q)
      BY <1>u DEF Current, Older
    <2>2. QED
      BY <1>0, <1>u, <2>1 DEF PublishedWasDelivered, MarkedWasDelivered
  <1>1. ASSUME NEW e \in Event, EnqueueNotificationEvent(e) PROVE Goal
    <2>1. /\ DOMAIN log' = DOMAIN log \cup {Len(log) + 1}
          /\ log'[Len(log) + 1] = e
          /\ \A n \in DOMAIN log : log'[n] = log[n]
      BY <1>0, <1>1, AppendLog DEF EnqueueNotificationEvent
    <2>2. ASSUME NEW q \in Publisher PROVE Current(q)' \subseteq Current(q)
      <3>1. batch'[q] = batch[q] /\ \A f \in batch[q] : f # e
        BY <1>0, <1>1 DEF EnqueueNotificationEvent, BatchesExist
      <3>2. \A f, g \in batch[q] : Older(g, f) => Older(g, f)'
        BY <2>1 DEF Older
      <3>3. QED
        BY <3>1, <3>2 DEF Current
    <2>3. QED
      BY <1>0, <1>1, <2>2
      DEF EnqueueNotificationEvent, PublishedWasDelivered, MarkedWasDelivered
  <1>2. ASSUME NEW e \in Event, Rested(e) PROVE Goal
    BY <1>0, <1>2, <1>u DEF Rested
  <1>3. ASSUME NEW p \in Publisher, Tick(p) PROVE Goal
    BY <1>0, <1>3, <1>u DEF Tick
  <1>4. ASSUME NEW p \in Publisher, NotConfigured(p) \/ Crash(p) PROVE Goal
    BY <1>0, <1>4, <1>u DEF NotConfigured, Crash, EndTick
  <1>5. ASSUME NEW p \in Publisher, Fail(p) PROVE Goal
    BY <1>0, <1>5, <1>u DEF Fail
  <1>6. ASSUME NEW p \in Publisher, NEW e \in Event, Claim(p, e) PROVE Goal
    BY <1>0, <1>6, <1>u DEF Claim
  <1>7. ASSUME NEW p \in Publisher, NEW e \in Event, Send(p, e) PROVE Goal
    <2>1. \A q \in Publisher : Current(q)' = Current(q)
      BY <1>7 DEF Send, Current, Older
    <2>2. \A f \in Current(p) : f = e
      BY <1>0, <1>7, CurrentUnique DEF Send
    <2>3. \A q \in Publisher : q # p => phase'[q] = phase[q]
      BY <1>0, <1>7 DEF Send
    <2>4. QED
      BY <1>0, <1>7, <2>1, <2>2, <2>3 DEF Send, PublishedWasDelivered, MarkedWasDelivered
  <1>8. ASSUME NEW p \in Publisher, NEW e \in Event, SendUnconfirmed(p, e) PROVE Goal
    BY <1>0, <1>8, <1>u DEF SendUnconfirmed
  <1>9. ASSUME NEW p \in Publisher, NEW e \in Event, Mark(p, e) PROVE Goal
    <2>1. e \in delivered
      BY <1>0, <1>9 DEF Mark, MarkedWasDelivered
    <2>2. QED
      BY <1>0, <1>9, <1>u, <2>1 DEF Mark, Advance
  <1>10. ASSUME NEW p \in Publisher, NEW e \in Event, MarkUnconfirmed(p, e) PROVE Goal
    <2>1. e \in delivered
      BY <1>0, <1>10 DEF MarkUnconfirmed, MarkedWasDelivered
    <2>2. QED
      BY <1>0, <1>10, <1>u, <2>1 DEF MarkUnconfirmed
  <1>11. ASSUME NEW p \in Publisher, NEW e \in Event, Backoff(p, e) PROVE Goal
    BY <1>0, <1>11, <1>u DEF Backoff, Advance
  <1>12. CASE UNCHANGED vars
    BY <1>0, <1>12, <1>u DEF vars
  <1>13. QED
    BY <1>1, <1>2, <1>3, <1>4, <1>5, <1>6, <1>7, <1>8, <1>9, <1>10, <1>11, <1>12
    DEF Next, RowNext

-----------------------------------------------------------------------------
LEMMA OutboxInvStep == OutboxInv /\ [Next]_vars => OutboxInv'
  <1> SUFFICES ASSUME OutboxInv, [Next]_vars PROVE OutboxInv'
    OBVIOUS
  <1>1. TypeOK /\ RowsLogged /\ BatchesExist
    BY OutboxInvSplit
  <1>2. TypeOK'
    BY <1>1, TypeStep
  <1>3. RowsLogged' /\ BatchesExist'
    BY <1>1, <1>2, ExistsStep
  <1>4. PublishedWasDelivered' /\ MarkedWasDelivered'
    BY DeliveredStep
  <1>5. QED
    BY <1>2, <1>3, <1>4
    DEF OutboxInv, RowsLogged, BatchesExist, MarkedWasDelivered, Logged

\* The inductive invariant of the outbox.
THEOREM Invariance == Spec => []OutboxInv
  BY InitInv, OutboxInvStep, PTL DEF Spec

\* 'published' is only said of what was received, with any number of replicas.
THEOREM Published == Spec => []PublishedWasDelivered
  <1>1. OutboxInv => PublishedWasDelivered
    BY DEF OutboxInv
  <1>2. QED
    BY <1>1, Invariance, PTL

-----------------------------------------------------------------------------
(* The safety part of the promise *)

LEMMA PromiseStep ==
  ASSUME OutboxInv, [Next]_vars PROVE [Promise!Next]_(Promise!vars)
  <1>0. TypeOK /\ RowsLogged /\ BatchesExist
    BY OutboxInvSplit
  <1> USE DEF TypeOK, Promise!Next, Promise!vars
  <1>u. ASSUME UNCHANGED <<log, delivered>> PROVE [Promise!Next]_(Promise!vars)
    BY <1>u
  <1>1. ASSUME NEW e \in Event, EnqueueNotificationEvent(e) PROVE Promise!Post(e)
    <2>1. Logged' = Logged \cup {e} /\ e \notin Logged
      BY <1>0, <1>1, AppendLog DEF EnqueueNotificationEvent, RowsLogged
    <2>2. QED
      BY <1>1, <2>1 DEF Promise!Post, EnqueueNotificationEvent, Logged
  <1>2. ASSUME NEW p \in Publisher, NEW e \in Event, Send(p, e) \/ SendUnconfirmed(p, e)
        PROVE  Promise!Deliver(e)
    <2>1. e \in Logged /\ log' = log /\ delivered' = delivered \cup {e}
      BY <1>0, <1>2 DEF Send, SendUnconfirmed, Current, RowsLogged, BatchesExist
    <2>2. QED
      BY <2>1 DEF Promise!Deliver, Logged
  <1>3. ASSUME NEW p \in Publisher, NEW e \in Event,
               Claim(p, e) \/ Mark(p, e) \/ MarkUnconfirmed(p, e) \/ Backoff(p, e)
        PROVE  UNCHANGED <<log, delivered>>
    BY <1>3 DEF Claim, Mark, MarkUnconfirmed, Backoff
  <1>4. ASSUME NEW p \in Publisher, Tick(p) \/ NotConfigured(p) \/ Fail(p) \/ Crash(p)
        PROVE  UNCHANGED <<log, delivered>>
    BY <1>4 DEF Tick, NotConfigured, Fail, Crash
  <1>5. ASSUME (\E e \in Event : Rested(e)) \/ UNCHANGED vars
        PROVE  UNCHANGED <<log, delivered>>
    BY <1>5 DEF Rested, vars
  <1>6. QED
    BY <1>u, <1>1, <1>2, <1>3, <1>4, <1>5 DEF Next, RowNext

\* Nothing reaches the notification service that no transaction recorded.
THEOREM PromiseSafety == Spec => Promise!Safety
  <1>1. Init => Promise!Init
    BY DEF Init, Promise!Init
  <1>2. QED
    BY <1>1, PromiseStep, Invariance, PTL DEF Spec, Promise!Safety
=============================================================================
