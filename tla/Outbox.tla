------------------------------- MODULE Outbox -------------------------------
(***************************************************************************)
(* The publisher of shared/notifications/outbox.js. A handler inserts an   *)
(* event in its own transaction; every service instance runs a publisher   *)
(* that polls the table and sends what is due. Each statement commits by   *)
(* itself and names a row by its id only, so two instances (two replicas,  *)
(* or an old and a new one while a deployment rolls) may hold the same row. *)
(***************************************************************************)
EXTENDS Naturals, Sequences, FiniteSets

CONSTANTS
    Event,        \* events that are ever recorded
    Publisher,    \* service instances
    Connected,    \* those with RabbitMQ or the internal URL configured
    BatchSize     \* LIMIT 25

ASSUME OutboxAssumption ==
    /\ Connected \subseteq Publisher
    /\ BatchSize \in Nat \ {0}

VARIABLES
    log,          \* the rows, in the order of created_at
    row,          \* notification_outbox.status, "none": no row
    resting,      \* next_attempt_at > NOW()
    phase,        \* what the publisher's tick awaits
    batch,        \* the rows it has read and not finished
    delivered     \* the events whose receipt was confirmed (Send)

vars == <<log, row, resting, phase, batch, delivered>>

RowStatus == {"none", "pending", "publishing", "published"}
Phase == {"idle", "claim", "send", "mark", "backoff"}

TypeOK ==
    /\ log \in Seq(Event)
    /\ row \in [Event -> RowStatus]
    /\ resting \in [Event -> BOOLEAN]
    /\ phase \in [Publisher -> Phase]
    /\ batch \in [Publisher -> SUBSET Event]
    /\ delivered \subseteq Event

Init ==
    /\ log = <<>>
    /\ row = [e \in Event |-> "none"]
    /\ resting = [e \in Event |-> FALSE]
    /\ phase = [p \in Publisher |-> "idle"]
    /\ batch = [p \in Publisher |-> {}]
    /\ delivered = {}

-----------------------------------------------------------------------------
\* ORDER BY created_at.
Older(e, f) == \E m, n \in DOMAIN log : m < n /\ log[m] = e /\ log[n] = f

Current(p) == {e \in batch[p] : \A f \in batch[p] : ~Older(f, e)}

\* Mutant of Ready: a row left in 'publishing' is not read again.
ReadyPending == {e \in Event : row[e] = "pending" /\ ~resting[e]}

\* A row left in 'publishing' by a crash is read again.
Ready == {e \in Event : row[e] \in {"pending", "publishing"} /\ ~resting[e]}

\* The tick goes on to the next row it has read, or ends.
Advance(p, e) ==
    /\ batch' = [batch EXCEPT ![p] = @ \ {e}]
    /\ phase' = [phase EXCEPT ![p] = IF batch[p] = {e} THEN "idle" ELSE "claim"]

EndTick(p) ==
    /\ batch' = [batch EXCEPT ![p] = {}]
    /\ phase' = [phase EXCEPT ![p] = "idle"]

-----------------------------------------------------------------------------
\* enqueueNotificationEvent; a conflicting event id inserts nothing.
EnqueueNotificationEvent(e) ==
    /\ row[e] = "none"
    /\ row' = [row EXCEPT ![e] = "pending"]
    /\ log' = Append(log, e)
    /\ UNCHANGED <<resting, phase, batch, delivered>>

\* A tick reads the oldest rows that are due. One tick runs at a time.
Tick(p) ==
    /\ phase[p] = "idle"
    /\ Ready # {}
    /\ batch' = [batch EXCEPT ![p] =
                   {e \in Ready : Cardinality({f \in Ready : Older(f, e)}) < BatchSize}]
    /\ phase' = [phase EXCEPT ![p] = "claim"]
    /\ UNCHANGED <<log, row, resting, delivered>>

\* Mutant of Claim: the row is marked as sent before it is.
ClaimAsPublished(p, e) ==
    /\ phase[p] = "claim" /\ e \in Current(p)
    /\ row' = [row EXCEPT ![e] = "published"]
    /\ phase' = [phase EXCEPT ![p] = "send"]
    /\ UNCHANGED <<log, resting, batch, delivered>>

\* The row is marked, whatever its status has become since it was read.
Claim(p, e) ==
    /\ phase[p] = "claim" /\ e \in Current(p)
    /\ row' = [row EXCEPT ![e] = "publishing"]
    /\ phase' = [phase EXCEPT ![p] = "send"]
    /\ UNCHANGED <<log, resting, batch, delivered>>

\* What confirms the receipt: over HTTP the notification service's 2xx; with
\* RabbitMQ the broker, on the topic exchange 'workida.events'. The event is
\* published without 'mandatory', so the broker also confirms one that no queue
\* takes: who reads it from there is outside the model.
Send(p, e) ==
    /\ p \in Connected
    /\ phase[p] = "send" /\ e \in Current(p)
    /\ delivered' = delivered \cup {e}
    /\ phase' = [phase EXCEPT ![p] = "mark"]
    /\ UNCHANGED <<log, row, resting, batch>>

\* Mutant of NotConfigured: the row counts as sent.
NotConfiguredAsSent(p) ==
    /\ p \notin Connected
    /\ phase[p] = "send"
    /\ phase' = [phase EXCEPT ![p] = "mark"]
    /\ UNCHANGED <<log, row, resting, batch, delivered>>

\* With nothing to publish through the tick stops at the first row and leaves
\* it in 'publishing'.
NotConfigured(p) ==
    /\ p \notin Connected
    /\ phase[p] = "send"
    /\ EndTick(p)
    /\ UNCHANGED <<log, row, resting, delivered>>

Mark(p, e) ==
    /\ phase[p] = "mark" /\ e \in Current(p)
    /\ row' = [row EXCEPT ![e] = "published"]
    /\ Advance(p, e)
    /\ UNCHANGED <<log, resting, delivered>>

\* An awaited call fails before it has any effect. (Without a transport there
\* is no call to fail.)
Fail(p) ==
    /\ phase[p] \in {"claim", "send", "mark"}
    /\ phase[p] = "send" => p \in Connected
    /\ phase' = [phase EXCEPT ![p] = "backoff"]
    /\ UNCHANGED <<log, row, resting, batch, delivered>>

\* Or after it: the event was received, or the row marked, and the answer lost.
SendUnconfirmed(p, e) ==
    /\ p \in Connected
    /\ phase[p] = "send" /\ e \in Current(p)
    /\ delivered' = delivered \cup {e}
    /\ phase' = [phase EXCEPT ![p] = "backoff"]
    /\ UNCHANGED <<log, row, resting, batch>>

MarkUnconfirmed(p, e) ==
    /\ phase[p] = "mark" /\ e \in Current(p)
    /\ row' = [row EXCEPT ![e] = "published"]
    /\ phase' = [phase EXCEPT ![p] = "backoff"]
    /\ UNCHANGED <<log, resting, batch, delivered>>

\* The catch block: the row is tried again after a while.
Backoff(p, e) ==
    /\ phase[p] = "backoff" /\ e \in Current(p)
    /\ row' = [row EXCEPT ![e] = "pending"]
    /\ resting' = [resting EXCEPT ![e] = TRUE]
    /\ Advance(p, e)
    /\ UNCHANGED <<log, delivered>>

\* The catch block fails as well, or the process stops: the rest of what was
\* read is forgotten and its rows stay as they are.
Crash(p) ==
    /\ phase[p] # "idle"
    /\ EndTick(p)
    /\ UNCHANGED <<log, row, resting, delivered>>

Rested(e) ==
    /\ resting[e]
    /\ resting' = [resting EXCEPT ![e] = FALSE]
    /\ UNCHANGED <<log, row, phase, batch, delivered>>

-----------------------------------------------------------------------------
RowNext(p, e) ==
    \/ Claim(p, e) \/ Send(p, e) \/ Mark(p, e) \/ Backoff(p, e)
    \/ SendUnconfirmed(p, e) \/ MarkUnconfirmed(p, e)

Next ==
    \/ \E e \in Event : EnqueueNotificationEvent(e) \/ Rested(e)
    \/ \E p \in Publisher : Tick(p) \/ NotConfigured(p) \/ Fail(p) \/ Crash(p)
    \/ \E p \in Publisher, e \in Event : RowNext(p, e)

Spec == Init /\ [][Next]_vars

\* Back-off times end and the poll timer of every replica keeps firing, often
\* enough to find what becomes due again and again. Failures and crashes may
\* come at any time and for ever, but a call that is made again and again
\* succeeds in the end: the database and the notification service are not down
\* for good.
Fairness ==
    /\ \A e \in Event : WF_vars(Rested(e))
    /\ \A p \in Publisher : SF_vars(Tick(p)) /\ WF_vars(NotConfigured(p))
    /\ \A p \in Publisher, e \in Event :
          /\ WF_vars(Backoff(p, e))
          /\ SF_vars(Claim(p, e)) /\ SF_vars(Send(p, e)) /\ SF_vars(Mark(p, e))

FairSpec == Spec /\ Fairness

\* A publisher's own steps when nothing fails.
Progress(p) ==
    \/ Tick(p) \/ NotConfigured(p)
    \/ \E e \in Event : Claim(p, e) \/ Send(p, e) \/ Mark(p, e) \/ Backoff(p, e)

\* Or less is asked of the replicas, only that they go on, but from some moment
\* on nothing fails.
CalmSpec ==
    /\ Spec
    /\ \A e \in Event : WF_vars(Rested(e))
    /\ \A p \in Publisher : WF_vars(Progress(p))
    /\ <>[][\/ \E e \in Event : EnqueueNotificationEvent(e) \/ Rested(e)
            \/ \E p \in Publisher : Progress(p)]_vars

-----------------------------------------------------------------------------
(* Properties *)

\* A row says 'published' only of an event that was received, whichever of the
\* publishers holding it wrote so and however late.
PublishedWasDelivered == \A e \in Event : row[e] = "published" => e \in delivered

\* With it, what each publisher is doing: a row it is about to mark was
\* received, and every row it holds exists.
OutboxInv ==
    /\ TypeOK
    /\ PublishedWasDelivered
    /\ \A e \in Event : row[e] = "none" <=> e \notin {log[n] : n \in DOMAIN log}
    /\ \A p \in Publisher : \A e \in batch[p] : row[e] # "none"
    /\ \A p \in Publisher :
          phase[p] = "mark" => \A e \in Current(p) : e \in delivered

\* Every recorded event is delivered, through crashes, lost answers and other
\* publishers working on the same rows, and nothing else is.
Promise == INSTANCE Delivery WITH posted <- {log[n] : n \in DOMAIN log}

ImplementsDelivery == Promise!Spec
=============================================================================
