---------------------------- MODULE BookingsProofs ----------------------------
(***************************************************************************)
(* Proofs about Bookings, for any number of administrators, calls, keys,   *)
(* quotes and published versions, and for every price and percentage.      *)
(*                                                                         *)
(* The inductive invariant has four parts that rest on each other in this  *)
(* order: the price versions, the calls, what was answered, and what was   *)
(* booked, dispatched and billed.                                          *)
(***************************************************************************)
EXTENDS Bookings, PricingProofs

PublishedPrices == {Published(value, Base) : value \in {v \in Value : Publishable(v)}}
Versions == [price : PublishedPrices, current : BOOLEAN, before : Int]
AdminState ==
    {[at |-> "idle"]}
    \cup [at : {"locked"}, price : PublishedPrices, current : Int, revision : Int]

\* The lock leaves one administrator at a time, so a revision read under it is
\* not outdated when it is written.
VersionsInv ==
    /\ row \in Seq(Versions)
    /\ admin \in [Admin -> AdminState]
    /\ PublicationOrder
    /\ \A a, b \in Locked : a = b

Bodies == [kind : {"booking"}, quote : Quote \cup {NoQuote}, minutes : Minutes \cup {0}]
InCall == {"sent", "quoted", "priced", "inserted", "answered"}

\* A call in progress, and one that booked, knows its body.
CallsInv ==
    /\ DOMAIN booking = Key /\ DOMAIN task = Key
    /\ at \in [Call -> InCall \cup {"idle", "over"}]
    /\ key \in [Call -> Key \cup {NoKey}]
    /\ answer \in [Call -> Key \cup {NoKey}]
    /\ quote \in [Quote -> [stage : {"none", "live", "expired"}, amount : Int,
                            task : Key \cup {NoKey}]]
    /\ created \subseteq Call
    /\ \A k \in Key : booking[k] \in Bodies /\ booking[k].quote # NoQuote =>
          quote[booking[k].quote].stage # "none"
    /\ \A c \in Call :
          /\ at[c] \in InCall \/ c \in created => key[c] \in Key /\ Body(c) \in Bodies
          /\ c \in created =>
                /\ at[c] \in {"inserted", "answered", "over"}
                /\ task[key[c]] # None
          /\ at[c] = "inserted" => Body(c).quote \in Quote
          /\ at[c] \in {"inserted", "answered"} /\ Body(c).quote = NoQuote =>
                task[key[c]] # None
          /\ answer[c] # NoKey => at[c] = "answered"

\* An answer rests on a task or on a quote that was used, and a call that comes
\* later gets past neither.
AnswersInv ==
    /\ answered \in [Call -> SUBSET Call]
    /\ \A d \in Call : answer[d] # NoKey /\ Body(d).quote # NoQuote =>
          quote[Body(d).quote].task # NoKey
    /\ \A c \in Call : \A d \in answered[c] :
          /\ answer[d] # NoKey
          /\ at[c] \in {"quoted", "priced"} /\ Body(c).quote # NoQuote =>
                Body(d).quote # Body(c).quote
    /\ AnsweredIsNotBookedAgain

GoodOffer(snapshot) ==
    \/ snapshot = None
    \/ /\ snapshot.kind = "snapshot" /\ snapshot.version \in Nat
       /\ GoodConfig(snapshot.config)

GoodTask(t) ==
    /\ t.kind = "task" /\ t.minutes \in Nat /\ GoodOffer(t.snapshot)
    /\ t.snapshot # None => t.budget = Budget(t.snapshot, t.minutes)

\* An offer is made under a version in force since the call came; the job and
\* the bill follow from the task.
PricesInv ==
    /\ DOMAIN offer = Call /\ since \in [Call -> Nat]
    /\ DOMAIN job = Key /\ DOMAIN bill = Key
    /\ \A c \in Call :
          /\ GoodOffer(offer[c]) /\ since[c] <= Latest
          /\ offer[c] # None => at[c] = "priced" /\ offer[c].version \in since[c] .. Latest
          /\ at[c] = "priced" => (offer[c] = None <=> Body(c).minutes = 0)
    /\ PriceWasCurrent
    /\ \A k \in Key :
          /\ task[k] # None => GoodTask(task[k])
          /\ job[k] # None =>
                /\ task[k] # None
                /\ job[k] = [kind |-> "job", snapshot |-> task[k].snapshot,
                             minutes |-> task[k].minutes, budget |-> task[k].budget]
          /\ bill[k] # None =>
                /\ job[k] # None
                /\ \E w \in Work : bill[k] = BillFor(job[k], w)

BookingsInv == VersionsInv /\ CallsInv /\ AnswersInv /\ PricesInv

-----------------------------------------------------------------------------
\* Appending keeps the versions there were, except that none is in force.
LEMMA Supersede ==
  ASSUME NEW old \in Seq(Versions), NEW new \in Versions
  PROVE  LET all == Append([n \in DOMAIN old |-> [old[n] EXCEPT !.current = FALSE]], new) IN
         /\ all \in Seq(Versions) /\ Len(all) = Len(old) + 1
         /\ all[Len(old) + 1] = new
         /\ \A n \in 1 .. Len(old) :
               all[n].price = old[n].price /\ all[n].before = old[n].before
               /\ all[n].current = FALSE
  <1> DEFINE all == Append([n \in DOMAIN old |-> [old[n] EXCEPT !.current = FALSE]], new)
             superseded == [n \in DOMAIN old |-> [old[n] EXCEPT !.current = FALSE]]
  <1>1. DOMAIN old = 1 .. Len(old) /\ Len(old) \in Nat
        /\ \A n \in 1 .. Len(old) : old[n] \in Versions
    OBVIOUS
  <1>2. \A n \in 1 .. Len(old) :
          /\ superseded[n] \in Versions /\ superseded[n].current = FALSE
          /\ superseded[n].price = old[n].price /\ superseded[n].before = old[n].before
    BY <1>1 DEF Versions
  <1>3. superseded \in [1 .. Len(old) -> Versions]
    BY <1>1, <1>2
  <1>4. superseded \in Seq(Versions) /\ Len(superseded) = Len(old)
    BY <1>1, <1>3
  <1>5. all = Append(superseded, new)
    OBVIOUS
  <1> HIDE DEF superseded, all
  <1>6. /\ all \in Seq(Versions) /\ Len(all) = Len(old) + 1
        /\ all[Len(old) + 1] = new
        /\ \A n \in 1 .. Len(old) :
              all[n].price = old[n].price /\ all[n].before = old[n].before
              /\ all[n].current = FALSE
    BY <1>1, <1>2, <1>4, <1>5
  <1>7. QED
    BY <1>6 DEF all

\* The version in force is the newest one.
LEMMA NewestInForce ==
  ASSUME VersionsInv
  PROVE  InForce = Latest /\ Latest \in Nat
  <1>1. Latest \in Nat /\ DOMAIN row = 1 .. Latest
    BY DEF VersionsInv, Latest
  <1>2. \A n \in DOMAIN row : row[n].current <=> n = Latest
    BY DEF VersionsInv, PublicationOrder
  <1>3. CASE Latest = 0
    BY <1>1, <1>2, <1>3 DEF InForce
  <1>4. CASE Latest # 0
    <2>1. Latest \in DOMAIN row
      BY <1>1, <1>4
    <2>2. \A n \in DOMAIN row : row[n].current => n = Latest
      BY <1>2
    <2>3. \E n \in DOMAIN row : row[n].current
      BY <1>2, <2>1
    <2>4. (CHOOSE n \in DOMAIN row : row[n].current) = Latest
      BY <2>2, <2>3
    <2>5. QED
      BY <1>1, <2>3, <2>4 DEF InForce
  <1>5. QED
    BY <1>3, <1>4

\* Whatever version is in force, a booking under it gets a good configuration.
LEMMA SnapshotIsGood ==
  ASSUME VersionsInv
  PROVE  GoodOffer(Snapshot(CurrentRevision)) /\ Snapshot(CurrentRevision).version = Latest
         /\ Snapshot(CurrentRevision) # None
  <1>1. CurrentRevision = Latest /\ Latest \in Nat
    BY NewestInForce DEF CurrentRevision
  <1>2. /\ GoodService(Effective(Latest))
        /\ DOMAIN Effective(Latest).options = DOMAIN Base.options
    <2>1. CASE Latest = 0
      BY <2>1, BookingsAssumption DEF Effective
    <2>2. CASE Latest # 0
      <3>1. row[Latest] \in Versions
        BY <1>1, <2>2 DEF VersionsInv, Latest
      <3>2. PICK value \in Value : row[Latest].price = Published(value, Base)
                                  /\ Publishable(value)
        BY <3>1 DEF Versions, PublishedPrices
      <3> DEFINE p == Published(value, Base)
                 e == [p EXCEPT !.model = IF DOMAIN Base.options = {} THEN @ ELSE "tiered"]
      <3>3. GoodService(p)
        BY <3>2, PublishedServiceIsGood, BookingsAssumption
      <3>4. DOMAIN p.options = DOMAIN Base.options
        BY <3>2 DEF Publishable, ValidPricing, ValidOptions
      <3>5. /\ e.included = p.included /\ e.increment = p.increment
            /\ e.minimumOrder = p.minimumOrder /\ e.customer = p.customer
            /\ e.worker = p.worker /\ e.options = p.options
        BY DEF Published
      <3> HIDE DEF e, p
      <3>6. GoodService(e)
        BY <3>3, <3>5 DEF GoodService
      <3>7. Effective(Latest) = e
        BY <2>2, <3>2 DEF Effective, e, p
      <3>8. QED
        BY <3>4, <3>5, <3>6, <3>7
    <2>3. QED
      BY <2>1, <2>2
  <1>3. Option = NoOption \/ Option \in DOMAIN Base.options
    BY DEF Option
  <1>4. GoodConfig(Snapshot(Latest).config)
    <2>1. GoodConfig(BuildPricingConfig(Effective(Latest), Option, 1, Percent))
      BY <1>2, <1>3, BookedConfigurationIsGood, BookingsAssumption
    <2>2. QED
      BY <2>1 DEF Snapshot
  <1>5. QED
    BY <1>1, <1>4 DEF GoodOffer, Snapshot, None

-----------------------------------------------------------------------------
THEOREM InitBookings == Init => BookingsInv
  <1> SUFFICES ASSUME Init PROVE BookingsInv
    OBVIOUS
  <1>1. VersionsInv
    <2>1. row \in Seq(Versions) /\ DOMAIN row = {}
      BY DEF Init
    <2>2. Locked = {} /\ admin \in [Admin -> AdminState]
      BY DEF Init, Locked, AdminState
    <2>3. QED
      BY <2>1, <2>2 DEF VersionsInv, PublicationOrder
  <1>2. CallsInv
    <2>1. None \notin Bodies
      BY DEF Bodies, None
    <2>2. QED
      BY <2>1 DEF Init, CallsInv, InCall
  <1>3. AnswersInv
    BY DEF Init, AnswersInv, AnsweredIsNotBookedAgain
  <1>4. PricesInv
    BY DEF Init, PricesInv, PriceWasCurrent, GoodOffer, Latest
  <1>5. QED
    BY <1>1, <1>2, <1>3, <1>4 DEF BookingsInv

LEMMA VersionsStep ==
  ASSUME VersionsInv, [Next]_vars
  PROVE  VersionsInv' /\ Latest <= Latest' /\ Latest \in Nat /\ Latest' \in Nat
  <1>1. Latest \in Nat /\ DOMAIN row = 1 .. Latest /\ InForce = Latest
    BY NewestInForce DEF VersionsInv, Latest
  <1>2. ASSUME UNCHANGED prices PROVE VersionsInv' /\ Latest' = Latest
    BY <1>2 DEF VersionsInv, PublicationOrder, Locked, Latest, prices
  <1>3. ASSUME NEW a \in Admin, NEW value \in Value, LockService(a, value)
        PROVE  VersionsInv' /\ Latest' = Latest
    <2> DEFINE new == [at |-> "locked", price |-> Published(value, Base),
                       current |-> Latest, revision |-> Latest + 1]
    <2>1. /\ Locked = {} /\ Publishable(value) /\ row' = row
          /\ admin' = [admin EXCEPT ![a] = new]
      BY <1>1, <1>3 DEF LockService, Lock
    <2>2. new \in AdminState
      BY <1>1, <2>1 DEF AdminState, PublishedPrices
    <2>3. admin' \in [Admin -> AdminState]
      BY <2>1, <2>2 DEF VersionsInv
    <2>4. Locked' = {a} /\ admin'[a] = new
      BY <2>1 DEF VersionsInv, Locked
    <2>5. QED
      BY <1>1, <2>1, <2>3, <2>4 DEF VersionsInv, PublicationOrder, Latest
  <1>4. ASSUME NEW a \in Admin, CommitPricing(a)
        PROVE  VersionsInv' /\ Latest' = Latest + 1
    <2> DEFINE new == [price |-> admin[a].price, current |-> TRUE,
                       before |-> admin[a].current]
    <2>1. /\ a \in Locked /\ admin[a].revision = Latest + 1
          /\ row' = Append([n \in DOMAIN row |-> [row[n] EXCEPT !.current = FALSE]], new)
          /\ admin' = [admin EXCEPT ![a] = [at |-> "idle"]]
      BY <1>4 DEF CommitPricing, Locked
    <2>2. admin[a].current = Latest /\ admin[a].price \in PublishedPrices
      <3>1. admin[a] \in AdminState /\ admin[a].at = "locked"
        BY <1>4 DEF VersionsInv, CommitPricing
      <3>2. QED
        BY <2>1, <3>1 DEF VersionsInv, PublicationOrder, AdminState
    <2>3. new \in Versions
      BY <1>1, <2>2 DEF Versions
    <2>4. row \in Seq(Versions)
      BY DEF VersionsInv
    <2> HIDE DEF new
    <2> DEFINE all == Append([n \in DOMAIN row |-> [row[n] EXCEPT !.current = FALSE]], new)
    <2>5. /\ all \in Seq(Versions) /\ Len(all) = Len(row) + 1
          /\ all[Len(row) + 1] = new
          /\ \A n \in 1 .. Len(row) :
                all[n].before = row[n].before /\ all[n].current = FALSE
      BY <2>3, <2>4, Supersede
    <2>6. row' = all
      BY <2>1
    <2> HIDE DEF all
    <2>7. /\ row' \in Seq(Versions) /\ Len(row') = Latest + 1
          /\ row'[Latest + 1] = new
          /\ \A n \in 1 .. Latest :
                row'[n].before = row[n].before /\ row'[n].current = FALSE
      BY <2>5, <2>6 DEF Latest
    <2>8. Locked' = {} /\ admin' \in [Admin -> AdminState]
      BY <2>1 DEF VersionsInv, Locked, AdminState
    <2>9. new.current = TRUE /\ new.before = Latest
      BY <2>2 DEF new
    <2>10. Latest' = Latest + 1 /\ DOMAIN row' = 1 .. Latest + 1
      BY <2>7 DEF Latest
    <2>11. \A n \in DOMAIN row' : /\ row'[n].current <=> n = Latest'
                                 /\ row'[n].before = n - 1
      <3> SUFFICES ASSUME NEW n \in 1 .. Latest + 1
                   PROVE  (row'[n].current <=> n = Latest + 1) /\ row'[n].before = n - 1
        BY <2>10
      <3>1. CASE n = Latest + 1
        BY <1>1, <2>7, <2>9, <3>1
      <3>2. CASE n # Latest + 1
        <4>1. n \in 1 .. Latest
          BY <1>1, <3>2
        <4>2. row[n].before = n - 1
          BY <1>1, <4>1 DEF VersionsInv, PublicationOrder
        <4>3. QED
          BY <2>7, <3>2, <4>1, <4>2
      <3>3. QED
        BY <3>1, <3>2
    <2>12. QED
      BY <2>7, <2>8, <2>10, <2>11 DEF VersionsInv, PublicationOrder
  <1>5. ASSUME NEW a \in Admin, PricingFails(a) PROVE VersionsInv' /\ Latest' = Latest
    <2>1. row' = row /\ admin' = [admin EXCEPT ![a] = [at |-> "idle"]]
      BY <1>5 DEF PricingFails
    <2>2. Locked' \subseteq Locked /\ \A b \in Locked' : admin'[b] = admin[b]
      BY <2>1 DEF VersionsInv, Locked
    <2>3. admin' \in [Admin -> AdminState]
      BY <2>1 DEF VersionsInv, AdminState
    <2>4. QED
      BY <2>1, <2>2, <2>3 DEF VersionsInv, PublicationOrder, Latest
  <1>6. ASSUME ~UNCHANGED prices
        PROVE  PricingNext
    <2>1. QuoteNext => UNCHANGED prices
      BY DEF QuoteNext, RequestQuote, QuoteExpires
    <2>2. CallNext => UNCHANGED prices
      BY DEF CallNext, Send, ReadQuote, AnswerFromQuote, QuoteRefused, PriceTask,
             PriceRefused, ScheduleRefused, InsertTask, AfterInsert, ConsumeQuote, CallLost,
             Over
    <2>3. JobNext => UNCHANGED prices
      BY DEF JobNext, DispatchTask, ConfirmCompletion
    <2>4. UNCHANGED vars => UNCHANGED prices
      BY DEF vars
    <2>5. QED
      BY <1>6, <2>1, <2>2, <2>3, <2>4 DEF Next
  <1>7. QED
    BY <1>1, <1>2, <1>3, <1>4, <1>5, <1>6 DEF PricingNext

-----------------------------------------------------------------------------
LEMMA CallsStep ==
  ASSUME CallsInv, [Next]_vars
  PROVE  CallsInv'
  <1> USE BookingsAssumption
  <1>1. ASSUME UNCHANGED <<quote, calls, task, created>> PROVE CallsInv'
    BY <1>1 DEF CallsInv, calls, Body
  <1>2. ASSUME NEW q \in Quote, NEW chores \in Scope, NEW hours \in Hours,
               RequestQuote(q, chores, hours)
        PROVE  CallsInv'
    <2>1. [stage |-> "live", amount |-> BlockRate(hours), task |-> NoKey]
             \in [stage : {"none", "live", "expired"}, amount : Int,
                  task : Key \cup {NoKey}]
      BY <1>2 DEF RequestQuote, Quotable, BlockRate
    <2>2. QED
      BY <1>2, <2>1 DEF RequestQuote, CallsInv, calls, Body
  <1>3. ASSUME NEW q \in Quote, QuoteExpires(q) PROVE CallsInv'
    BY <1>3 DEF QuoteExpires, CallsInv, calls, Body
  <1>4. ASSUME NEW c \in Call, NEW k \in Key, NEW q \in Quote \cup {NoQuote},
               NEW minutes \in Minutes \cup {0}, Send(c, k, q, minutes)
        PROVE  CallsInv'
    <2> DEFINE body == [kind |-> "booking", quote |-> q, minutes |-> minutes]
    <2>1. body \in Bodies /\ None \notin Bodies
      BY DEF Bodies, None
    <2>2. \A d \in Call : d # c /\ key[d] \in Key /\ Body(d) \in Bodies =>
             Body(d)' = Body(d) /\ key'[d] = key[d] /\ at'[d] = at[d]
      BY <1>4, <2>1 DEF Send, CallsInv, Body
    <2>3. /\ key'[c] = k /\ Body(c)' = body /\ at'[c] = "sent" /\ c \notin created
          /\ answer[c] = NoKey
      BY <1>4 DEF Send, CallsInv, Body, InCall
    <2>4. /\ DOMAIN booking' = Key /\ UNCHANGED <<quote, answer, task, created>>
          /\ at' \in [Call -> InCall \cup {"idle", "over"}]
          /\ key' \in [Call -> Key \cup {NoKey}]
          /\ \A d \in Call : d # c => at'[d] = at[d] /\ key'[d] = key[d]
      BY <1>4 DEF Send, CallsInv, InCall
    <2>5. \A l \in Key : booking'[l] \in Bodies /\ booking'[l].quote # NoQuote =>
             quote'[booking'[l].quote].stage # "none"
      BY <1>4 DEF Send, CallsInv
    <2> HIDE DEF body
    <2>6. QED
      BY <2>1, <2>2, <2>3, <2>4, <2>5 DEF CallsInv, InCall
  <1>5. ASSUME NEW c \in Call, ReadQuote(c) PROVE CallsInv'
    BY <1>5 DEF ReadQuote, Reading, CallsInv, Body, InCall
  <1>6. ASSUME NEW c \in Call, AnswerFromQuote(c) PROVE CallsInv'
    BY <1>6 DEF AnswerFromQuote, Reading, Usable, Consumed, CallsInv, Body, InCall, Bodies
  <1>7. ASSUME NEW c \in Call, at[c] \in {"sent", "quoted", "priced", "inserted"}, Over(c)
        PROVE  CallsInv'
    BY <1>7 DEF Over, CallsInv, Body, InCall
  <1>8. ASSUME NEW c \in Call, PriceTask(c) PROVE CallsInv'
    BY <1>8 DEF PriceTask, CallsInv, Body, InCall
  <1>9. ASSUME NEW c \in Call, InsertTask(c) PROVE CallsInv'
    <2>1. Body(c) \in Bodies /\ key[c] \in Key /\ TaskOf(c) # None /\ c \notin created
      BY <1>9 DEF InsertTask, CallsInv, InCall, TaskOf, None
    <2>2. \A k \in Key : task[k] # None => task'[k] # None
      BY <1>9, <2>1 DEF InsertTask, CallsInv
    <2>3. task'[key[c]] # None /\ DOMAIN task' = Key
      BY <1>9, <2>1 DEF InsertTask, CallsInv
    <2>4. /\ UNCHANGED <<quote, booking, key>>
          /\ created' \subseteq created \cup {c}
          /\ \A d \in Call : d # c => at'[d] = at[d] /\ answer'[d] = answer[d]
          /\ at'[c] = IF Body(c).quote = NoQuote THEN "answered" ELSE "inserted"
          /\ at' \in [Call -> InCall \cup {"idle", "over"}]
          /\ answer' \in [Call -> Key \cup {NoKey}]
          /\ answer[c] = NoKey
          /\ Body(c).quote # NoQuote => answer'[c] = NoKey
      BY <1>9, <2>1 DEF InsertTask, AfterInsert, CallsInv, InCall
    <2>5. QED
      BY <2>1, <2>2, <2>3, <2>4 DEF CallsInv, Body, InCall, Bodies
  <1>10. ASSUME NEW c \in Call, ConsumeQuote(c) PROVE CallsInv'
    BY <1>10 DEF ConsumeQuote, CallsInv, Body, InCall
  <1>11. PricingNext \/ JobNext \/ UNCHANGED vars =>
            UNCHANGED <<quote, calls, task, created>>
    BY DEF PricingNext, LockService, Lock, CommitPricing, PricingFails, JobNext,
           DispatchTask, ConfirmCompletion, vars, calls
  <1>12. ASSUME QuoteNext PROVE CallsInv'
    BY <1>2, <1>3, <1>12 DEF QuoteNext
  <1>13. ASSUME CallNext PROVE CallsInv'
    BY <1>4, <1>5, <1>6, <1>7, <1>8, <1>9, <1>10, <1>13
       DEF CallNext, QuoteRefused, PriceRefused, ScheduleRefused, CallLost, Reading
  <1>14. QED
    BY <1>1, <1>11, <1>12, <1>13 DEF Next

\* A booking that a quote or a key ties to an answered one has that one's body.
LEMMA AnsweredTask ==
  ASSUME CallsInv, AnswersInv, NEW c \in Call, NEW d \in answered[c], at[c] = "priced",
         SameBooking(c, d)
  PROVE  task[key[c]] # None
  <1>1. /\ d \in Call /\ answer[d] # NoKey /\ at[d] = "answered"
        /\ key[d] \in Key /\ Body(d) \in Bodies /\ Body(c) \in Bodies
    BY DEF CallsInv, AnswersInv, InCall
  <1>2. Body(c).quote # NoQuote => Body(d).quote # Body(c).quote
    BY DEF AnswersInv
  <1>3. key[c] = key[d] /\ Body(c) = Body(d)
    BY <1>2 DEF SameBooking, Body
  <1>4. QED
    BY <1>1, <1>2, <1>3 DEF CallsInv

LEMMA AnswersStep ==
  ASSUME CallsInv, AnswersInv, [Next]_vars
  PROVE  AnswersInv'
  <1> USE BookingsAssumption
  <1>1. ASSUME UNCHANGED <<quote, calls, task, created>> PROVE AnswersInv'
    BY <1>1 DEF AnswersInv, AnsweredIsNotBookedAgain, SameBooking, calls, Body
  <1>2. ASSUME NEW q \in Quote, NEW chores \in Scope, NEW hours \in Hours,
               RequestQuote(q, chores, hours)
        PROVE  AnswersInv'
    <2>1. \A d \in Call : answer[d] # NoKey /\ Body(d).quote # NoQuote => Body(d).quote # q
      BY <1>2 DEF RequestQuote, CallsInv, Body, InCall
    <2>2. QED
      BY <1>2, <2>1 DEF RequestQuote, CallsInv, AnswersInv, AnsweredIsNotBookedAgain,
         SameBooking, calls, Body
  <1>3. ASSUME NEW q \in Quote, QuoteExpires(q) PROVE AnswersInv'
    <2>1. \A p \in Quote : quote'[p].task = quote[p].task
      BY <1>3 DEF QuoteExpires, CallsInv
    <2>2. \A d \in Call : answer[d] # NoKey /\ Body(d).quote # NoQuote =>
             Body(d).quote \in Quote
      BY DEF CallsInv, Bodies, InCall
    <2>3. QED
      BY <1>3, <2>1, <2>2 DEF QuoteExpires, AnswersInv, AnsweredIsNotBookedAgain,
         SameBooking, calls, Body
  <1>4. ASSUME NEW c \in Call, NEW k \in Key, NEW q \in Quote \cup {NoQuote},
               NEW minutes \in Minutes \cup {0}, Send(c, k, q, minutes)
        PROVE  AnswersInv'
    <2>1. None \notin Bodies
      BY DEF Bodies, None
    <2>2. \A d \in Call : d # c /\ key[d] \in Key /\ Body(d) \in Bodies =>
             Body(d)' = Body(d) /\ key'[d] = key[d]
      BY <1>4, <2>1 DEF Send, CallsInv, Body
    <2>3. \A d \in Call : answer[d] # NoKey \/ d \in created =>
             d # c /\ key[d] \in Key /\ Body(d) \in Bodies
      BY <1>4 DEF Send, CallsInv, InCall
    <2>4. \A d \in Call : at[d] \in {"quoted", "priced"} =>
             d # c /\ key[d] \in Key /\ Body(d) \in Bodies
      BY <1>4 DEF Send, CallsInv, InCall
    <2>5. /\ UNCHANGED <<quote, answer, task, created>> /\ at'[c] = "sent"
          /\ \A d \in Call : d # c => at'[d] = at[d] /\ answered'[d] = answered[d]
          /\ answered'[c] = {d \in Call : answer[d] # NoKey}
          /\ answered' \in [Call -> SUBSET Call]
      BY <1>4 DEF Send, CallsInv, AnswersInv
    <2>6. \A d \in Call : answer'[d] # NoKey /\ Body(d)'.quote # NoQuote =>
             quote'[Body(d)'.quote].task # NoKey
      BY <2>2, <2>3, <2>5 DEF AnswersInv
    <2>7. \A e \in Call : \A d \in answered'[e] :
             /\ answer'[d] # NoKey
             /\ at'[e] \in {"quoted", "priced"} /\ Body(e)'.quote # NoQuote =>
                   Body(d)'.quote # Body(e)'.quote
      <3> SUFFICES ASSUME NEW e \in Call, NEW d \in answered'[e]
                   PROVE  /\ answer'[d] # NoKey
                          /\ at'[e] \in {"quoted", "priced"} /\ Body(e)'.quote # NoQuote =>
                                Body(d)'.quote # Body(e)'.quote
        OBVIOUS
      <3>1. d \in Call
        BY <2>5
      <3>2. CASE e = c
        BY <2>5, <3>1, <3>2
      <3>3. CASE e # c
        BY <2>2, <2>3, <2>4, <2>5, <3>1, <3>3 DEF AnswersInv
      <3>4. QED
        BY <3>2, <3>3
    <2>8. \A e \in created' : \A d \in answered'[e] : ~SameBooking(e, d)'
      <3> SUFFICES ASSUME NEW e \in created, NEW d \in answered[e]
                   PROVE  ~SameBooking(e, d)'
        BY <2>3, <2>5 DEF CallsInv
      <3>1. ~SameBooking(e, d) /\ d \in Call /\ e \in Call /\ answer[d] # NoKey
        BY DEF AnswersInv, AnsweredIsNotBookedAgain, CallsInv
      <3>2. Body(d)' = Body(d) /\ key'[d] = key[d] /\ Body(e)' = Body(e) /\ key'[e] = key[e]
        BY <2>2, <2>3, <3>1
      <3>3. QED
        BY <3>1, <3>2 DEF SameBooking
    <2>9. QED
      BY <2>5, <2>6, <2>7, <2>8 DEF AnswersInv, AnsweredIsNotBookedAgain
  <1>5. ASSUME NEW c \in Call, ReadQuote(c) PROVE AnswersInv'
    BY <1>5 DEF ReadQuote, Reading, Usable, Consumed, AnswersInv, AnsweredIsNotBookedAgain,
       SameBooking, CallsInv, Body, InCall
  <1>6. ASSUME NEW c \in Call, AnswerFromQuote(c) PROVE AnswersInv'
    BY <1>6 DEF AnswerFromQuote, Reading, Usable, Consumed, AnswersInv,
       AnsweredIsNotBookedAgain, SameBooking, CallsInv, Body, InCall, Bodies
  <1>7. ASSUME NEW c \in Call, at[c] \in {"sent", "quoted", "priced", "inserted"}, Over(c)
        PROVE  AnswersInv'
    <2>1. answer[c] = NoKey
      BY <1>7 DEF CallsInv
    <2>2. /\ UNCHANGED <<quote, booking, answer, task, created>> /\ at'[c] = "over"
          /\ \A d \in Call : d # c => at'[d] = at[d] /\ key'[d] = key[d]
          /\ c \in created => key'[c] = key[c]
          /\ \A d \in Call : answered'[d] \subseteq answered[d]
          /\ answered' \in [Call -> SUBSET Call]
      BY <1>7 DEF Over, CallsInv, AnswersInv
    <2>3. \A d \in Call : answer[d] # NoKey => d # c
      BY <2>1
    <2>4. QED
      BY <2>2, <2>3 DEF AnswersInv, AnsweredIsNotBookedAgain, SameBooking, CallsInv, Body
  <1>8. ASSUME NEW c \in Call, PriceTask(c) PROVE AnswersInv'
    BY <1>8 DEF PriceTask, AnswersInv, AnsweredIsNotBookedAgain, SameBooking, CallsInv,
       Body, InCall
  <1>9. ASSUME NEW c \in Call, InsertTask(c) PROVE AnswersInv'
    <2>1. /\ at[c] = "priced" /\ Body(c) \in Bodies /\ key[c] \in Key
          /\ created' = IF task[key[c]] = None THEN created \cup {c} ELSE created
          /\ UNCHANGED <<quote, booking, key, answered>>
          /\ at'[c] \in {"answered", "inserted"}
          /\ \A d \in Call : d # c => at'[d] = at[d] /\ answer'[d] = answer[d]
          /\ answer'[c] # NoKey => Body(c).quote = NoQuote
          /\ answer[c] = NoKey
      BY <1>9 DEF InsertTask, AfterInsert, CallsInv, InCall
    <2>2. task[key[c]] = None => \A d \in answered[c] : ~SameBooking(c, d)
      BY <2>1, AnsweredTask
    <2>3. \A e, d \in Call : SameBooking(e, d)' <=> SameBooking(e, d)
      BY <2>1 DEF SameBooking, Body
    <2>4. AnsweredIsNotBookedAgain'
      <3> SUFFICES ASSUME NEW e \in created', NEW d \in answered[e]
                   PROVE  ~SameBooking(e, d)
        BY <2>1, <2>3 DEF AnsweredIsNotBookedAgain, AnswersInv, CallsInv
      <3>1. CASE e \in created
        BY <3>1 DEF AnswersInv, AnsweredIsNotBookedAgain
      <3>2. CASE e \notin created
        BY <2>1, <2>2, <3>2
      <3>3. QED
        BY <3>1, <3>2
    <2>5. QED
      BY <2>1, <2>4 DEF AnswersInv, CallsInv, Body
  <1>10. ASSUME NEW c \in Call, ConsumeQuote(c) PROVE AnswersInv'
    <2>1. /\ at[c] = "inserted" /\ Body(c).quote \in Quote /\ key[c] \in Key
          /\ UNCHANGED <<booking, key, answered, created>> /\ at'[c] = "answered"
          /\ \A d \in Call : d # c => at'[d] = at[d] /\ answer'[d] = answer[d]
      BY <1>10 DEF ConsumeQuote, CallsInv, InCall
    <2>2. /\ quote'[Body(c).quote].task # NoKey
          /\ \A q \in Quote : quote[q].task # NoKey => quote'[q].task # NoKey
      BY <1>10, <2>1 DEF ConsumeQuote, CallsInv
    <2>3. \A d \in Call : answer[d] # NoKey /\ Body(d).quote # NoQuote =>
             Body(d).quote \in Quote
      BY DEF CallsInv, Bodies, InCall
    <2>4. answer'[c] # NoKey
      BY <1>10, <2>1 DEF ConsumeQuote, CallsInv
    <2>5. QED
      BY <2>1, <2>2, <2>3, <2>4 DEF AnswersInv, AnsweredIsNotBookedAgain, SameBooking,
         CallsInv, Body
  <1>11. PricingNext \/ JobNext \/ UNCHANGED vars =>
            UNCHANGED <<quote, calls, task, created>>
    BY DEF PricingNext, LockService, Lock, CommitPricing, PricingFails, JobNext,
           DispatchTask, ConfirmCompletion, vars, calls
  <1>12. ASSUME QuoteNext PROVE AnswersInv'
    BY <1>2, <1>3, <1>12 DEF QuoteNext
  <1>13. ASSUME CallNext PROVE AnswersInv'
    BY <1>4, <1>5, <1>6, <1>7, <1>8, <1>9, <1>10, <1>13
       DEF CallNext, QuoteRefused, PriceRefused, ScheduleRefused, CallLost, Reading
  <1>14. QED
    BY <1>1, <1>11, <1>12, <1>13 DEF Next

LEMMA PricesStep ==
  ASSUME VersionsInv, CallsInv, PricesInv, [Next]_vars
  PROVE  PricesInv'
  <1> USE BookingsAssumption
  <1>1. Latest \in Nat /\ Latest' \in Nat /\ Latest <= Latest' /\ InForce = Latest
    BY VersionsStep, NewestInForce
  <1>2. ASSUME UNCHANGED <<calls, task, created, work>> PROVE PricesInv'
    BY <1>1, <1>2 DEF PricesInv, PriceWasCurrent, calls, work, Body
  <1>3. ASSUME NEW c \in Call, NEW k \in Key, NEW q \in Quote \cup {NoQuote},
               NEW minutes \in Minutes \cup {0}, Send(c, k, q, minutes)
        PROVE  PricesInv'
    <2>1. None \notin Bodies
      BY DEF Bodies, None
    <2>2. \A d \in Call : d # c /\ key[d] \in Key /\ Body(d) \in Bodies =>
             Body(d)' = Body(d) /\ key'[d] = key[d]
      BY <1>3, <2>1 DEF Send, CallsInv, Body
    <2>3. \A d \in Call : at[d] = "priced" \/ d \in created =>
             d # c /\ key[d] \in Key /\ Body(d) \in Bodies
      BY <1>3 DEF Send, CallsInv, InCall
    <2>4. /\ UNCHANGED <<offer, task, created, work>> /\ at'[c] = "sent"
          /\ since' = [since EXCEPT ![c] = Latest]
          /\ \A d \in Call : d # c => at'[d] = at[d]
      BY <1>1, <1>3 DEF Send, CallsInv
    <2>5. offer[c] = None
      BY <1>3 DEF Send, PricesInv
    <2>6. PriceWasCurrent'
      BY <1>1, <2>2, <2>3, <2>4 DEF PricesInv, PriceWasCurrent, CallsInv
    <2>7. QED
      BY <1>1, <2>2, <2>3, <2>4, <2>5, <2>6 DEF PricesInv, work
  <1>4. ASSUME NEW c \in Call, ReadQuote(c) \/ AnswerFromQuote(c) \/ ConsumeQuote(c)
        PROVE  PricesInv'
    BY <1>1, <1>4 DEF ReadQuote, AnswerFromQuote, ConsumeQuote, Reading, PricesInv,
       PriceWasCurrent, CallsInv, Body, work
  <1>5. ASSUME NEW c \in Call, at[c] \in {"sent", "quoted", "priced", "inserted"}, Over(c)
        PROVE  PricesInv'
    <2>1. /\ UNCHANGED <<booking, task, created, work>> /\ at'[c] = "over"
          /\ \A d \in Call : d # c =>
                /\ at'[d] = at[d] /\ key'[d] = key[d] /\ offer'[d] = offer[d]
                /\ since'[d] = since[d]
          /\ DOMAIN offer' = Call /\ since' \in [Call -> Nat]
          /\ offer'[c] = None
          /\ since'[c] = 0 \/ since'[c] = since[c]
          /\ c \in created => key'[c] = key[c] /\ since'[c] = since[c]
      BY <1>5 DEF Over, CallsInv, PricesInv
    <2>2. Latest' = Latest
      BY <1>5 DEF Over, prices, Latest
    <2>3. QED
      BY <1>1, <2>1, <2>2 DEF PricesInv, PriceWasCurrent, CallsInv, Body, work, GoodOffer
  <1>6. ASSUME NEW c \in Call, PriceTask(c) PROVE PricesInv'
    <2>1. /\ UNCHANGED <<booking, key, since, task, created, work>> /\ at'[c] = "priced"
          /\ Latest' = Latest
          /\ \A d \in Call : d # c => at'[d] = at[d] /\ offer'[d] = offer[d]
          /\ DOMAIN offer' = Call
          /\ offer'[c] = IF Body(c).minutes # 0 THEN Snapshot(CurrentRevision) ELSE None
      BY <1>6 DEF PriceTask, CallsInv, PricesInv, prices, Latest
    <2>2. /\ GoodOffer(offer'[c]) /\ (offer'[c] = None <=> Body(c).minutes = 0)
          /\ offer'[c] # None => offer'[c].version = Latest
      BY <2>1, SnapshotIsGood DEF GoodOffer
    <2>3. QED
      BY <1>1, <2>1, <2>2 DEF PricesInv, PriceWasCurrent, CallsInv, Body, work
  <1>7. ASSUME NEW c \in Call, InsertTask(c) PROVE PricesInv'
    <2>1. /\ at[c] = "priced" /\ key[c] \in Key /\ Body(c) \in Bodies /\ c \notin created
          /\ UNCHANGED <<booking, key, since, work>> /\ Latest' = Latest
          /\ created' = IF task[key[c]] = None THEN created \cup {c} ELSE created
          /\ at'[c] # "priced"
          /\ \A d \in Call : d # c => at'[d] = at[d] /\ offer'[d] = offer[d]
          /\ DOMAIN offer' = Call /\ offer'[c] = None
      BY <1>7 DEF InsertTask, AfterInsert, CallsInv, InCall, PricesInv, prices, Latest
    <2>2. /\ DOMAIN task' = Key
          /\ \A k \in Key : task'[k] = IF k = key[c] /\ task[k] = None THEN TaskOf(c)
                                     ELSE task[k]
      BY <1>7 DEF InsertTask, CallsInv
    <2>3. GoodTask(TaskOf(c)) /\ TaskOf(c).snapshot = offer[c]
      <3>1. /\ TaskOf(c).kind = "task" /\ TaskOf(c).minutes = Body(c).minutes
            /\ TaskOf(c).snapshot = offer[c]
            /\ Body(c).minutes # 0 => TaskOf(c).budget = Budget(offer[c], Body(c).minutes)
        BY DEF TaskOf
      <3>2. Body(c).minutes \in Nat
        <4>1. Body(c).minutes \in Minutes \cup {0}
          BY <2>1 DEF Bodies
        <4>2. Minutes \subseteq Nat
          BY BookingsAssumption
        <4>3. 0 \in Nat
          OBVIOUS
        <4>4. QED
          BY <4>1, <4>2, <4>3, Zenon
      <3>3. GoodOffer(offer[c]) /\ (offer[c] = None <=> Body(c).minutes = 0)
        BY <2>1 DEF PricesInv
      <3>4. QED
        BY <3>1, <3>2, <3>3 DEF GoodTask
    <2>4. PriceWasCurrent'
      <3> SUFFICES ASSUME NEW e \in created', task'[key[e]].snapshot # None
                   PROVE  task'[key[e]].snapshot.version \in since[e] .. Latest
        BY <2>1 DEF PriceWasCurrent
      <3>1. CASE e \in created
        BY <2>1, <2>2, <3>1 DEF PricesInv, PriceWasCurrent, CallsInv
      <3>2. CASE e \notin created
        <4>1. e = c /\ task'[key[c]] = TaskOf(c)
          BY <2>1, <2>2, <3>2
        <4>2. QED
          BY <2>3, <4>1 DEF PricesInv
      <3>3. QED
        BY <3>1, <3>2
    <2>5. \A k \in Key : task[k] # None => task'[k] = task[k]
      BY <2>2
    <2>6. \A k \in Key : task'[k] # None => GoodTask(task'[k])
      BY <2>2, <2>3 DEF PricesInv
    <2>7. QED
      BY <1>1, <2>1, <2>4, <2>5, <2>6 DEF PricesInv, Body, work, GoodOffer
  <1>8. ASSUME NEW k \in Key, DispatchTask(k) PROVE PricesInv'
    <2> DEFINE new == [kind |-> "job", snapshot |-> task[k].snapshot,
                       minutes |-> task[k].minutes, budget |-> task[k].budget]
    <2>1. task[k] # None /\ GoodTask(task[k]) /\ job[k] = None /\ bill[k] = None
      BY <1>8 DEF DispatchTask, PricesInv
    <2>2. job' = [job EXCEPT ![k] = new]
      BY <1>8, <2>1 DEF DispatchTask, GoodTask
    <2>3. UNCHANGED <<calls, task, created, bill>> /\ Latest' = Latest
      BY <1>8 DEF DispatchTask, prices, Latest
    <2> HIDE DEF new
    <2>4. \A l \in Key : job'[l] = IF l = k THEN new ELSE job[l]
      BY <2>2 DEF PricesInv
    <2>5. \A l \in Key : job'[l] # None =>
            /\ task[l] # None
            /\ job'[l] = [kind |-> "job", snapshot |-> task[l].snapshot,
                          minutes |-> task[l].minutes, budget |-> task[l].budget]
      BY <2>1, <2>4 DEF PricesInv, new
    <2>6. \A l \in Key : bill[l] # None => job'[l] = job[l]
      BY <2>1, <2>4
    <2>7. DOMAIN job' = Key
      BY <2>2 DEF PricesInv
    <2>8. QED
      BY <2>3, <2>5, <2>6, <2>7 DEF PricesInv, PriceWasCurrent, calls, Body
  <1>9. ASSUME NEW k \in Key, NEW w \in Work, ConfirmCompletion(k, w) PROVE PricesInv'
    <2>1. /\ job[k] # None /\ bill' = [bill EXCEPT ![k] = BillFor(job[k], w)]
          /\ UNCHANGED <<calls, task, created, job>> /\ Latest' = Latest
      BY <1>9 DEF ConfirmCompletion, prices, Latest
    <2>2. \A l \in Key : bill'[l] = IF l = k THEN BillFor(job[k], w) ELSE bill[l]
      BY <2>1 DEF PricesInv
    <2>3. DOMAIN bill' = Key
      BY <2>1 DEF PricesInv
    <2>4. QED
      BY <2>1, <2>2, <2>3 DEF PricesInv, PriceWasCurrent, calls, Body
  <1>10. PricingNext \/ QuoteNext \/ UNCHANGED vars =>
            UNCHANGED <<calls, task, created, work>>
    BY DEF PricingNext, LockService, Lock, CommitPricing, PricingFails, QuoteNext,
           RequestQuote, QuoteExpires, vars
  <1>11. ASSUME CallNext PROVE PricesInv'
    BY <1>3, <1>4, <1>5, <1>6, <1>7, <1>11
       DEF CallNext, QuoteRefused, PriceRefused, ScheduleRefused, CallLost, Reading
  <1>12. ASSUME JobNext PROVE PricesInv'
    BY <1>8, <1>9, <1>12 DEF JobNext
  <1>13. QED
    BY <1>2, <1>10, <1>11, <1>12 DEF Next

-----------------------------------------------------------------------------
\* The invariant holds in every state.
THEOREM BookingsInvariance == Spec => []BookingsInv
  <1>1. BookingsInv /\ [Next]_vars => BookingsInv'
    BY VersionsStep, CallsStep, AnswersStep, PricesStep DEF BookingsInv
  <1>2. QED
    BY InitBookings, <1>1, PTL DEF Spec

\* Of two administrators who publish at once one comes after the other: the
\* newest version is the only one in force (savePricingVersion).
THEOREM PublicationIsOrdered == Spec => []PublicationOrder
  <1>1. BookingsInv => PublicationOrder
    BY DEF BookingsInv, VersionsInv
  <1>2. QED
    BY BookingsInvariance, <1>1, PTL

\* The price of a booking was in force between the call that made it and its
\* insertion (POST /tasks, savePricingVersion).
THEOREM BookedAtACurrentPrice == Spec => []PriceWasCurrent
  <1>1. BookingsInv => PriceWasCurrent
    BY DEF BookingsInv, PricesInv
  <1>2. QED
    BY BookingsInvariance, <1>1, PTL

\* A call that comes after the answer does not book again (POST /tasks).
THEOREM AnsweredOnce == Spec => []AnsweredIsNotBookedAgain
  <1>1. BookingsInv => AnsweredIsNotBookedAgain
    BY DEF BookingsInv, AnswersInv
  <1>2. QED
    BY BookingsInvariance, <1>1, PTL

\* Division by a hundred keeps the order.
LEMMA HundredsMonotone ==
  ASSUME NEW a \in Nat, NEW b \in Nat, a <= b
  PROVE  a \div 100 <= b \div 100
  OBVIOUS

\* A bill stays within the budget and the approved time (confirmCompletion,
\* calculateFinal).
THEOREM BilledWithinApproval == Spec => []BillWithinApproval
  <1>1. ASSUME BookingsInv PROVE BillWithinApproval
    <2> SUFFICES ASSUME NEW k \in Key, bill[k] # None
                 PROVE  LET w == bill[k].work
                        IN  IF task[k].snapshot = None
                            THEN bill[k].labour = task[k].budget + w.additional
                            ELSE /\ bill[k].labour <=
                                      Budget(task[k].snapshot,
                                             task[k].minutes + w.approved)
                                 /\ w.approved = 0 => bill[k].labour <= task[k].budget
                                 /\ bill[k].worker <= bill[k].customer
      BY DEF BillWithinApproval
    <2>1. /\ task[k] # None /\ GoodTask(task[k])
          /\ job[k] = [kind |-> "job", snapshot |-> task[k].snapshot,
                       minutes |-> task[k].minutes, budget |-> task[k].budget]
      BY <1>1 DEF BookingsInv, PricesInv
    <2>2. PICK w \in Work : bill[k] = BillFor(job[k], w)
      BY <1>1 DEF BookingsInv, PricesInv
    <2>3. bill[k].work = w /\ w.verified \in Nat /\ w.approved \in Nat
      BY <2>2, BookingsAssumption DEF BillFor
    <2>4. CASE task[k].snapshot = None
      BY <2>1, <2>2, <2>3, <2>4 DEF BillFor
    <2>5. CASE task[k].snapshot # None
      <3> DEFINE config == task[k].snapshot.config
                 final == Final(config, task[k].minutes, w.verified, w.approved)
                 most == Estimate(config, task[k].minutes + w.approved)
      <3>1. GoodConfig(config) /\ task[k].minutes \in Nat
            /\ task[k].budget = Budget(task[k].snapshot, task[k].minutes)
        BY <2>1, <2>5 DEF GoodTask, GoodOffer
      <3>2. /\ final.worker <= final.customer /\ final.customer \in Nat
        BY <2>3, <3>1, PayoutIsCovered
      <3>3. final.customer <= most.customer /\ most.customer \in Nat
        BY <2>3, <3>1, FinalWithinApproval
      <3>4. /\ bill[k].labour = final.customer \div 100
            /\ bill[k].customer = final.customer /\ bill[k].worker = final.worker
        BY <2>1, <2>2, <2>5 DEF BillFor
      <3>5. Budget(task[k].snapshot, task[k].minutes + w.approved) = most.customer \div 100
        BY DEF Budget
      <3>6. w.approved = 0 => task[k].minutes + w.approved = task[k].minutes
        BY <3>1
      <3> HIDE DEF final, most
      <3>7. bill[k].labour <= Budget(task[k].snapshot, task[k].minutes + w.approved)
        BY <3>2, <3>3, <3>4, <3>5, HundredsMonotone
      <3>8. QED
        BY <2>3, <2>5, <3>1, <3>2, <3>4, <3>6, <3>7
    <2>6. QED
      BY <2>4, <2>5
  <1>2. QED
    BY BookingsInvariance, <1>1, PTL

\* No step changes what was booked, dispatched or billed: "existing bookings
\* retain their saved pricing" (InsertTask's ON CONFLICT, dispatchJob).
THEOREM BookingsKeepTheirPrice == Spec => BookingKeepsItsPrice
  <1> DEFINE Unchanged == \A k \in Key :
                /\ task[k] # None => task'[k] = task[k]
                /\ job[k] # None => job'[k] = job[k]
                /\ bill[k] # None => bill'[k] = bill[k]
  <1>1. ASSUME BookingsInv, [Next]_vars PROVE Unchanged
    <2>1. DOMAIN task = Key /\ DOMAIN job = Key /\ DOMAIN bill = Key
      BY <1>1 DEF BookingsInv, CallsInv, PricesInv
    <2>2. PricingNext \/ QuoteNext \/ UNCHANGED vars => UNCHANGED <<task, work>>
      BY DEF PricingNext, LockService, Lock, CommitPricing, PricingFails, QuoteNext,
             RequestQuote, QuoteExpires, vars
    <2>3. ASSUME CallNext PROVE Unchanged
      BY <2>1, <2>3 DEF CallNext, Send, ReadQuote, AnswerFromQuote, QuoteRefused, PriceTask,
         PriceRefused, ScheduleRefused, InsertTask, AfterInsert, ConsumeQuote, CallLost,
         Over, work
    <2>4. ASSUME JobNext PROVE Unchanged
      BY <2>1, <2>4 DEF JobNext, DispatchTask, ConfirmCompletion
    <2>5. QED
      BY <1>1, <2>2, <2>3, <2>4 DEF Next, work
  <1> HIDE DEF Unchanged
  <1>2. BookingsInv /\ [Next]_vars => [Unchanged]_vars
    BY <1>1
  <1>3. Spec => [][Unchanged]_vars
    BY BookingsInvariance, <1>2, PTL DEF Spec
  <1>4. QED
    BY <1>3 DEF BookingKeepsItsPrice, Unchanged
=============================================================================
