------------------------------- MODULE Pricing -------------------------------
(***************************************************************************)
(* What a service costs: the arithmetic of workidaPricing.js, the rules by *)
(* which pricingRepository.js turns an administrator's input into a price  *)
(* (worker payout policy, normalisation, validation), and the household    *)
(* quotes of householdPricing.js. Amounts are in the currency's smallest   *)
(* unit, times in minutes, a city's multipliers in percent. Nothing here   *)
(* has a state; Bookings publishes, quotes and bills with these operators. *)
(*                                                                         *)
(* A price has two sides, what the customer pays and what the worker gets, *)
(* with the same four amounts: base, rate, visit, minimum.                 *)
(***************************************************************************)
EXTENDS Integers, FiniteSets, Functions

\* What an administrator sets for a side, and what a booking is priced with.
Side == [base : Nat, rate : Nat, visit : Nat]
Amounts == [base : Nat, rate : Nat, visit : Nat, minimum : Nat]

\* Two sides of a price on which the worker gets no more than the customer pays.
Covered(worker, customer) ==
    /\ worker.base <= customer.base /\ worker.rate <= customer.rate
    /\ worker.visit <= customer.visit

\* A service as the price book and the published versions hold it.
GoodService(service) ==
    /\ service.included \in Nat /\ service.increment \in Nat \ {0}
    /\ service.minimumOrder \in Nat
    /\ service.customer \in Side /\ service.worker \in Side
    /\ Covered(service.worker, service.customer)
    /\ \A o \in DOMAIN service.options :
          /\ service.options[o].customer \in Nat /\ service.options[o].worker \in Nat
          /\ service.options[o].worker <= service.options[o].customer

\* The configuration of a booking.
GoodConfig(config) ==
    /\ config.included \in Nat /\ config.increment \in Nat \ {0}
    /\ config.customer \in Amounts /\ config.worker \in Amounts
    /\ Covered(config.worker, config.customer)
    /\ config.worker.minimum <= config.customer.minimum

\* What an administrator sends.
GoodValue(value) ==
    /\ value.included \in Nat /\ value.increment \in Nat \ {0}
    /\ value.customer \in Side
    /\ \A o \in DOMAIN value.options : value.options[o].customer \in Nat

Larger(a, b) == IF a >= b THEN a ELSE b
Smaller(a, b) == IF a <= b THEN a ELSE b

\* Math.round(n / d), for n that is not negative.
Rounded(n, d) == (2 * n + d) \div (2 * d)

PricingModel == {"hourly", "fixed", "inspection", "quote", "perUnit", "tiered"}
Inspection == {"inspection", "quote"}

-----------------------------------------------------------------------------
(* Estimates and bills *)

\* An hourly rate for so many minutes, to the nearest unit.
Prorated(rate, minutes) == (rate * minutes + 30) \div 60

\* Billing goes on in whole blocks of minutes.
InBlocks(minutes, increment) ==
    ((minutes + increment - 1) \div increment) * increment

\* The base price covers the included time, the rest is charged in blocks. No
\* verified time at all costs nothing.
HourlyAmount(config, side, minutes) ==
    IF minutes <= 0 THEN 0
    ELSE LET extra == Larger(minutes - config.included, 0)
         IN  Larger(side.base + Prorated(side.rate, InBlocks(extra, config.increment)),
                    side.minimum)

Labour(config, side, minutes) ==
    IF config.model = "hourly" THEN HourlyAmount(config, side, minutes) ELSE side.minimum

Total(config, side, minutes) == side.visit + Labour(config, side, minutes)

ValidMinutes(config, minutes) == minutes \in config.shortest .. config.longest

\* calculateEstimate
Estimate(config, minutes) ==
    [customer |-> Total(config, config.customer, minutes),
     worker |-> Total(config, config.worker, minutes)]

\* Mutant of BillableMinutes: whatever time was taken is billed.
BillableUnapproved(config, estimated, verified, approved) ==
    IF config.model = "hourly" THEN verified ELSE estimated

\* calculateFinal: the time worked, up to the estimate and whatever overtime
\* was both worked and approved.
BillableMinutes(config, estimated, verified, approved) ==
    IF config.model = "hourly"
    THEN Smaller(verified, estimated) + Smaller(Larger(verified - estimated, 0), approved)
    ELSE estimated

Final(config, estimated, verified, approved) ==
    Estimate(config, BillableMinutes(config, estimated, verified, approved))

-----------------------------------------------------------------------------
(* From a service to the configuration of one booking *)

NoOption == "none"

\* selectVariant: a service with options is booked with one of them.
Selectable(service, option) ==
    IF DOMAIN service.options = {} THEN option = NoOption
    ELSE option \in DOMAIN service.options

\* applyAdjustment: a city's percentage, rounded to whole hundreds.
Adjusted(amount, percent) == Rounded(amount * percent, 10000) * 100

\* One side of the price: who = "customer" or "worker". The code has a multiplier
\* for each side; they are equal in the price book, though nothing validates that,
\* and percent is both.
AdjustedSide(service, who, option, quantity, percent) ==
    LET hourly == service.model = "hourly"
        times == IF service.model \in Inspection \cup {"hourly", "tiered"} THEN 1
                 ELSE quantity
        base == (IF option = NoOption THEN service[who].base
                 ELSE service.options[option][who]) * times
        labour == Adjusted(base, percent)
        least == IF who = "customer"
                 THEN Larger(labour, Adjusted(service.minimumOrder, percent)) ELSE labour
    IN  [base |-> IF hourly THEN labour ELSE 0,
         rate |-> IF hourly THEN Adjusted(service[who].rate, percent) ELSE 0,
         visit |-> Adjusted(service[who].visit, percent),
         minimum |-> IF service.model \in Inspection THEN 0 ELSE least]

\* buildPricingConfig, where the service is active and offered in the city.
BuildPricingConfig(service, option, quantity, percent) ==
    LET times == IF service.model = "perUnit" THEN quantity ELSE 1
        scope == IF option = NoOption THEN service ELSE service.options[option]
    IN  [model |-> service.model,
         included |-> service.included,
         increment |-> service.increment,
         shortest |-> scope.shortest * times,
         longest |-> scope.longest * times,
         customer |-> AdjustedSide(service, "customer", option, quantity, percent),
         worker |-> AdjustedSide(service, "worker", option, quantity, percent)]

-----------------------------------------------------------------------------
(* From an administrator's input to a price *)

\* workerPayoutPolicyBps: the worker's share in basis points, -1 where a pair
\* of amounts does not tell.
NoPolicy == -1
PolicyOf(customer, worker) ==
    IF customer <= 0 \/ worker < 0 THEN NoPolicy
    ELSE Smaller(10000, Rounded(worker * 10000, customer))

\* payoutFromPolicy: whole hundreds, at least one hundred, at most the price.
PayoutFromPolicy(customer, bps) ==
    IF customer <= 0 THEN 0
    ELSE Smaller(customer, Larger(100, Rounded(customer * bps, 1000000) * 100))

\* The first pair of the base service that tells a share stands in for those
\* that do not; the order of its options is left out.
FallbackPolicy(base) ==
    LET pair(field) == PolicyOf(base.customer[field], base.worker[field])
        option == {PolicyOf(o.customer, o.worker) : o \in Range(base.options)} \ {NoPolicy}
    IN  IF pair("base") # NoPolicy THEN pair("base")
        ELSE IF pair("rate") # NoPolicy THEN pair("rate")
        ELSE IF pair("visit") # NoPolicy THEN pair("visit")
        ELSE IF option # {} THEN CHOOSE bps \in option : TRUE ELSE NoPolicy

PolicyFor(base, customer, worker) ==
    IF PolicyOf(customer, worker) # NoPolicy THEN PolicyOf(customer, worker)
    ELSE FallbackPolicy(base)

\* An amount without a share to derive the payout from is an error.
PolicyKnown(value, base) ==
    /\ \A field \in {"base", "rate", "visit"} :
          value.customer[field] > 0 =>
              PolicyFor(base, base.customer[field], base.worker[field]) # NoPolicy
    /\ DOMAIN value.options # {} => FallbackPolicy(base) # NoPolicy

\* applyWorkerPayoutPolicy: the worker's side follows from the customer's.
WorkerSide(customer, base) ==
    [field \in {"base", "rate", "visit"} |->
        PayoutFromPolicy(customer[field],
            PolicyFor(base, base.customer[field], base.worker[field]))]

\* normalizeAdminPricing: a model keeps only the amounts it uses.
Kept(model) ==
    IF model = "hourly" THEN {"base", "rate"}
    ELSE IF model \in Inspection THEN {"visit"} ELSE {"base"}

NormalizedSide(model, side) ==
    [field \in {"base", "rate", "visit"} |->
        IF field \in Kept(model) THEN side[field] ELSE 0]

\* What savePricingVersion stores for the input: policy, then normalisation.
Published(value, base) ==
    [model |-> value.model,
     active |-> value.active,
     included |-> IF value.model = "hourly" THEN value.included ELSE 0,
     increment |-> IF value.model = "hourly" THEN value.increment ELSE 1,
     shortest |-> value.shortest,
     longest |-> value.longest,
     minimumOrder |-> base.minimumOrder,
     customer |-> NormalizedSide(value.model, value.customer),
     worker |-> NormalizedSide(value.model, WorkerSide(value.customer, base)),
     options |-> [o \in DOMAIN value.options |->
        [customer |-> value.options[o].customer,
         worker |-> PayoutFromPolicy(value.options[o].customer,
            IF o \in DOMAIN base.options
            THEN PolicyFor(base, base.options[o].customer, base.options[o].worker)
            ELSE FallbackPolicy(base)),
         shortest |-> value.options[o].shortest,
         longest |-> value.options[o].longest]]]

ValidRange(scope) ==
    scope.shortest >= 10 /\ scope.longest <= 1440 /\ scope.longest >= scope.shortest

\* validateVariants: the catalogue's options, each with a price and a payout.
ValidOptions(row, base) ==
    /\ DOMAIN row.options = DOMAIN base.options
    /\ DOMAIN base.options # {} => row.model = "tiered"
    /\ \A o \in DOMAIN row.options :
          /\ row.options[o].customer > 0 /\ row.options[o].worker > 0
          /\ row.options[o].worker <= row.options[o].customer
          /\ ValidRange(row.options[o])

\* validateAdminPricing, without the scope texts.
ValidPricing(row, base) ==
    /\ row.model \in PricingModel
    /\ ValidOptions(row, base)
    /\ \A field \in {"base", "rate", "visit"} :
          row.customer[field] >= 0 /\ row.worker[field] <= row.customer[field]
    /\ row.included \in 0 .. 240
    /\ row.increment \in {1, 5, 10, 15, 30, 60}
    /\ ValidRange(row)
    /\ row.model = "hourly" =>
          /\ row.customer.base > 0 /\ row.customer.rate > 0
          /\ row.included = 30 /\ row.shortest >= 30
    /\ row.model \in Inspection => row.customer.visit > 0
    /\ row.model \notin Inspection \cup {"hourly"} => row.customer.base > 0

-----------------------------------------------------------------------------
(* Household help: the chores a session of one to three hours has room for *)

\* chores: for each chosen chore its minutes in the table of workloads.
Workload(chores) ==
    10 + (Cardinality(DOMAIN chores) - 1) * 5 + FoldFunction(+, 0, chores)

RecommendedHours(chores) == (Workload(chores) + 59) \div 60

BlockRate(hours) == 199 * hours

\* quoteHouseholdSession
Quotable(chores, hours) ==
    /\ DOMAIN chores # {}
    /\ hours \in 1 .. 3
    /\ RecommendedHours(chores) <= 3
    /\ RecommendedHours(chores) <= hours
=============================================================================
