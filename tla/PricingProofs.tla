---------------------------- MODULE PricingProofs ----------------------------
(***************************************************************************)
(* Theorems about the arithmetic of Pricing, for all amounts and times.    *)
(***************************************************************************)
EXTENDS Pricing, TLAPS

-----------------------------------------------------------------------------
LEMMA TimesMonotone ==
  ASSUME NEW a \in Nat, NEW b \in Nat, NEW m \in Nat, NEW n \in Nat, a <= b, m <= n
  PROVE  a * m <= b * n /\ a * m \in Nat /\ b * n \in Nat
  <1>1. a * m <= a * n
    <2>1. PICK d \in Nat : n = m + d
      <3>1. n - m \in Nat /\ n = m + (n - m)
        OBVIOUS
      <3>2. QED
        BY <3>1
    <2>2. a * n = a * m + a * d /\ a * d \in Nat
      BY <2>1
    <2>3. QED
      BY <2>2
  <1>2. a * n <= b * n
    <2>1. PICK d \in Nat : b = a + d
      <3>1. b - a \in Nat /\ b = a + (b - a)
        OBVIOUS
      <3>2. QED
        BY <3>1
    <2>2. b * n = a * n + d * n /\ d * n \in Nat
      BY <2>1
    <2>3. QED
      BY <2>2
  <1>3. a * m \in Nat /\ b * n \in Nat /\ a * n \in Nat
    OBVIOUS
  <1>4. QED
    BY <1>1, <1>2, <1>3

LEMMA DivMonotone ==
  ASSUME NEW x \in Nat, NEW y \in Nat, NEW d \in Nat \ {0}, x <= y
  PROVE  x \div d <= y \div d /\ x \div d \in Nat /\ y \div d \in Nat
  OBVIOUS

\* A rate for some minutes grows with the rate and with the minutes.
LEMMA ProratedMonotone ==
  ASSUME NEW r \in Nat, NEW s \in Nat, NEW m \in Nat, NEW n \in Nat, r <= s, m <= n
  PROVE  Prorated(r, m) <= Prorated(s, n) /\ Prorated(r, m) \in Nat
         /\ Prorated(s, n) \in Nat
  <1>1. r * m <= s * n /\ r * m \in Nat /\ s * n \in Nat
    BY TimesMonotone
  <1>2. QED
    BY <1>1 DEF Prorated

LEMMA BlocksMonotone ==
  ASSUME NEW m \in Nat, NEW n \in Nat, NEW inc \in Nat \ {0}, m <= n
  PROVE  InBlocks(m, inc) <= InBlocks(n, inc) /\ InBlocks(m, inc) \in Nat
         /\ InBlocks(n, inc) \in Nat
  <1> DEFINE x == m + inc - 1
             y == n + inc - 1
  <1>1. x \in Nat /\ y \in Nat /\ x <= y
    OBVIOUS
  <1> HIDE DEF x, y
  <1>2. x \div inc <= y \div inc /\ x \div inc \in Nat /\ y \div inc \in Nat
    BY <1>1, DivMonotone
  <1>3. (x \div inc) * inc <= (y \div inc) * inc /\ (x \div inc) * inc \in Nat
        /\ (y \div inc) * inc \in Nat
    BY <1>2, TimesMonotone
  <1>4. QED
    BY <1>3 DEF InBlocks, x, y

\* A dearer side and a longer time never make labour cheaper.
LEMMA LabourMonotone ==
  ASSUME NEW config, config.included \in Nat, config.increment \in Nat \ {0},
         NEW low \in Amounts, NEW high \in Amounts,
         low.base <= high.base, low.rate <= high.rate, low.visit <= high.visit,
         low.minimum <= high.minimum,
         NEW m \in Nat, NEW n \in Nat, m <= n
  PROVE  /\ Total(config, low, m) <= Total(config, high, n)
         /\ Total(config, low, m) \in Nat /\ Total(config, high, n) \in Nat
  <1> DEFINE blocks(t) == InBlocks(Larger(t - config.included, 0), config.increment)
  <1>1. /\ Larger(m - config.included, 0) \in Nat /\ Larger(n - config.included, 0) \in Nat
        /\ Larger(m - config.included, 0) <= Larger(n - config.included, 0)
    BY DEF Larger
  <1>2. blocks(m) <= blocks(n) /\ blocks(m) \in Nat /\ blocks(n) \in Nat
    BY <1>1, BlocksMonotone
  <1>3. low.rate \in Nat /\ high.rate \in Nat
    BY DEF Amounts
  <1> HIDE DEF blocks
  <1>4. /\ Prorated(low.rate, blocks(m)) <= Prorated(high.rate, blocks(n))
        /\ Prorated(low.rate, blocks(m)) \in Nat /\ Prorated(high.rate, blocks(n)) \in Nat
    BY <1>2, <1>3, ProratedMonotone
  <1>5. /\ HourlyAmount(config, low, m) <= HourlyAmount(config, high, n)
        /\ HourlyAmount(config, low, m) \in Nat /\ HourlyAmount(config, high, n) \in Nat
    <2> DEFINE p == Prorated(low.rate, blocks(m))
               q == Prorated(high.rate, blocks(n))
    <2>1. /\ HourlyAmount(config, low, m)
                = IF m <= 0 THEN 0 ELSE Larger(low.base + p, low.minimum)
          /\ HourlyAmount(config, high, n)
                = IF n <= 0 THEN 0 ELSE Larger(high.base + q, high.minimum)
      BY DEF HourlyAmount, blocks
    <2>2. p \in Nat /\ q \in Nat /\ p <= q
      BY <1>4
    <2> HIDE DEF p, q
    <2>3. QED
      BY <2>1, <2>2 DEF Larger, Amounts
  <1>6. QED
    BY <1>5 DEF Total, Labour, Amounts

-----------------------------------------------------------------------------
\* Whatever was worked and approved, the worker's final payout is covered by
\* what the customer pays (calculateFinal).
THEOREM PayoutIsCovered ==
  ASSUME NEW config, GoodConfig(config), NEW estimated \in Nat, NEW verified \in Nat,
         NEW approved \in Nat
  PROVE  /\ Final(config, estimated, verified, approved).worker
                <= Final(config, estimated, verified, approved).customer
         /\ Final(config, estimated, verified, approved).worker \in Nat
         /\ Final(config, estimated, verified, approved).customer \in Nat
  <1> DEFINE t == BillableMinutes(config, estimated, verified, approved)
  <1>1. t \in Nat
    BY DEF BillableMinutes, Smaller, Larger
  <1> HIDE DEF t
  <1>2. /\ Total(config, config.worker, t) <= Total(config, config.customer, t)
        /\ Total(config, config.worker, t) \in Nat
        /\ Total(config, config.customer, t) \in Nat
    BY <1>1, LabourMonotone DEF GoodConfig, Covered
  <1>3. QED
    BY <1>2 DEF Final, Estimate, t

\* The final price never exceeds the estimate for the minutes booked and
\* approved: time worked without approval is not paid for (calculateFinal).
THEOREM FinalWithinApproval ==
  ASSUME NEW config, GoodConfig(config), NEW estimated \in Nat, NEW verified \in Nat,
         NEW approved \in Nat
  PROVE  /\ Final(config, estimated, verified, approved).customer
                <= Estimate(config, estimated + approved).customer
         /\ Estimate(config, estimated + approved).customer \in Nat
  <1> DEFINE t == BillableMinutes(config, estimated, verified, approved)
  <1>1. t \in Nat /\ t <= estimated + approved /\ estimated + approved \in Nat
    BY DEF BillableMinutes, Smaller, Larger
  <1> HIDE DEF t
  <1>2. /\ Total(config, config.customer, t)
                <= Total(config, config.customer, estimated + approved)
        /\ Total(config, config.customer, estimated + approved) \in Nat
    <2>1. config.customer \in Amounts /\ config.included \in Nat
          /\ config.increment \in Nat \ {0}
      BY DEF GoodConfig
    <2>2. /\ config.customer.base <= config.customer.base
          /\ config.customer.rate <= config.customer.rate
          /\ config.customer.visit <= config.customer.visit
          /\ config.customer.minimum <= config.customer.minimum
      BY <2>1 DEF Amounts
    <2>3. QED
      BY <1>1, <2>1, <2>2, LabourMonotone
  <1>3. QED
    BY <1>2 DEF Final, Estimate, t

-----------------------------------------------------------------------------
\* A city's multiplier keeps the order of two amounts.
LEMMA AdjustedMonotone ==
  ASSUME NEW low \in Nat, NEW high \in Nat, NEW percent \in Nat, low <= high
  PROVE  /\ Adjusted(low, percent) <= Adjusted(high, percent)
         /\ Adjusted(low, percent) \in Nat /\ Adjusted(high, percent) \in Nat
  <1>1. low * percent <= high * percent /\ low * percent \in Nat /\ high * percent \in Nat
    BY TimesMonotone
  <1>2. QED
    BY <1>1 DEF Adjusted, Rounded

\* Whatever option, quantity and city a good service is booked with, the booking
\* gets a configuration in which the payout is covered (buildPricingConfig).
THEOREM BookedConfigurationIsGood ==
  ASSUME NEW service, GoodService(service), NEW percent \in Nat, NEW quantity \in Nat,
         NEW option, option = NoOption \/ option \in DOMAIN service.options
  PROVE  GoodConfig(BuildPricingConfig(service, option, quantity, percent))
  <1> DEFINE times == IF service.model \in Inspection \cup {"hourly", "tiered"} THEN 1
                      ELSE quantity
             unit(who) == IF option = NoOption THEN service[who].base
                          ELSE service.options[option][who]
             side(who) == AdjustedSide(service, who, option, quantity, percent)
  <1>1. times \in Nat
    OBVIOUS
  <1>2. unit("worker") \in Nat /\ unit("customer") \in Nat
        /\ unit("worker") <= unit("customer")
    BY DEF GoodService, Side, Covered
  <1> HIDE DEF times, unit
  <1>3. /\ unit("worker") * times <= unit("customer") * times
        /\ unit("worker") * times \in Nat /\ unit("customer") * times \in Nat
    BY <1>1, <1>2, TimesMonotone
  <1>4. /\ Adjusted(unit("worker") * times, percent)
                <= Adjusted(unit("customer") * times, percent)
        /\ Adjusted(unit("worker") * times, percent) \in Nat
        /\ Adjusted(unit("customer") * times, percent) \in Nat
    BY <1>3, AdjustedMonotone
  <1>5. /\ Adjusted(service.worker.rate, percent)
                <= Adjusted(service.customer.rate, percent)
        /\ Adjusted(service.worker.rate, percent) \in Nat
        /\ Adjusted(service.customer.rate, percent) \in Nat
    BY AdjustedMonotone DEF GoodService, Side, Covered
  <1>6. /\ Adjusted(service.worker.visit, percent)
                <= Adjusted(service.customer.visit, percent)
        /\ Adjusted(service.worker.visit, percent) \in Nat
        /\ Adjusted(service.customer.visit, percent) \in Nat
    BY AdjustedMonotone DEF GoodService, Side, Covered
  <1>7. Adjusted(service.minimumOrder, percent) \in Nat
    <2>1. service.minimumOrder \in Nat /\ service.minimumOrder <= service.minimumOrder
      BY DEF GoodService
    <2>2. QED
      BY <2>1, AdjustedMonotone
  <1>8. side("customer") =
          [base |-> IF service.model = "hourly"
                    THEN Adjusted(unit("customer") * times, percent) ELSE 0,
           rate |-> IF service.model = "hourly"
                    THEN Adjusted(service.customer.rate, percent) ELSE 0,
           visit |-> Adjusted(service.customer.visit, percent),
           minimum |-> IF service.model \in Inspection THEN 0
                       ELSE Larger(Adjusted(unit("customer") * times, percent),
                                   Adjusted(service.minimumOrder, percent))]
    BY DEF AdjustedSide, unit, times
  <1>9. side("worker") =
          [base |-> IF service.model = "hourly"
                    THEN Adjusted(unit("worker") * times, percent) ELSE 0,
           rate |-> IF service.model = "hourly"
                    THEN Adjusted(service.worker.rate, percent) ELSE 0,
           visit |-> Adjusted(service.worker.visit, percent),
           minimum |-> IF service.model \in Inspection THEN 0
                       ELSE Adjusted(unit("worker") * times, percent)]
    BY DEF AdjustedSide, unit, times
  <1> HIDE DEF side
  <1>10. /\ side("customer") \in Amounts /\ side("worker") \in Amounts
         /\ Covered(side("worker"), side("customer"))
         /\ side("worker").minimum <= side("customer").minimum
    BY <1>4, <1>5, <1>6, <1>7, <1>8, <1>9 DEF Amounts, Covered, Larger
  <1>11. service.included \in Nat /\ service.increment \in Nat \ {0}
    BY DEF GoodService
  <1>12. QED
    BY <1>10, <1>11 DEF BuildPricingConfig, GoodConfig, side

-----------------------------------------------------------------------------
\* A payout is between nothing and the price, whatever the share.
LEMMA PayoutBounds ==
  ASSUME NEW customer \in Nat, NEW bps \in Int
  PROVE  PayoutFromPolicy(customer, bps) \in 0 .. customer
  <1>1. customer * bps \in Int
    OBVIOUS
  <1> DEFINE r == Rounded(customer * bps, 1000000)
  <1>2. r \in Int
    BY <1>1 DEF Rounded
  <1> HIDE DEF r
  <1>3. QED
    BY <1>2 DEF PayoutFromPolicy, Larger, Smaller, r

LEMMA PolicyType ==
  ASSUME NEW customer \in Nat, NEW worker \in Nat
  PROVE  PolicyOf(customer, worker) \in Int
  <1>1. CASE customer = 0
    BY <1>1 DEF PolicyOf, NoPolicy
  <1>2. CASE customer # 0
    <2>1. 2 * (worker * 10000) + customer \in Int /\ 2 * customer \in Nat \ {0}
      BY <1>2
    <2>2. (2 * (worker * 10000) + customer) \div (2 * customer) \in Int
      BY <2>1
    <2>3. QED
      BY <1>2, <2>2 DEF PolicyOf, Rounded, Smaller
  <1>3. QED
    BY <1>1, <1>2

LEMMA PolicyForType ==
  ASSUME NEW base, GoodService(base), NEW customer \in Nat, NEW worker \in Nat
  PROVE  PolicyFor(base, customer, worker) \in Int /\ FallbackPolicy(base) \in Int
  <1>1. PolicyOf(customer, worker) \in Int
    BY PolicyType
  <1>2. FallbackPolicy(base) \in Int
    <2> DEFINE pair(field) == PolicyOf(base.customer[field], base.worker[field])
               option == {PolicyOf(o.customer, o.worker) : o \in Range(base.options)}
                         \ {NoPolicy}
    <2>1. pair("base") \in Int /\ pair("rate") \in Int /\ pair("visit") \in Int
      BY PolicyType DEF GoodService, Side
    <2>2. option \subseteq Int
      BY PolicyType DEF GoodService, Range
    <2>3. option # {} => (CHOOSE bps \in option : TRUE) \in Int
      BY <2>2
    <2>4. FallbackPolicy(base) =
            IF pair("base") # NoPolicy THEN pair("base")
            ELSE IF pair("rate") # NoPolicy THEN pair("rate")
            ELSE IF pair("visit") # NoPolicy THEN pair("visit")
            ELSE IF option # {} THEN CHOOSE bps \in option : TRUE ELSE NoPolicy
      BY DEF FallbackPolicy
    <2> HIDE DEF pair, option
    <2>5. QED
      BY <2>1, <2>3, <2>4 DEF NoPolicy
  <1>3. QED
    BY <1>1, <1>2 DEF PolicyFor

\* Whatever an administrator sends, the payout derived from the price book's
\* shares is covered (applyWorkerPayoutPolicy, normalizeAdminPricing).
THEOREM PublishedServiceIsGood ==
  ASSUME NEW base, GoodService(base), NEW value, GoodValue(value)
  PROVE  GoodService(Published(value, base))
  <1>1. \A field \in {"base", "rate", "visit"} :
           PolicyFor(base, base.customer[field], base.worker[field]) \in Int
    BY PolicyForType DEF GoodService, Side
  <1>2. \A field \in {"base", "rate", "visit"} :
           WorkerSide(value.customer, base)[field] \in 0 .. value.customer[field]
    BY <1>1, PayoutBounds DEF WorkerSide, GoodValue, Side
  <1> DEFINE published == Published(value, base)
             c == NormalizedSide(value.model, value.customer)
             w == NormalizedSide(value.model, WorkerSide(value.customer, base))
  <1>3. c \in Side /\ w \in Side /\ Covered(w, c)
    <2>1. \A field \in {"base", "rate", "visit"} :
             /\ c[field] \in Nat /\ w[field] \in Nat /\ w[field] <= c[field]
      BY <1>2 DEF NormalizedSide, GoodValue, Side
    <2>2. /\ c = [base |-> c.base, rate |-> c.rate, visit |-> c.visit]
          /\ w = [base |-> w.base, rate |-> w.rate, visit |-> w.visit]
      BY DEF NormalizedSide
    <2> HIDE DEF c, w
    <2>3. QED
      BY <2>1, <2>2 DEF Side, Covered
  <1>4. \A o \in DOMAIN value.options :
          LET p == published.options[o]
          IN  p.customer \in Nat /\ p.worker \in Nat /\ p.worker <= p.customer
    <2> SUFFICES ASSUME NEW o \in DOMAIN value.options
                 PROVE  /\ published.options[o].customer \in Nat
                        /\ published.options[o].worker \in Nat
                        /\ published.options[o].worker <= published.options[o].customer
      OBVIOUS
    <2> DEFINE bps == IF o \in DOMAIN base.options
                      THEN PolicyFor(base, base.options[o].customer, base.options[o].worker)
                      ELSE FallbackPolicy(base)
    <2>1. bps \in Int
      <3>1. CASE o \in DOMAIN base.options
        BY <3>1, PolicyForType DEF GoodService
      <3>2. CASE o \notin DOMAIN base.options
        BY <3>2, PolicyForType DEF GoodService
      <3>3. QED
        BY <3>1, <3>2
    <2>2. /\ published.options[o].customer = value.options[o].customer
          /\ published.options[o].worker = PayoutFromPolicy(value.options[o].customer, bps)
      BY DEF Published
    <2> HIDE DEF bps, published
    <2>3. value.options[o].customer \in Nat
      BY DEF GoodValue
    <2>4. PayoutFromPolicy(value.options[o].customer, bps)
             \in 0 .. value.options[o].customer
      BY <2>1, <2>3, PayoutBounds
    <2>5. QED
      BY <2>2, <2>3, <2>4
  <1>5. /\ published.included \in Nat /\ published.increment \in Nat \ {0}
        /\ published.minimumOrder \in Nat /\ published.customer = c
        /\ published.worker = w /\ DOMAIN published.options = DOMAIN value.options
    BY DEF Published, GoodValue, GoodService
  <1> HIDE DEF published, c, w
  <1>6. GoodService(published)
    BY <1>3, <1>4, <1>5 DEF GoodService
  <1>7. QED
    BY <1>6 DEF published
=============================================================================
