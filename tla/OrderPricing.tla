----------------------------- MODULE OrderPricing -----------------------------
(***************************************************************************)
(* Prices, totals and limits (money.ts, order.ts, order-pricing-service.ts,*)
(* order-placement-policy.ts, static-product-catalog.ts).  Money is a      *)
(* number of minor units of the catalog's one currency.                    *)
(***************************************************************************)
EXTENDS Integers, Sequences

CONSTANTS
    Sku,                 \* what the catalog has
    UnitPrice,           \* [Sku -> minor units]
    Fraction,            \* a quantity above zero that is not an integer
    HighValueThreshold   \* of OrderAuthorizationPolicy

ASSUME PriceAssumption ==
    UnitPrice \in [Sku -> Nat] /\ HighValueThreshold \in Nat /\ Fraction \notin Int

\* What Order.place makes of the items: an order, a DomainValidationError, or an
\* error of another class (UnknownSkuError, or Money.multiply's for a fraction),
\* in the order of the checks.
Checked(items) ==
    LET skus       == {items[i].sku : i \in DOMAIN items}
        quantities == {items[i].quantity : i \in DOMAIN items}
    IN  IF ~(skus \subseteq Sku) THEN "error"
        ELSE IF items = <<>> \/ \E q \in quantities \ {Fraction} : q <= 0 THEN "invalid"
        ELSE IF Fraction \in quantities THEN "error" ELSE "order"

\* A bug: a line counts once, whatever its quantity.
TotalOfPrices(items) ==
    LET total[n \in 0..Len(items)] ==
          IF n = 0 THEN 0 ELSE total[n - 1] + UnitPrice[items[n].sku]
    IN  total[Len(items)]

TotalAmount(items) ==
    LET total[n \in 0..Len(items)] ==
          IF n = 0 THEN 0
          ELSE total[n - 1] + UnitPrice[items[n].sku] * items[n].quantity
    IN  total[Len(items)]

\* Money.isGreaterThan
IsGreaterThan(amount, other) == amount > other

IsHighValue(items) == IsGreaterThan(TotalAmount(items), HighValueThreshold)

-----------------------------------------------------------------------------
(* Rules of the domain that no use case applies yet                        *)

\* applyPercentageDiscount, for whole percentages
Discounted(amount, percentage) == (amount * (100 - percentage)) \div 100

\* OrderPlacementPolicy.evaluate
Evaluate(tier, orderTotal, standardLimit, premiumLimit) ==
    orderTotal <= IF tier = "premium" THEN premiumLimit ELSE standardLimit
=============================================================================
