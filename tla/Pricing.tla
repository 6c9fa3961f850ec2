------------------------------ MODULE Pricing -------------------------------
(***************************************************************************)
(* The price of one variant (domain/pricing.py): the highest price ending  *)
(* in 99 whose delivered price undercuts the median of the comparable      *)
(* listings, if that leaves the target margin, otherwise the lowest one    *)
(* that does.  Amounts are cents; the shares PercentFee and TargetMargin   *)
(* are per mille and computed exactly, where the code uses floats.         *)
(***************************************************************************)
EXTENDS Arrangements

CONSTANTS
    PercentFee,        \* etsy_percent_fee, per mille of the revenue
    FixedFee,          \* etsy_fixed_fee_cents
    TargetMargin,      \* target_margin, per mille of the revenue
    Discount,          \* configured_discount_cents
    CustomerShipping   \* what the customer pays for shipping

Unknown == -1          \* an amount that is not known

ASSUME PricingAssumption ==
    /\ {PercentFee, FixedFee, TargetMargin, Discount, CustomerShipping} \subseteq Nat
    /\ TargetMargin > 0
    /\ PercentFee + TargetMargin < 1000

CeilDiv(a, b) == -((-a) \div b)
AtLeastZero(a) == IF a < 0 THEN 0 ELSE a

\* round() of a / b: the nearest integer, of two equally near ones the even one
RoundDiv(a, b) ==
    LET q == a \div b
        r == a % b
    IN IF 2 * r < b \/ (2 * r = b /\ q % 2 = 0) THEN q ELSE q + 1

RoundUpTo99(cents) == 100 * CeilDiv(cents + 1, 100) - 1

\* Mutant: the limit itself is taken for a price that ends in 99.
Highest99Above(limit) == IF limit < 99 THEN Unknown ELSE 100 * (limit \div 100) + 99

Highest99AtOrBelow(limit) ==
    IF limit < 99 THEN Unknown ELSE 100 * ((limit + 1) \div 100) - 1

\* The median delivered price, if at least three listings show one.
ComparableMedian(listings) ==
    LET shown == {i \in DOMAIN listings : listings[i].delivered # Unknown}
        known == SortedBy(listings, [i \in shown |-> <<listings[i].delivered>>])
        n == Cardinality(shown)
    IN IF n < 3 THEN Unknown
       ELSE RoundDiv(known[(n + 1) \div 2].delivered + known[n \div 2 + 1].delivered, 2)

FixedCosts(v) == v.cost + v.shipping + FixedFee + Discount

\* The lowest price ending in 99 that pays the costs, the fees and the margin.
FloorPrice(v) ==
    RoundUpTo99(AtLeastZero(CeilDiv(1000 * FixedCosts(v), 1000 - PercentFee - TargetMargin)
                            - CustomerShipping))

Undercut(benchmark) ==
    IF benchmark = Unknown THEN Unknown
    ELSE Highest99AtOrBelow(benchmark - CustomerShipping - 1)

\* competitive_price; kept is FALSE where the code raises because the rounded
\* fee takes the margin below the target.
CompetitivePrice(v, benchmark) ==
    LET undercuts == Undercut(benchmark) >= FloorPrice(v)
        price == IF undercuts THEN Undercut(benchmark) ELSE FloorPrice(v)
        revenue == price + CustomerShipping
        fee == RoundDiv(revenue * PercentFee, 1000) + FixedFee
        contribution == revenue - v.cost - v.shipping - fee - Discount
    IN [variant |-> v.id, price |-> price, contribution |-> contribution,
        undercut |-> IF undercuts THEN "true"
                     ELSE IF benchmark = Unknown THEN "unknown" ELSE "false",
        kept |-> 1000 * contribution >= TargetMargin * revenue]
=============================================================================
