---------------------------- MODULE Opportunities ---------------------------
(***************************************************************************)
(* From researched products to ranked opportunities                        *)
(* (domain/opportunities.py).  A product is [terms, variants, offered]; a  *)
(* listing is one competitor's snapshot: its market and id, the terms in   *)
(* its title, how many of its sales signals are explicit and how many are  *)
(* proxies, its delivered price, confidence, number of reviews, whether it *)
(* has an image, how it was found and its age.  Markets and ids are        *)
(* numbers, in the order of their names.  Wording is left out.             *)
(***************************************************************************)
EXTENDS FiniteSetsExt, Pricing

CONSTANTS
    NumOpportunities,  \* opportunities research makes (25)
    MaxComparables,    \* listings an opportunity keeps (10)
    Freshness,         \* [browser, search_fallback]: hours evidence stays fresh
    MaxProducts,       \* bound on the products of the catalog table
    Digest             \* the id of a product's opportunity with an index, a hash

ASSUME OpportunitiesAssumption ==
    /\ {NumOpportunities, MaxProducts} \subseteq Nat \ {0}
    /\ MaxComparables \in Nat \ (0..2)
    /\ Freshness \in [{"browser", "search_fallback"} -> Nat]
    /\ Digest \in [(1..MaxProducts) \X (1..NumOpportunities) -> Nat \ {0}]
    /\ \A x, y \in DOMAIN Digest : Digest[x] = Digest[y] => x = y

Explicit(listings) == Total([i \in DOMAIN listings |-> listings[i].explicit])
Proxy(listings) == Total([i \in DOMAIN listings |-> listings[i].proxy])
Markets(listings) == {listings[i].market : i \in DOMAIN listings}
Identity(l) == <<l.market, l.id>>
Clamp(x) == IF x < 0 THEN 0 ELSE IF x > 100 THEN 100 ELSE x

EvidenceIsFresh(l) == l.age <= Freshness[l.method]

\* At least three listings on two marketplaces, and one explicit sales signal
\* or proxy signals of two listings.
EvidenceGate(listings) ==
    LET proxies == {Identity(listings[i]) : i \in {j \in DOMAIN listings : listings[j].proxy > 0}}
    IN /\ Len(listings) >= 3
       /\ Cardinality(Markets(listings)) >= 2
       /\ Explicit(listings) >= 1 \/ Cardinality(proxies) >= 2

\* product_match_score of at least 0.20.
Matches(product, listings) ==
    LET found == UNION {listings[i].terms : i \in DOMAIN listings}
    IN product.terms # {} /\ 5 * Cardinality(product.terms \cap found) >= Cardinality(product.terms)

StrongestComparables(listings) ==
    LET Key(l) == <<-l.explicit, -l.confidence, -l.reviews, l.market, l.id>>
        ranked == SortedBy(listings, [i \in DOMAIN listings |-> Key(listings[i])])
    IN SubSeq(ranked, 1, Min({Len(listings), MaxComparables}))

\* The margin, per cent, at the delivered price in the middle; Unknown if fewer
\* than three are known or no variant has all its costs.
ProjectedMargin(listings, product) ==
    LET shown == {i \in DOMAIN listings : listings[i].delivered # Unknown}
        known == SortedBy(listings, [i \in shown |-> <<listings[i].delivered>>])
        n == Cardinality(shown)
        benchmark == known[n \div 2 + 1].delivered
        costs == {product.variants[i].cost + product.variants[i].shipping :
                    i \in {j \in DOMAIN product.variants :
                             /\ product.variants[j].available
                             /\ product.variants[j].cost # Unknown
                             /\ product.variants[j].shipping # Unknown}}
        left == benchmark - Min(costs) - RoundDiv(95 * benchmark, 1000) - 45
    IN IF n < 3 \/ costs = {} \/ benchmark = 0
       THEN [known |-> FALSE, percent |-> 0, target |-> FALSE]
       ELSE [known |-> TRUE, percent |-> RoundDiv(100 * left, benchmark),
             target |-> 10 * left >= 4 * benchmark]

Scores(listings, product) ==
    LET explicit == Explicit(listings)
        proxy == Proxy(listings)
        n == Len(listings)
        delivered == Cardinality({i \in 1..n : listings[i].delivered # Unknown})
        margin == ProjectedMargin(listings, product)
        feasible == IF margin.target THEN 90 ELSE AtLeastZero(margin.percent)
    IN [demand |-> Clamp(55 + 15 * explicit + 4 * proxy),
        evidence_confidence |-> RoundDiv(Total([i \in 1..n |-> listings[i].confidence]), n),
        purchase_intent |-> Clamp(60 + 4 * n),
        projected_margin |-> Clamp(margin.percent),
        undercut_feasibility |-> Clamp(feasible + delivered),
        competition_gap |-> IF 75 - 3 * n < 25 THEN 25 ELSE 75 - 3 * n,
        trend_velocity |-> Clamp(50 + 10 * explicit + 3 * proxy),
        longevity |-> 70]

\* In hundredths.
WeightedScore(s) ==
    25 * s.demand + 15 * (s.evidence_confidence + s.purchase_intent + s.projected_margin)
    + 10 * (s.undercut_feasibility + s.competition_gap) + 5 * (s.trend_velocity + s.longevity)

Qualifies(product, listings) == EvidenceGate(listings) /\ Matches(product, listings)

Opportunity(products, evidence, p, index) ==
    LET listings == StrongestComparables(evidence[p])
        scores == Scores(listings, products[p])
    IN [id |-> Digest[<<p, index>>], product |-> p, listings |-> listings, scores |-> scores,
        weighted |-> WeightedScore(scores)]

RankingKey(o) ==
    <<-o.weighted, -o.scores.evidence_confidence, -o.scores.projected_margin, o.id>>

\* The products that qualify in turn, NumOpportunities times, best first.  found
\* is the order in which products, a function like evidence, were researched.
BuildOpportunities(found, products, evidence) ==
    LET places == {i \in DOMAIN found : Qualifies(products[found[i]], evidence[found[i]])}
        seeds == Filtered(found, places)
        n == Cardinality(places)
        cycle == [i \in 1..NumOpportunities |->
                     Opportunity(products, evidence, seeds[1 + ((i - 1) % n)], i)]
    IN IF n = 0 THEN <<>>
       ELSE SortedBy(cycle, [i \in 1..NumOpportunities |-> RankingKey(cycle[i])])

\* What ProductOpportunity demands of the listings that are kept; research
\* fails on an opportunity that lacks it.
Valid(o) == EvidenceGate(o.listings)
=============================================================================
