------------------------ MODULE MCCatalogPreparation ------------------------
(***************************************************************************)
(* Instances of CatalogPreparation for TLC.  A few worlds in which things  *)
(* go wrong, for the order of events; and many in which nothing does, for  *)
(* the prices, the variants and the evidence.                              *)
(***************************************************************************)
EXTENDS CatalogPreparation, TLC

CONSTANTS a1, a2

MCFreshness == [browser |-> 24, search_fallback |-> 72]
MCDigest == [x \in (1..MaxProducts) \X (1..NumOpportunities) |->
                NumOpportunities * x[1] + 1 - x[2]]

Variant(id, cost, shipping, options, surfaces) ==
    [id |-> id, available |-> TRUE, supported |-> TRUE, cost |-> cost,
     shipping |-> shipping, options |-> options, surfaces |-> surfaces]

Listing(market, id, explicit, proxy, delivered) ==
    [market |-> market, id |-> id, terms |-> {1}, explicit |-> explicit, proxy |-> proxy,
     delivered |-> delivered, confidence |-> 65, reviews |-> 0, image |-> TRUE,
     method |-> "browser", age |-> 0]

Evidence(prices) == <<Listing(1, 1, 1, 0, prices[1]), Listing(2, 1, 0, 1, prices[2]),
                      Listing(1, 2, 0, 1, prices[3])>>

ProductWith(variants) == [terms |-> {1, 2}, offered |-> TRUE, variants |-> variants]

World(products, evidence, ip, originality, patient, count) ==
    [products |-> products, evidence |-> evidence, ip |-> ip, originality |-> originality,
     patient |-> patient, trouble |-> count, dollars |-> 60]

Calm(product, evidence) == World(<<product>>, <<evidence>>, FALSE, FALSE, TRUE, 0)

-----------------------------------------------------------------------------
Mug == ProductWith(<<Variant(1, 700, 400, 1 :> 1, {1}), Variant(2, 650, 400, 1 :> 2, {1, 2})>>)
Card == ProductWith(<<Variant(1, 300, 100, <<>>, {3})>>)
Seen == Evidence(<<2999, 2599, 3499>>)

\* Two products and three opportunities, of which two are tried; and one
\* product for all, where more goes wrong.
Stormy ==
    {World(<<Mug, Card>>, <<Seen, Seen>>, TRUE, TRUE, patient, 2) : patient \in BOOLEAN}
    \cup {World(<<Mug, Card>>, <<Seen, Seen>>, ip, ~ip, patient, 1) : ip, patient \in BOOLEAN}
    \cup {World(<<Card>>, <<Seen>>, FALSE, FALSE, TRUE, 3)}

-----------------------------------------------------------------------------
\* One variant: every cost around the price boundaries, with the median just
\* above and below them.
Priced ==
    {Calm(ProductWith(<<Variant(1, cost, shipping, <<>>, {1})>>), Evidence(<<m, m, m>>)) :
        cost \in 500..550, shipping \in {333},
        m \in {Unknown, 1298, 1299, 1300, 1398, 1400, 1998, 1999, 2000, 2500}}

Uneven ==
    {Calm(ProductWith(<<Variant(1, 600, 100, <<>>, {1}), Variant(2, 900, 100, <<>>, {1})>>),
          <<Listing(1, 1, 1, 0, p), Listing(2, 1, 0, 1, q), Listing(1, 2, 0, 1, r),
            Listing(3, 1, 0, 1, s)>>) :
        p \in {1899, 2001}, q \in {Unknown, 1898, 1900}, r \in {1901, 2199},
        s \in {Unknown, 1902, 2100}}

-----------------------------------------------------------------------------
\* Every set of colour-and-size combinations of a product, the cheapest first or
\* last, with a limit of enabled variants that some of them exceed.
Grid == {1, 2, 3} \X {1, 2}
Numbered(cells, cost(_)) ==
    LET Nth(n) == CHOOSE c \in cells : Cardinality({d \in cells : Before(d, c) \/ d = c}) = n
    IN [n \in 1..Cardinality(cells) |->
          Variant(n, cost(n), 300, (1 :> Nth(n)[1]) @@ (2 :> Nth(n)[2]), {1})]
Matrices ==
    {Calm(ProductWith(Numbered(cells, LAMBDA n : 500 + n)), Seen) :
        cells \in (SUBSET Grid) \ {{}}}
    \cup {Calm(ProductWith(Numbered(cells, LAMBDA n : 600 - n)), Seen) :
        cells \in (SUBSET Grid) \ {{}}}

\* The same combination twice, an option that is missing, a variant that is
\* withdrawn, not printable or not delivered, and three axes.
Odd == Variant(1, 500, 300, (1 :> 1) @@ (2 :> 1), {1})
Irregular ==
    {Calm(ProductWith(<<Odd, v>>), Seen) :
        v \in {[Odd EXCEPT !.id = 2, !.cost = c] : c \in {400, 500, Unknown}}
              \cup {[Odd EXCEPT !.id = 2, !.options = 1 :> 2],
                    [Odd EXCEPT !.id = 2, !.options = <<>>],
                    [Odd EXCEPT !.id = 2, !.cost = 400, !.available = FALSE],
                    [Odd EXCEPT !.id = 2, !.options[2] = 2, !.supported = FALSE],
                    [Odd EXCEPT !.id = 2, !.options[2] = 2, !.shipping = Unknown],
                    [Odd EXCEPT !.id = 2, !.options = (3 :> 1) @@ @],
                    [Odd EXCEPT !.id = 2, !.surfaces = {}]}}

Deep == ProductWith(<<Variant(1, 500, 300, (1 :> 1) @@ (2 :> 1) @@ (3 :> 1), {1}),
                      Variant(2, 500, 300, (1 :> 1) @@ (2 :> 1) @@ (3 :> 2), {1})>>)

-----------------------------------------------------------------------------
\* Evidence from one marketplace, too little, without signals, stale, without
\* pictures or of something else; and the kept listings from one marketplace.
Thin(i, l) == Calm(Card, [Seen EXCEPT ![i] = l])
Researches ==
    {Calm(Card, SubSeq(Seen, 1, n)) : n \in 0..2}
    \cup {Thin(2, [Seen[2] EXCEPT !.market = 1, !.id = 3]),
          Thin(1, [Seen[1] EXCEPT !.explicit = 0]),
          Thin(1, [Seen[1] EXCEPT !.explicit = 0, !.proxy = 1]),
          Thin(1, [Seen[1] EXCEPT !.age = 25]),
          Thin(1, [Seen[1] EXCEPT !.age = 25, !.method = "search_fallback"]),
          Thin(3, [Seen[3] EXCEPT !.image = FALSE])}
    \cup {Calm([Card EXCEPT !.terms = t], Seen) : t \in {{}, {2}, 1..5, 1..6}}
    \cup {Calm(Card, Seen \o <<Listing(1, 3, 1, 0, 2999), Listing(1, 4, 1, 0, 2999)>>),
          Calm([Card EXCEPT !.variants[1].surfaces = {}], Seen),
          Calm([Card EXCEPT !.variants[1].shipping = Unknown], Seen),
          Calm([Card EXCEPT !.variants[1].available = FALSE], Seen)}

MCWorlds == Stormy \cup Priced \cup Uneven \cup Matrices \cup Irregular \cup Researches
            \cup {Calm(Deep, Seen)}

DeepWorlds == {Calm(Deep, Seen)}
=============================================================================
