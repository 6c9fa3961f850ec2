---------------------------- MODULE VariantMatrix ---------------------------
(***************************************************************************)
(* The variants of a Printify product that one Etsy listing offers         *)
(* (reduce_variation_axes in domain/opportunities.py): a complete matrix   *)
(* of option values within Etsy's and Printify's limits, each combination  *)
(* by its cheapest variant.  A variant's options map axes to values; both  *)
(* are numbers, in the order of their names.                               *)
(***************************************************************************)
EXTENDS Arrangements, FiniteSetsExt

CONSTANT MaxEnabled    \* PRINTIFY_MAX_ENABLED_VARIANTS

ASSUME MatrixAssumption == MaxEnabled \in Nat \ {0}

Available(vs) == {i \in DOMAIN vs : vs[i].available}
AxesOf(vs) == UNION {DOMAIN vs[i].options : i \in DOMAIN vs}
With(vs, axis) == {i \in DOMAIN vs : axis \in DOMAIN vs[i].options}
ValuesOn(vs, axis) == {vs[i].options[axis] : i \in With(vs, axis)}
Holding(vs, axis, value) == {i \in With(vs, axis) : vs[i].options[axis] = value}

InventoryProductLimit(axes) ==
    CASE axes = 0 -> 1 [] axes = 1 -> 70 [] axes = 2 -> 4900 [] axes = 3 -> 400

\* The axes with the most values, the first by name among equals.
KeptAxes(vs, maxAxes) ==
    LET Richness(axis) == Cardinality(ValuesOn(vs, axis))
        Ahead(axis) == {b \in AxesOf(vs) : \/ Richness(b) > Richness(axis)
                                           \/ Richness(b) = Richness(axis) /\ b < axis}
    IN {axis \in AxesOf(vs) : Cardinality(Ahead(axis)) < maxAxes}

\* The value most variants have, the first met among equals.
Preferred(vs, axis) ==
    CHOOSE x \in ValuesOn(vs, axis) :
        \A y \in ValuesOn(vs, axis) \ {x} :
            LET hx == Holding(vs, axis, x)
                hy == Holding(vs, axis, y)
            IN \/ Cardinality(hx) > Cardinality(hy)
               \/ Cardinality(hx) = Cardinality(hy) /\ Min(hx) < Min(hy)

\* One value of every further axis is kept; the axis itself stays an option.
Collapsed(vs, maxAxes) ==
    LET further == AxesOf(vs) \ KeptAxes(vs, maxAxes)
        Stays(i) == \A axis \in further : i \in Holding(vs, axis, Preferred(vs, axis))
    IN Filtered(vs, {i \in DOMAIN vs : Stays(i)})

RankedByCost(vs) ==
    SortedBy(vs, [i \in DOMAIN vs |-> <<vs[i].cost, vs[i].id>>])

Combinations(vs) ==
    {vs[i].options : i \in {j \in DOMAIN vs : DOMAIN vs[j].options = AxesOf(vs)}}

\* A value's place on its axis: those in most combinations first, then the
\* one whose first variant is cheaper.
Place(vs, axis, value) ==
    LET In(x) == Cardinality({k \in Combinations(vs) : k[axis] = x})
        First(x) == Min(Holding(vs, axis, x))
        present == {k[axis] : k \in Combinations(vs)}
    IN 1 + Cardinality({x \in present : \/ In(x) > In(value)
                                        \/ In(x) = In(value) /\ First(x) < First(value)})

Places(vs) ==
    [axis \in AxesOf(vs) |->
        [x \in {k[axis] : k \in Combinations(vs)} |-> Place(vs, axis, x)]]

\* A prefix is how many of the first values of every axis to take.
Prefixes(places, maximum) ==
    LET Lengths(axis) == 1..Min({Cardinality(DOMAIN places[axis]), maximum})
        longest == Max({1} \cup {Max(Lengths(axis)) : axis \in DOMAIN places})
    IN {l \in [DOMAIN places -> 1..longest] :
            \A axis \in DOMAIN places : l[axis] \in Lengths(axis)}

\* How many combinations a prefix' values have.
Size(prefix) ==
    LET longest == Max({1} \cup {prefix[axis] : axis \in DOMAIN prefix})
    IN Cardinality({k \in [DOMAIN prefix -> 1..longest] :
                       \A axis \in DOMAIN prefix : k[axis] <= prefix[axis]})

\* The existing combinations of a prefix' values.
Inside(keys, places, prefix) ==
    {k \in keys : \A axis \in DOMAIN k : places[axis][k[axis]] <= prefix[axis]}

\* Mutant: a matrix with holes is taken for a complete one.
Holed(keys, places, prefix) == Inside(keys, places, prefix) # {}

Complete(keys, places, prefix) == Cardinality(Inside(keys, places, prefix)) = Size(prefix)

\* The largest, then the one with the most values in all, then the longest on
\* the first axes.
Better(l, m) ==
    \/ Size(l) > Size(m)
    \/ Size(l) = Size(m) /\ Total(l) > Total(m)
    \/ /\ Size(l) = Size(m) /\ Total(l) = Total(m)
       /\ \E axis \in DOMAIN l : /\ l[axis] > m[axis]
                                 /\ \A b \in DOMAIN l : b < axis => l[b] = m[b]

BestKeys(keys, places, maximum) ==
    LET Fits(prefix) == Size(prefix) <= maximum /\ Complete(keys, places, prefix)
        fitting == {prefix \in Prefixes(places, maximum) : Fits(prefix)}
    IN IF keys = {} \/ fitting = {} THEN {}
       ELSE Inside(keys, places,
                   CHOOSE l \in fitting : \A m \in fitting \ {l} : Better(l, m))

ReduceVariationAxes(variants, maxAxes, maximum) ==
    LET ranked == RankedByCost(Collapsed(Filtered(variants, Available(variants)), maxAxes))
        keys == BestKeys(Combinations(ranked), Places(ranked), maximum)
        Chosen(i) == /\ ranked[i].options \in keys
                     /\ \A j \in 1..(i - 1) : ranked[j].options # ranked[i].options
        chosen == {i \in DOMAIN ranked : Chosen(i)}
    IN IF ranked = <<>> THEN <<>>
       ELSE IF AxesOf(ranked) = {} THEN SubSeq(ranked, 1, Min({maximum, Len(ranked)}))
       ELSE Filtered(ranked, chosen)
=============================================================================
