--------------------------- MODULE MCScanningPlanner ---------------------------
(* An instance of ScanningPlanner for TLC: data sources 1 and 2, a rule, a rule *)
(* set and a scan of data source 1, each absent, as configured or different,    *)
(* held, or of a foreign kind.                                                  *)
EXTENDS ScanningPlanner, SequencesExt

CONSTANTS p1, p2, b1, b2

OfFirst == [scan \in Scan |-> 1]

Want(body, uses) == [place |-> p1, body |-> body, uses |-> uses]
Have(place, body, uses, holds) ==
  [place |-> place, body |-> body, uses |-> uses, holds |-> holds]
Held1(id) == {Have(p1, b2, {}, {h}) : h \in HoldsOf(id)}

Wants ==
  [id \in {1, 3, 4, 5} |->
     CASE id \in {1, 3} -> {Absent, Want(b1, {})}
       [] id = 4        -> {Absent, Want(b1, {}), Want(b1, {3})}
       [] OTHER         -> {Absent, Want(b1, {4})}]

Haves ==
  [id \in {1, 3, 4, 5} |->
     {Missing, UnsupportedKind, MisplacedKind, Have(p1, b1, {}, {})} \union Held1(id) \union
     CASE id = 1 -> {Have(p1, b2, {}, {}), Have(p2, b2, {}, {})}
       [] id = 3 -> {Have(p1, b2, {}, {})}
       [] id = 4 -> {UnsupportedType, Have(p1, b1, {3}, {})}
       [] OTHER  -> {Have(p1, b1, {4}, {}), Have(p2, b1, {}, {})}]

(* Resources are listed in an order of their own. *)
ListOf(wants) ==
  LET listed == {id \in DOMAIN wants : wants[id] # Absent}
      order == SetToSortSeq(listed, >)
  IN  [i \in DOMAIN order |-> [id |-> order[i], desired |-> wants[order[i]]]]

In(builder, api, resources, haves, sealed) ==
  [builder |-> builder, api |-> api, resources |-> resources, sealed |-> sealed,
   remote |-> [id \in Id |-> IF id \in DOMAIN haves THEN haves[id] ELSE Missing]]

Two == <<[id |-> 1, desired |-> Want(b1, {})], [id |-> 1, desired |-> Want(b2, {})]>>

Of(one, three, four, five) == 1 :> one @@ 3 :> three @@ 4 :> four @@ 5 :> five

PlannerInputs ==
  {In(2, 2, ListOf(Of(w1, w3, w4, w5)), Of(h1, h3, h4, h5), TRUE) :
     w1 \in Wants[1], w3 \in Wants[3], w4 \in Wants[4], w5 \in Wants[5],
     h1 \in Haves[1], h3 \in Haves[3], h4 \in Haves[4], h5 \in Haves[5]}
  \union
  {In(builder, 1, ListOf(1 :> w1 @@ 2 :> w2), 1 :> h1 @@ 2 :> h2, sealed) :
     builder \in {1, 2}, w1 \in Wants[1], w2 \in Wants[1],
     h1 \in Haves[1], h2 \in Haves[1], sealed \in BOOLEAN}
  \union
  {In(1, 2, ListOf(5 :> Want(b1, {4})), 1 :> Missing, TRUE), In(2, 2, Two, 1 :> Missing, TRUE)}
=============================================================================
