---------------------------- MODULE MCScanningApply ----------------------------
(* Instances of ScanningApply for TLC: one account, plans over it, and the ways *)
(* an execution may be set up wrongly.                                          *)
EXTENDS ScanningApply, TLC

CONSTANTS p1, p2, b1, b2, here, elsewhere

OfFirst == [scan \in Scan |-> 1]

Want1(body, uses) == [place |-> p1, body |-> body, uses |-> uses]
Have(body, uses) == [place |-> p1, body |-> body, uses |-> uses, holds |-> {}]

Over(known, others) == [id \in Id |-> IF id \in DOMAIN known THEN known[id] ELSE others]

PlanOf(v, known, account) ==
  LET wanted == Over(known, Absent)
      remote == View(v, account)
  IN  Document(v, here, wanted, remote, ChangeSet(v, wanted, remote))

Situation(v, known, account) ==
  [plan |-> PlanOf(v, known, account), endpoint |-> here, catalog |-> account]

(* Data source 1 holds scan 5, which runs rule set 4, which includes rule 3. *)
Fresh ==
  Situation(2, 1 :> Want1(b1, {}) @@ 3 :> Want1(b1, {}) @@ 4 :> Want1(b1, {3})
                 @@ 5 :> Want1(b1, {4}),
            Over(4 :> Have(b2, {}), Missing))
Settled ==
  Situation(2, 1 :> Want1(b1, {}) @@ 4 :> Want1(b1, {}) @@ 5 :> Want1(b2, {4}),
            Over(1 :> Have(b1, {}) @@ 3 :> Have(b1, {}) @@ 4 :> Have(b2, {3})
                   @@ 5 :> Have(b1, {4}), Missing))
Nothing == Situation(2, 1 :> Want1(b1, {}), Over(1 :> Have(b1, {}), Missing))
Foreign ==
  Situation(2, <<>>, Over(3 :> UnsupportedKind @@ 1 :> Have(b1, {}) @@ 5 :> UnsupportedKind,
                          Missing))

(* Version 1 knows data sources alone. *)
DataSourcesOnly ==
  Situation(1, 1 :> Want1(b2, {}) @@ 2 :> Want1(b1, {}),
            Over(1 :> Have(b1, {}) @@ 3 :> Have(b1, {}) @@ 5 :> Have(b1, {}), Missing))

CarriedOut == {Fresh, Settled, Nothing, DataSourcesOnly}

(* Executions that are set up wrongly, each in one way; a plan without operations. *)
Gated ==
  {Foreign,
   [Settled EXCEPT !.plan.sealed = FALSE],
   [Settled EXCEPT !.plan.eligibility = "blocked"],
   [Fresh EXCEPT !.plan.ops = <<>>],
   [Fresh EXCEPT !.plan.ops = [i \in 1..4 |-> Fresh.plan.ops[5 - i]]],
   [Fresh EXCEPT !.catalog = Over(<<>>, Missing)],
   [Fresh EXCEPT !.endpoint = elsewhere]}

EverySituation == CarriedOut \union Gated
=============================================================================
