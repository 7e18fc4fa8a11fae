------------------------ MODULE MCUnifiedCatalogApply ------------------------
(* Instances of UnifiedCatalogApply for TLC: one small catalog, plans over it, *)
(* and the ways an execution may be set up wrongly.                            *)
EXTENDS UnifiedCatalogApply

CONSTANTS d1, d2, p1, t1, t2,   \* ids
          here, elsewhere,      \* targets
          k1, k2, s1, s2, f0, f1

Res(k, s, f, l) == [key |-> k, soft |-> s, deferred |-> f, link |-> l]

(* d1 is the root domain and d2 its child; t1 may be the parent of t2. *)
CatalogWith(terms) ==
  [id \in Id |->
     CASE id = d1 -> Res(k1, s1, f1, NoLink)
       [] id = d2 -> Res(k1, s1, f1, d1)
       [] id = p1 -> Res(k1, s1, f1, d1)
       [] id = t1 -> IF t1 \in terms THEN Res(k1, s1, f0, NoLink) ELSE Missing
       [] id = t2 -> IF t2 \in terms THEN Res(k1, s1, f1, t1) ELSE Missing]

Create(id) == [id |-> id, action |-> "create"]
Replace(id) == [id |-> id, action |-> "replace"]

WantDefault ==
  [id \in Id |->
     [key |-> k2, soft |-> IF id = p1 THEN Unmanaged ELSE s2,
      link |-> CASE id = d2 -> d1 [] id = p1 -> d1 [] id = t2 -> t1 [] OTHER -> NoLink]]

Scopes == {{"dataProduct"}, {"glossaryTerm"}, {"dataProduct", "glossaryTerm"}}
CapturedOf(catalogue, scope) ==
  [id \in Id |-> IF TypeOf(id) \in scope \union {"businessDomain"} THEN catalogue[id]
                                                                  ELSE Unread]

JobFor(ops, want, catalogue, scope) ==
  LET material == [target |-> here, catalog |-> CapturedOf(catalogue, scope)] IN
  [plan |-> [valid |-> TRUE, eligible |-> TRUE, target |-> here, remote |-> material,
             ops |-> ops, desired |-> want],
   artifact |-> [valid |-> TRUE, material |-> material, scope |-> scope],
   client |-> [bound |-> TRUE, target |-> here, endpoint |-> here]]

Both == {"dataProduct", "glossaryTerm"}

Situation(ops, want, terms, scope) ==
  [job |-> JobFor(ops, want, CatalogWith(terms), scope), catalog |-> CatalogWith(terms)]

(* Plans the executor carries out: a product and a new term under a new term. *)
NewTerms == Situation(<<Replace(p1), Create(t1), Create(t2)>>, WantDefault, {}, Both)

(* A domain kept under its parent, and an existing term moved under another. *)
MovedTerm ==
  Situation(<<Replace(d2), Replace(t2)>>, WantDefault, {t1, t2}, {"glossaryTerm"})

(* A replace of a product that asks for what it has, before a create. *)
IdleReplace ==
  Situation(<<Replace(p1), Create(t1)>>, [WantDefault EXCEPT ![p1].key = k1], {}, Both)

CarriedOut == {NewTerms, IdleReplace}
Moved == {MovedTerm}

(* Executions that are set up wrongly, each in one way. *)
Good == Situation(<<Create(t1)>>, WantDefault, {}, Both)
WrongSetups ==
  {[Good EXCEPT !.job.plan.valid = FALSE],
   [Good EXCEPT !.job.plan.eligible = FALSE],
   [Good EXCEPT !.job.artifact.valid = FALSE],
   [Good EXCEPT !.job.artifact.material.catalog[p1] = Missing],
   [Good EXCEPT !.job.artifact.material.target = elsewhere,
                !.job.plan.remote.target = elsewhere],
   [Good EXCEPT !.job.client.bound = FALSE],
   [Good EXCEPT !.job.client.target = elsewhere],
   [Good EXCEPT !.job.client.endpoint = elsewhere]}

(* Plans with an operation the executor must not carry out, after one it could. *)
Cleared == [WantDefault EXCEPT ![t2].link = NoLink]
WithoutChild == [CatalogWith({}) EXCEPT ![d2] = Missing]
Refused ==
  {[job |-> JobFor(<<Create(d2), Create(t1)>>, WantDefault, WithoutChild, Both),
    catalog |-> WithoutChild],
   Situation(<<Replace(p1), Replace(d2)>>,
             [WantDefault EXCEPT ![d2].link = NoLink], {}, Both),
   Situation(<<Replace(p1), Replace(t2)>>, Cleared, {t1, t2}, Both),
   Situation(<<Replace(d2), Replace(p1)>>,
             [WantDefault EXCEPT ![p1].link = d2], {}, Both),
   Situation(<<Replace(p1), Create(t2)>>, WantDefault, {}, Both),
   [Good EXCEPT !.job.plan.ops = <<>>]}

(* t1 becomes a child only after the capture: the desired root term is refused. *)
RootTerm == Situation(<<Replace(t1)>>, WantDefault, {t1, t2}, {"glossaryTerm"})

Gated == WrongSetups \union Refused \union {Good, RootTerm}

EverySituation == CarriedOut \union Moved \union Gated
=============================================================================
