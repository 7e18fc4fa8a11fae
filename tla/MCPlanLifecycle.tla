--------------------------- MODULE MCPlanLifecycle ---------------------------
(* Instances of PlanLifecycle for TLC: domains 1, 2 and 3, product 4 and terms *)
(* 5, 6 and 7.  Names are equal to ids unless an input says otherwise.         *)
EXTENDS PlanLifecycle

CONSTANTS k1, k2, k3, s1, s2

Name(id) ==
  CASE id \in {1, 4, 5} -> k1 [] id \in {2, 6} -> k2 [] id \in {3, 7} -> k3

Want(id, soft, domain, parent) ==
  [key |-> Name(id), soft |-> soft, domain |-> domain, parent |-> parent]
Have(id, soft, domain, parent) ==
  [key |-> Name(id), soft |-> soft, domain |-> domain, parent |-> parent,
   locked |-> FALSE, unsupported |-> FALSE]

Top(id) == Want(id, Unmanaged, NoLink, NoLink)
Root == Have(1, Unset, NoLink, NoLink)

Of(one, two, three, four, five, six, seven) ==
  [id \in Id |-> CASE id = 1 -> one [] id = 2 -> two [] id = 3 -> three [] id = 4 -> four
                   [] id = 5 -> five [] id = 6 -> six [] id = 7 -> seven]
WithoutTerms(none, one, two, three, four) == Of(one, two, three, four, none, none, none)

In(d, r, scope, strays, same) ==
  [desired |-> d, remote |-> r, scope |-> scope, strays |-> strays, sameTenant |-> same]

Parents(ids, id) == (ids \ {id}) \union {NoLink}
All == {"dataProduct", "glossaryTerm"}

-----------------------------------------------------------------------------
(* Domains with any parents, and a product in one of them. *)
DomainWants(d) ==
  {Absent} \union {[Top(d) EXCEPT !.parent = p] : p \in Parents(Domain, d)}
    \union (IF d = 3 THEN {[Top(3) EXCEPT !.key = k1]} ELSE {})
DomainHaves(d) ==
  {Missing} \union {Have(d, Unset, NoLink, p) : p \in Parents(Domain, d)}
    \union (IF d = 2 THEN {Uninterpreted} ELSE {})
    \union (IF d = 1 THEN {[Root EXCEPT !.unsupported = TRUE]} ELSE {})

ProductIn(d) == Want(4, Unmanaged, d, NoLink)
Product4 == Have(4, Unset, 1, NoLink)

(* An input is chosen as a tuple, its kind first: TLC joins sets of tuples fast. *)
Domains ==
  {"domains"} \X DomainWants(1) \X DomainWants(2) \X DomainWants(3)
    \X DomainHaves(1) \X DomainHaves(2) \X DomainHaves(3) \X {Absent, ProductIn(3)}
DomainsOf(c) ==
  In(WithoutTerms(Absent, c[2], c[3], c[4], c[8]),
     WithoutTerms(Missing, c[5], c[6], c[7], Missing), All, 0, TRUE)

Scoped ==
  {"scoped"} \X DomainWants(2) \X DomainWants(3) \X {All, {}}
    \X {Missing, Uninterpreted, Product4} \X BOOLEAN
ScopedOf(c) ==
  In(WithoutTerms(Absent, Absent, c[2], c[3], ProductIn(2)),
     WithoutTerms(Missing, Root, Missing, Missing, c[5]), c[4], 1, c[6])

Products ==
  {"products"} \X DomainWants(3) \X Domain \X DomainHaves(2)
    \X {[Product4 EXCEPT !.soft = s, !.locked = l] : s \in {s1, Unset}, l \in BOOLEAN}
    \X {0, 1}
ProductsOf(c) ==
  In(WithoutTerms(Absent, Absent, Absent, c[2], ProductIn(c[3])),
     WithoutTerms(Missing, Root, c[4], Missing, c[5]), All, c[6], TRUE)

-----------------------------------------------------------------------------
(* Terms with any parents, in domain 1, which exists, or domain 2. *)
TermWants(t) ==
  {Absent} \union {Want(t, Unmanaged, d, p) : d \in {1, 2}, p \in Parents(Term, t)}
TermHaves(t) ==
  {Missing} \union {Have(t, Unset, 1, p) : p \in Parents(Term, t)}
    \union (IF t = 5 THEN {Uninterpreted} ELSE {})
    \union (IF t = 6 THEN {[Have(6, Unset, 1, NoLink) EXCEPT !.locked = TRUE]} ELSE {})

Seconds ==
  {<<Absent, Missing>>, <<Top(2), Missing>>, <<Absent, Uninterpreted>>}

Terms ==
  {"terms"} \X Seconds \X TermWants(5) \X TermWants(6) \X TermWants(7)
    \X TermHaves(5) \X TermHaves(6) \X {Missing, Have(7, Unset, 1, 5)}
TermsOf(c) ==
  In(Of(Absent, c[2][1], Absent, Absent, c[3], c[4], c[5]),
     Of(Root, c[2][2], Missing, Missing, c[6], c[7], c[8]), All, 0, TRUE)

-----------------------------------------------------------------------------
(* Plans to be carried out: domain 1, its child 2, product 4 and terms in domain 1. *)
(* Whether the product's optional fields are configured is what "softs" says.       *)
OwnedWith(softs) ==
  {"owned"} \X {Absent, Want(2, s2, NoLink, 1)}
    \X {Want(4, s, 1, NoLink) : s \in softs}
    \X {Want(5, Unmanaged, 1, p) : p \in Parents(Term, 5)}
    \X ({Absent} \union {Want(6, s, 1, p) : s \in {Unmanaged, s2}, p \in Parents(Term, 6)})
    \X ({Absent} \union {Want(7, s1, 1, p) : p \in Parents(Term, 7)})
    \X {Missing, Have(4, s1, 1, NoLink)}
    \X {Missing, Have(5, s1, 1, NoLink)}
    \X ({Missing} \union {Have(6, Unset, 1, p) : p \in {NoLink, 5}})
OwnedOf(c) ==
  In(Of(Absent, c[2], Absent, c[3], c[4], c[5], c[6]),
     Of([Root EXCEPT !.soft = s1], Have(2, s1, NoLink, 1), Missing, c[7], c[8], c[9], Missing),
     All, 0, TRUE)

InputOf(c) ==
  CASE c[1] = "domains" -> DomainsOf(c) [] c[1] = "scoped" -> ScopedOf(c)
    [] c[1] = "products" -> ProductsOf(c) [] c[1] = "terms" -> TermsOf(c)
    [] c[1] = "owned" -> OwnedOf(c)

Owned == OwnedWith({s2})
EveryInput ==
  {InputOf(c) : c \in Domains \union Scoped \union Products \union Terms \union Owned}

(* A configuration of product 4 that says what its optional fields are, or not. *)
ConfigurationsWith(softs) ==
  {c \in [Id -> Desired \union {Absent}] : c[4] # Absent /\ c[4].soft \in softs}
OwnedConfigurations == ConfigurationsWith({s2})
OtherConfigurations == ConfigurationsWith({Unmanaged})

TermInputs == {TermsOf(c) : c \in Terms}
NoConfigurations == {}

NotOwned == {OwnedOf(c) : c \in OwnedWith({Unmanaged})}
=============================================================================
