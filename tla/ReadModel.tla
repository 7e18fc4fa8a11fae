------------------------------ MODULE ReadModel -------------------------------
(***************************************************************************)
(* The resources of the v3 read model, their relationships, and what a     *)
(* capture can be asked for (capture_unified_catalog_remote_state_v3).     *)
(***************************************************************************)
EXTENDS Naturals, FiniteSets

CONSTANTS
  DomainId, Product, Term, Asset, Column,   \* resource ids: naturals, by type
  Absent,        \* no such resource
  Interpreted, Uninterpreted, Nameless,     \* how a normaliser finds a resource;
                 \* a nameless one has no valid id
  Includes,      \* the sets of options a capture may be given
  Catalogs,      \* what the service may hold at first: [resources, edges]
  PageSize,      \* DATA_COLUMN_QUERY_PAGE_SIZE
  MaxColumnPages,   \* MAX_LIST_PAGES
  MaxEdits       \* bound on the edits of others

Id == DomainId \union Product \union Term \union Asset \union Column
Type == {"businessDomain", "dataProduct", "glossaryTerm", "dataAsset", "dataColumn"}
TypeOf(id) ==
  CASE id \in DomainId -> "businessDomain"
    [] id \in Product  -> "dataProduct"
    [] id \in Term     -> "glossaryTerm"
    [] id \in Asset    -> "dataAsset"
    [] id \in Column   -> "dataColumn"

Form == {Interpreted, Uninterpreted, Nameless}

Edge == ((Product \union Term) \X Asset) \union (Term \X Column)
Families == {"dataProductToDataAsset", "glossaryTermToDataAsset", "glossaryTermToDataColumn"}
SourceOf(family) == IF family = "dataProductToDataAsset" THEN "dataProduct" ELSE "glossaryTerm"
TargetOf(family) == IF family = "glossaryTermToDataColumn" THEN "dataColumn" ELSE "dataAsset"
Family(edge) ==
  CHOOSE family \in Families :
    SourceOf(family) = TypeOf(edge[1]) /\ TargetOf(family) = TypeOf(edge[2])

(* Ids are naturals, in their order, finitely many and each of one type; what a resource *)
(* is found to be is no id.                                                               *)
ASSUME CatalogAssumption ==
  /\ Id \subseteq Nat /\ IsFiniteSet(Id) /\ MaxEdits \in Nat
  /\ DomainId \intersect (Product \union Term \union Asset \union Column) = {}
  /\ Product \intersect (Term \union Asset \union Column) = {}
  /\ Term \intersect (Asset \union Column) = {} /\ Asset \intersect Column = {}
  /\ Absent \notin Form /\ (Form \union {Absent}) \intersect Id = {}
  /\ PageSize \in Nat \ {0} /\ MaxColumnPages \in Nat \ {0}
  /\ Includes \subseteq SUBSET (Type \union Families)
  /\ \A c \in Catalogs :
       /\ c.resources \in [Id -> Form \union {Absent}] /\ c.edges \subseteq Edge
       /\ \A edge \in c.edges : c.resources[edge[1]] # Absent /\ c.resources[edge[2]] # Absent
===============================================================================
