--------------------------- MODULE ReadModelCapture ---------------------------
(***************************************************************************)
(* capture_unified_catalog_remote_state_v3 with all it can be asked for:   *)
(* the resources of each type are enumerated one type after the other,     *)
(* then the relationships of every product and every term found are        *)
(* listed, while others edit the catalog.                                  *)
(*                                                                         *)
(* Every listing comes in pages, and others may edit between two of them.  *)
(* Data columns are read by position (query_data_columns); the others      *)
(* follow links, and a link is to a position as well.  What a link may be, *)
(* and how many are followed, is in LinkPaging.                            *)
(***************************************************************************)
EXTENDS ReadModel

VARIABLES
  include,    \* the options of this capture
  resources, edges,   \* the service: resources and relationships
  edits,      \* edits others have made
  capturePc,  \* where the capture is, or how it ended
  captured,   \* resources read
  currentOffset, columnPages,   \* position of the next page, and pages of columns requested
  todo,       \* relationship listings to come: <<source, target type>>
  listed,     \* relationships read
  repeated,   \* whether pages showed an id, or a relationship, twice
  ever,       \* history: resources and relationships there were at some time
  throughout, \* history: those there were all the time, unedited
  finished,   \* history: listings read to their last page
  shifts      \* history: items others took from what was already read of a listing

serviceVars == <<resources, edges>>
foundVars == <<captured, listed, repeated>>
queryVars == <<currentOffset, columnPages>>
factVars == <<ever, throughout>>
historyVars == <<factVars, finished, shifts>>
captureVars ==
  <<include, serviceVars, edits, capturePc, foundVars, queryVars, todo, historyVars>>

CaptureFailure == {"missing capability", "read failed", "nameless source", "duplicate id"}
CaptureEnded == CaptureFailure \union {"built"}

-----------------------------------------------------------------------------
(* Enumerations, in their order. *)

Order == <<"businessDomain", "dataProduct", "glossaryTerm", "dataAsset", "dataColumn">>
Asked(type) == type = "businessDomain" \/ type \in include
AskedFamilies(type) == {family \in Families \intersect include : SourceOf(family) = type}

(* Where the capture goes when the first n types are done. *)
AfterTypes(n) ==
  LET rest == {i \in DOMAIN Order : i > n /\ Asked(Order[i])} IN
  IF rest = {} THEN "list products"
  ELSE Order[CHOOSE i \in rest : \A j \in rest : i <= j]

(* Relationships can only be asked for with their sources. *)
Prerequisites == \A family \in Families \intersect include : SourceOf(family) \in include

RefuseOptions ==
  /\ capturePc = "start" /\ ~Prerequisites
  /\ capturePc' = "missing capability"
  /\ UNCHANGED <<include, serviceVars, edits, foundVars, queryVars, todo, historyVars>>

AcceptOptions ==
  /\ capturePc = "start" /\ Prerequisites
  /\ capturePc' = "businessDomain"
  /\ UNCHANGED <<include, serviceVars, edits, foundVars, queryVars, todo, historyVars>>

(* Any request of the capture may fail, or answer with what is no page. *)
ReadFails ==
  /\ capturePc \in Type \/ (capturePc \in {"products", "terms"} /\ todo # {})
  /\ capturePc' = "read failed"
  /\ UNCHANGED <<include, serviceVars, edits, foundVars, queryVars, todo, historyVars>>

-----------------------------------------------------------------------------
(* Pages.  A listing is <<type>>, of its resources, or <<source, target type>>, of its *)
(* relationships; its collection is what it would show if it were read now.            *)

(* By id, and the assets of a term before its columns. *)
First ==
  CHOOSE l \in todo :
    \A other \in todo : l[1] < other[1] \/ (l[1] = other[1] /\ (l[2] = "dataAsset" \/ l = other))

Current == IF capturePc \in Type THEN <<capturePc>> ELSE First

CollectionIn(r, e) ==
  IF capturePc \in Type THEN {id \in Id : TypeOf(id) = capturePc /\ r[id] # Absent}
  ELSE {id \in Id : todo # {} /\ TypeOf(id) = First[2] /\ <<First[1], id>> \in e}
Collection == CollectionIn(resources, edges)

Place(ids, id) == Cardinality({other \in ids : other < id})
Rest == {id \in Collection : Place(Collection, id) >= currentOffset}
ItemsOf(answer) == {id \in Rest : Place(Rest, id) < answer.size}

(* With links: a page of any size, and a link when there is more. *)
LinkedPages ==
  {[size |-> n, link |-> n < Cardinality(Rest)] :
     n \in {k \in 0..Cardinality(Rest) : k = 0 => Rest = {}}}

FollowLink(answer) == currentOffset' = currentOffset + answer.size /\ UNCHANGED finished
Finish == currentOffset' = 0 /\ finished' = finished \union {Current}

(* A resource without an id is no repetition of one that has it. *)
Gather(page) ==
  /\ captured' = [id \in Id |-> IF id \in page /\ captured[id] # Nameless THEN resources[id]
                                                                          ELSE captured[id]]
  /\ repeated' = (repeated \/ \E id \in page : captured[id] \notin {Absent, Nameless}
                                               /\ resources[id] # Nameless)

Enumerate(n) ==
  /\ capturePc = Order[n] /\ capturePc # "dataColumn"
  /\ \E answer \in LinkedPages :
       /\ Gather(ItemsOf(answer))
       /\ IF answer.link THEN FollowLink(answer) /\ UNCHANGED capturePc
                         ELSE Finish /\ capturePc' = AfterTypes(n)
  /\ UNCHANGED <<include, serviceVars, edits, columnPages, todo, listed, factVars, shifts>>

-----------------------------------------------------------------------------
(* Data columns. *)

(* What the service may answer: a page as long as asked for, or a shorter one with *)
(* a link to say there is more; a full page may have a link too, when there is.    *)
(* The link is not followed.                                                       *)
Answers ==
  LET full == IF Cardinality(Rest) < PageSize THEN Cardinality(Rest) ELSE PageSize IN
  {[size |-> full, link |-> FALSE]} \union
    {[size |-> n, link |-> TRUE] : n \in {k \in 1..full : k < Cardinality(Rest)}}

Querying == capturePc = "dataColumn"

ExceedPageLimit ==
  /\ Querying /\ columnPages = MaxColumnPages
  /\ capturePc' = "read failed"
  /\ UNCHANGED <<include, serviceVars, edits, foundVars, queryVars, todo, historyVars>>

Repeated(answer) == \E id \in ItemsOf(answer) : captured[id] # Absent

(* A column that an earlier page had: seen_ids. *)
RepeatedColumn ==
  /\ Querying /\ columnPages < MaxColumnPages
  /\ \E answer \in Answers : Repeated(answer)
  /\ capturePc' = "duplicate id"
  /\ UNCHANGED <<include, serviceVars, edits, foundVars, queryVars, todo, historyVars>>

(* An empty page without a link, or a short one, is the last. *)
IsLast(answer) == ~answer.link /\ answer.size < PageSize

(* Mutant: the next page starts a page size further, however many columns came. *)
ByPageSize(answer) == currentOffset + PageSize

NextOffset(answer) == currentOffset + answer.size

TakeColumns(answer) ==
  /\ Querying /\ columnPages < MaxColumnPages /\ ~Repeated(answer)
  /\ columnPages' = columnPages + 1
  /\ Gather(ItemsOf(answer))
  /\ IF IsLast(answer) THEN Finish /\ capturePc' = AfterTypes(5)
     ELSE currentOffset' = NextOffset(answer) /\ UNCHANGED <<finished, capturePc>>
  /\ UNCHANGED <<include, serviceVars, edits, todo, listed, factVars, shifts>>

Query == ExceedPageLimit \/ RepeatedColumn \/ \E answer \in Answers : TakeColumns(answer)

-----------------------------------------------------------------------------
(* Relationships: every source that was found, whether it could be interpreted *)
(* or not, unless one of them has no id to ask with.                           *)

Sources(type) == {id \in Id : TypeOf(id) = type /\ captured[id] # Absent}

Listings(type) ==
  {<<id, TargetOf(family)>> : id \in Sources(type), family \in AskedFamilies(type)}

Blocked(type) ==
  AskedFamilies(type) # {} /\ \E id \in Sources(type) : captured[id] = Nameless

CollectSources(type, at, next) ==
  /\ capturePc = at
  /\ IF Blocked(type) THEN capturePc' = "nameless source" /\ UNCHANGED todo
                       ELSE capturePc' = next /\ todo' = Listings(type)
  /\ UNCHANGED <<include, serviceVars, edits, foundVars, queryVars, historyVars>>

CollectProducts == CollectSources("dataProduct", "list products", "products")

(* Mutant: after the products come the products. *)
CollectProductsAgain == todo = {} /\ CollectSources("dataProduct", "products", "products")

CollectTerms == todo = {} /\ CollectSources("glossaryTerm", "products", "terms")

(* The relationships of a source that is gone are not an empty list. *)
SourceGone ==
  /\ capturePc \in {"products", "terms"} /\ todo # {}
  /\ resources[First[1]] = Absent
  /\ capturePc' = "read failed"
  /\ UNCHANGED <<include, serviceVars, edits, foundVars, queryVars, todo, historyVars>>

ListRelationships ==
  /\ capturePc \in {"products", "terms"} /\ todo # {}
  /\ resources[First[1]] # Absent
  /\ \E answer \in LinkedPages :
       LET found == {First[1]} \X ItemsOf(answer) IN
       /\ listed' = listed \union found
       /\ repeated' = (repeated \/ found \intersect listed # {})
       /\ IF answer.link THEN FollowLink(answer) /\ UNCHANGED todo
                         ELSE Finish /\ todo' = todo \ {First}
  /\ UNCHANGED <<include, serviceVars, edits, capturePc, captured, columnPages, factVars, shifts>>

(* Pages that shift while they are read can show something twice: refused. *)
DuplicateId ==
  /\ capturePc = "terms" /\ todo = {} /\ repeated
  /\ capturePc' = "duplicate id"
  /\ UNCHANGED <<include, serviceVars, edits, foundVars, queryVars, todo, historyVars>>

Build ==
  /\ capturePc = "terms" /\ todo = {} /\ ~repeated
  /\ capturePc' = "built"
  /\ UNCHANGED <<include, serviceVars, edits, foundVars, queryVars, todo, historyVars>>

-----------------------------------------------------------------------------
(* Others edit the catalog; a resource takes its relationships with it. *)

Facts(r, e) == {<<id, r[id]>> : id \in {i \in Id : r[i] # Absent}} \union e

Edit(r, e) ==
  /\ capturePc \notin CaptureEnded /\ edits < MaxEdits
  /\ resources' = r /\ edges' = e
  /\ edits' = edits + 1
  /\ ever' = ever \union Facts(r, e) /\ throughout' = throughout \intersect Facts(r, e)
  /\ shifts' = shifts + Cardinality({id \in Collection \ CollectionIn(r, e) :
                                       Place(Collection, id) < currentOffset})
  /\ UNCHANGED <<include, capturePc, foundVars, queryVars, todo, finished>>

Create(id, form) ==
  resources[id] = Absent /\ Edit([resources EXCEPT ![id] = form], edges)

Delete(id) ==
  /\ resources[id] # Absent
  /\ Edit([resources EXCEPT ![id] = Absent], {edge \in edges : id \notin {edge[1], edge[2]}})

Relate(edge) ==
  /\ edge \notin edges /\ resources[edge[1]] # Absent /\ resources[edge[2]] # Absent
  /\ Edit(resources, edges \union {edge})

Unrelate(edge) == edge \in edges /\ Edit(resources, edges \ {edge})

CaptureInit ==
  /\ include \in Includes
  /\ \E c \in Catalogs : resources = c.resources /\ edges = c.edges
  /\ edits = 0 /\ capturePc = "start"
  /\ captured = [id \in Id |-> Absent] /\ todo = {} /\ listed = {}
  /\ repeated = FALSE /\ currentOffset = 0 /\ columnPages = 0 /\ finished = {} /\ shifts = 0
  /\ ever = Facts(resources, edges) /\ throughout = Facts(resources, edges)

Capture ==
  \/ RefuseOptions \/ AcceptOptions \/ (\E n \in DOMAIN Order : Enumerate(n))
  \/ Query \/ ReadFails \/ CollectProducts \/ CollectTerms
  \/ SourceGone \/ ListRelationships \/ DuplicateId \/ Build

CaptureNext ==
  \/ Capture
  \/ \E id \in Id : Delete(id) \/ \E form \in Form : Create(id, form)
  \/ \E edge \in Edge : Relate(edge) \/ Unrelate(edge)

CaptureSpec == CaptureInit /\ [][CaptureNext]_captureVars

-----------------------------------------------------------------------------
(* Properties. *)

Covers(fact) ==
  IF fact \in Edge THEN Family(fact) \in include ELSE Asked(TypeOf(fact[1]))

Read == {<<id, captured[id]>> : id \in {i \in Id : captured[i] # Absent}} \union listed

(* A coverage marker is true up to what others took away under the reader: of    *)
(* what it covers and nobody touched while the capture ran, no more is missing    *)
(* from the remote state than others took, of the listing then being read, from   *)
(* what had been read of it, nothing for what they added or took elsewhere; with  *)
(* a missing source its relationships are missing too.  There is nothing in the   *)
(* remote state that never was there.                                             *)
CoverageIsTrue ==
  capturePc = "built" =>
    LET missing == {fact \in throughout : Covers(fact)} \ Read
        orphaned == {fact \in missing \intersect Edge :
                       \E lost \in missing \ Edge : lost[1] = fact[1]}
    IN /\ Cardinality(missing \ orphaned) <= shifts
       /\ Read \subseteq ever
=============================================================================
