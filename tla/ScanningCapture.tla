---------------------------- MODULE ScanningCapture ----------------------------
(***************************************************************************)
(* capture_remote_state (data sources) and capture_remote_state_v2: every  *)
(* collection of the Scanning data plane is listed, page by page, and      *)
(* every name listed is then read on its own, in order.  Others edit the   *)
(* account between any two requests, so what is captured is no snapshot.   *)
(***************************************************************************)
EXTENDS ScanningDiff

CONSTANT MaxEdits   \* bound on the edits of others

ASSUME EditAssumption == MaxEdits \in Nat

VARIABLES
  version,    \* of the remote state to capture: 1 or 2
  catalog,    \* the resources the service holds
  edits,      \* edits others have made
  phase,      \* "idle", "capturing", "captured" or "failed"
  requested,  \* the listings requested
  ahead,      \* what the listing in progress is about and its pages have not come to
  names,      \* the names listed and not yet read
  captured,   \* what was read; Missing for what was not listed
  late        \* history: resources that changed after they were read, or listed, or
              \* that a page passed over

captureVars == <<phase, requested, ahead, names, captured, late>>

-----------------------------------------------------------------------------
(* The listings: the data sources, the classification rules, the scans of every *)
(* data source of the supported kind, the rule sets.  0 stands for no parent.   *)

Listing(rank, parent) == [rank |-> rank, parent |-> parent]
Supported(id) == captured[id] \in Interpreted

(* Mutant: the scans of every data source are listed. *)
AllParents ==
  {Listing(1, 0), Listing(3, 0)} \union {Listing(2, d) : d \in {e \in DataSource : captured[e] # Missing}}

ScansOfSupported == {Listing(2, d) : d \in {e \in DataSource : Supported(e)}}

Agenda ==
  {Listing(0, 0)} \union
    IF version = 1 THEN {} ELSE {Listing(1, 0), Listing(3, 0)} \union ScansOfSupported

Sooner(a, b) == a.rank < b.rank \/ (a.rank = b.rank /\ a.parent <= b.parent)
NextListing == CHOOSE l \in Agenda \ requested : \A m \in Agenda \ requested : Sooner(l, m)

(* The resources a listing is about. *)
Listable(l) ==
  CASE l.rank = 0 -> DataSource
    [] l.rank = 1 -> Rule
    [] l.rank = 2 -> {id \in Scan : Parent[id] = l.parent}
    [] OTHER      -> RuleSet

(* A rule of another kind is recorded from the list and never read. *)
RecordedFromList(id) == id \in Rule /\ catalog[id] \in ForeignKind

Paging == phase = "capturing" /\ ahead # {}
ListingNames == phase = "capturing" /\ ahead = {} /\ names = {} /\ Agenda \ requested # {}

(* list_data_sources and its like turn to the first page. *)
List ==
  /\ ListingNames
  /\ requested' = requested \union {NextListing}
  /\ ahead' = Listable(NextListing)
  /\ UNCHANGED <<catalog, edits, phase, names, captured, late>>

(* A link names a position: what is removed from the pages read moves as many of *)
(* the others in front of the next page.                                         *)
Passed == UNION {Listable(l) : l \in {m \in requested : ahead \subseteq Listable(m)}} \ ahead
Removed == {id \in Passed : (id \in names \/ captured[id] # Missing) /\ catalog[id] = Missing}

ScansOf(id) == {scan \in Scan : Parent[scan] = id}

(* One request of _list_paginated: the names of a page, of any size. *)
ListPage ==
  /\ Paging
  /\ \E last \in ahead :
       LET page == {id \in ahead : id <= last}
           listed == {id \in page : catalog[id] # Missing}
       IN  \E slipped \in SUBSET listed :
             LET found == listed \ slipped IN
             /\ Cardinality(slipped) <= Cardinality(Removed)
             /\ ahead' = ahead \ page
             /\ names' = names \union {id \in found : ~RecordedFromList(id)}
             /\ captured' = [id \in Id |-> IF id \in found /\ RecordedFromList(id)
                                           THEN catalog[id] ELSE captured[id]]
             /\ late' = (late \ page) \union slipped \union UNION {ScansOf(id) : id \in slipped}
  /\ UNCHANGED <<catalog, edits, phase, requested>>

(* A list with a name twice, a page that cannot be followed, a response that is *)
(* no list, a timeout, no token.                                                *)
ListFails ==
  /\ ListingNames \/ Paging
  /\ phase' = "failed"
  /\ UNCHANGED <<catalog, edits, requested, ahead, names, captured, late>>

NextName == CHOOSE id \in names : \A other \in names : id <= other
Reading == phase = "capturing" /\ ahead = {} /\ names # {}

(* A GET must return the resource; a rule of the kind its list said. *)
Readable(id) == catalog[id] # Missing /\ ~(id \in Rule /\ catalog[id] \in ForeignKind)

Read ==
  /\ Reading /\ Readable(NextName)
  /\ captured' = [captured EXCEPT ![NextName] = catalog[NextName]]
  /\ late' = late \ {NextName}
  /\ names' = names \ {NextName}
  /\ UNCHANGED <<catalog, edits, phase, requested, ahead>>

(* 404 for a name listed, another kind of rule, an error, a timeout, a body *)
(* that is not a resource with the name asked for.                          *)
ReadFails ==
  /\ Reading
  /\ phase' = "failed"
  /\ UNCHANGED <<catalog, edits, requested, ahead, names, captured, late>>

Complete ==
  /\ phase = "capturing" /\ ahead = {} /\ names = {} /\ Agenda \subseteq requested
  /\ phase' = "captured"
  /\ UNCHANGED <<catalog, edits, requested, ahead, names, captured, late>>

CaptureStep == List \/ ListPage \/ ListFails \/ Read \/ ReadFails \/ Complete

-----------------------------------------------------------------------------
(* A resource changes, by the hand of others or of a write still on its way; a *)
(* data source takes its scans with it.                                        *)
Changes(id, r) ==
  LET lost == IF r = Missing THEN ScansOf(id) ELSE {} IN
  /\ catalog' = [other \in Id |-> IF other = id THEN r
                                  ELSE IF other \in lost THEN Missing ELSE catalog[other]]
  /\ late' = late \union {id} \union lost

(* What one edit in the portal can make of a resource. *)
Edited(id) ==
  {Missing} \union ForeignKind \union
    {[place |-> place, body |-> body, uses |-> {}, holds |-> {}] : place \in Place, body \in Body}

Edit(id) ==
  /\ edits < MaxEdits
  /\ id \in Scan => catalog[Parent[id]] # Missing
  /\ \E r \in Edited(id) \ {catalog[id]} : Changes(id, r)
  /\ edits' = edits + 1
  /\ UNCHANGED <<phase, requested, ahead, names, captured>>

(* What a capture of an account nobody edits returns: the scans of a data source *)
(* that is absent or of another kind are not in it.                              *)
Visible(v, account, id) ==
  CASE id \in DataSource -> TRUE
    [] id \in Scan       -> v = 2 /\ account[Parent[id]] \in Interpreted
    [] OTHER             -> v = 2
View(v, account) == [id \in Id |-> IF Visible(v, account, id) THEN account[id] ELSE Missing]
=============================================================================
