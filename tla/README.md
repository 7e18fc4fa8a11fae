# Purview Governance Automation: a verification project

`purview-governance` keeps the governance objects of a Microsoft Purview tenant
(data sources, scans, business domains, data products, glossary terms) as
code. A user captures the remote state, diffs a desired configuration against
it, stores a plan, and applies the plan. This directory holds TLA+ modules of
the parts of that pipeline where order, failure and shared state matter, the
TLC runs that check them and the TLAPS proofs about them. Every definition
translates the Python source; `PROJECT.json` maps each one to its lines.

## The system

| Component | State it keeps | Operations | Talks to |
|---|---|---|---|
| Unified Catalog executor, `apply/service_v3.py`, `payloads_v3.py` | nothing on disk: the capture, the preflight GETs, the outcome of each operation, three counters | `execute_governance_plan_v3`: admission, fresh capture, preflight, dry run, per-operation check, write, verify | client, capture, validation of the result |
| Scanning executor, `apply/service.py` (v1, v2) | outcomes, counters | `execute_governance_plan`: as above, without per-write checks | scanning client |
| Result document, `apply/validation*.py`, `models*.py` | none | `validate_result_document_semantics`, called on every result built | executors, loader |
| Authorization, `auth/` | the target a credential is bound to | `authorize(endpoint)` before every request | clients |
| Unified Catalog client, `unified_catalog/client.py` | none | targeted GET, POST, PUT; paged enumerations with loop guards | service |
| Scanning client, `scanning/client.py` | none | list, get, PUT of data sources, classification rules, rule sets and scans; paged lists with loop guards | service |
| Captures, `remote_state/service.py` | the artifact being built | enumerate each type, normalise, identify by a hash | clients |
| Diff, `diff/` | none | compare desired and remote fields, three-valued | desired state, remote state |
| Planners, `plan/service.py`, `plan/service_v3.py` | none | order the operations, block unsafe ones, validate the document | diff |
| Artifact files, `cli.py`, `cli_paths.py` | the plan, remote-state and result files | `plan create`, `remote-state capture`, `apply` | file system |
| Configuration, `config/`, `desired/` | none | parse, validate, map | files |
| Loaders and canonical JSON | none | schema and semantic checks, hashes | all artifacts |

What is hard here:

* The catalog is shared. Others edit it between any two requests of an
  execution, and the capture itself is several requests, no snapshot.
* A write may be processed although the client saw a timeout, and it may be
  processed late, while the same plan is already being executed again.
* The executor keeps nothing: after a crash only the fresh capture tells a
  repeated execution what has been done.
* One of several writes may fail; the result must account for every one.
* The result is validated *after* the writes; a combination the validator does
  not expect would raise and lose the account of them.
* Owned and unowned fields share one payload: an owned field must reach the
  service, an unowned one must come back unchanged.
* The order of creates and the order the plan validator expects are defined in
  different places.
* A Scanning PUT replaces the whole resource, and nothing is read between the
  capture and the last PUT.
* A plan builder validates its own document; the reasons the diff gives and the
  reasons the validator knows are two lists.
* A listing follows links, or counts positions, through a collection others
  change meanwhile; the service is not trusted to end it.
* A v3 plan and its remote state are two files, written one after the other,
  perhaps by two commands at once, and read by a third.

`PROJECT.json` lists each of these as a hazard at its line, with the
properties that would catch it. Three hazards have no property. For two neither the
code nor its documents say what should happen: replaces are not ordered along the
hierarchy, and a rename to a taken name is planned. The third is a 401 or 403 answer
to a write, which the v3 executor reports as `apply.write_auth_failed` (`apply/service_v3.py:757`) where the
program's README calls every 4xx `apply.write_rejected`: a difference of wording that
one test shows, and that the model keeps as the code has it.

## Modules

| Module | Models |
|---|---|
| `ExecutionResult` | what a v3 result document must satisfy (`apply/validation_v3.py`) |
| `UnifiedCatalogApply` | the v3 executor, its client, the service and the environment |
| `ApplyLedger` | the abstract promise: operations in order, none after one that failed, a verdict the outcomes justify |
| `MCUnifiedCatalogApply` | the instances for TLC |
| `UnifiedCatalogApplyProofs` | the inductive invariant, type correctness, fail-closed writes, plan order; what payloads carry and what of others a replace keeps; links, repeated executions and what `applied` means; validity and honesty of results, the refinement of `ApplyLedger` |
| `GovernancePlanner` | the v3 plan builder: validation, diff, dependencies, limits, order, its check of its own plan |
| `PlanLifecycle` | plan, apply (perhaps not to the end), plan again, composed with `GovernancePlanner` |
| `MCPlanLifecycle` | the instances for TLC, of the planner and of the lifecycle around it |
| `ScanningDiff` | the resources of the Scanning data plane, their comparison, the validation of a v1 or v2 plan |
| `ScanningPlanner` | the v1 and v2 plan builders |
| `ScanningCapture` | list and get of every collection, while others edit |
| `ScanningResult` | what a v1 or v2 result document must satisfy |
| `ScanningApply` | the v1 and v2 executor on a shared account, a second implementation of `ApplyLedger` |
| `Origin` | which nextLinks a client follows |
| `LinkPaging` | one listing along nextLinks, of either client |
| `ReadModel` | resources and relationships of the read model |
| `ReadModelCapture` | the v3 capture with assets, columns (queried by position) and relationships, and its coverage record |
| `ClientReadsProofs` | bounds of listings, whole listings, and that nothing proper is refused; that coverage records are true |
| `ArtifactStore` | the commands and their files, several processes at once |
| `MCScanningPlanner`, `MCScanningApply`, `MCClientReads`, `MCArtifactStore` | the instances for TLC |
| `GovernancePlannerProofs` | type correctness of the planner, parents first, an ordering that ends, plans that resolve in order and keep the hierarchy |
| `PlanLifecycleProofs` | the same of every later plan, a catalog that stays linked while a plan is carried out, and later plans that are what the last one left |
| `ScanningDiffProofs` | lemmas on the comparison, the order of operations and the validation of a plan |
| `ScanningPlannerProofs` | every property of the v1 and v2 builders |
| `ScanningApplyProofs` | every safety property of the v1 and v2 executor, the refinement of `ApplyLedger` |
| `ArtifactStoreProofs` | every property of the commands over their files |

### UnifiedCatalogApply

The actions follow `execute_governance_plan_v3` stage by stage:

* *Admission* (`pc = "start"`): `RejectPlan` (the loader raises), `RefuseBlocked`,
  `RefuseArtifact`, `RefuseUnbound`, `RefuseWrongTarget`, `Admit`. They read the
  inputs only, so each is one step.
* *Fresh capture* (`"capture"`): `Enumerate`, type by type in the order of the capture
  recipe; a resource is read with its page (`ReadListed`), so that edits fall between
  the pages of one listing too, and a listing ends when nothing there is left unread
  (`EndListing`); `CaptureFails`, `DetectStale`, `AcceptCapture`.
* *Preflight* (`"preflight"`): one GET per operation (`PreflightPasses`,
  `PreflightDisagrees`, `PreflightReadFails`, `PreflightUnsupported`), then
  `MaterializeFails` or `DryRunReady`.
* *Apply* (`"check"`, `"write"`, `"verify"`): `CheckPasses` or one of three ways to
  stop, the write with its possible answers (`WriteConfirmed`, `WriteRefused`,
  `WriteUnanswered`), the verifying GET. The final GET of a replace goes through the
  normalisers, whose exception nobody catches: `NormaliserRaises` leaves the executor
  with no result, before any write (in the preflight) or after some (`"check"`).

Every result goes through `Report`, which validates it: an invalid document
leads to `pc = "escaped"`, an exception out of the executor, as does a normaliser's.
The environment
edits the catalog (`Edit`), delivers or drops delayed writes, kills the process
(`Crash`) and executes the plan again (`Rerun`).

Abstractions. A resource is a record of four values: `key` stands for the
fields the final check compares, `soft` for the owned optional fields it does
not, `deferred` for the preserved fields bound by fingerprint, `link` for the
parent or the domain. For a term `link` is its parent only: the domain a term
belongs to is followed by `GovernancePlanner` and `PlanLifecycle`, not here, so
`NoDanglingLink` says nothing of it. Identities are hashes of what they identify and are
modelled by it, so two identities agree exactly when their contents do. The
history variables `initiated`, `response`, `landed` and `earlier` exist for the
properties only. A listing shows each resource as it is when its page is read and
passes over none: pages that shift under the reader are the subject of
`ReadModelCapture`.

Facts of the source that shape the model: the observed target of a capture is
the endpoint the client reads from, not the target the credential is bound to;
a remote business domain without parent has no `parentId` among its normalised
properties, so every replace of a domain to the root is refused; a preflight GET
is compared with the capture only in its deferred fields.

### GovernancePlanner

`build_governance_plan_v3` is sequential and reads only its two arguments, so a
behaviour is determined by `input`, chosen once; the variety is in the inputs.
The stages are those of the function: `RejectConfiguration`, `RejectTarget`,
`Compare` (the diff, with changes of types that were not captured blocked),
`EnforceDependencies`, `ExceedLimit` or `StartOrder`, the ordering, `Finish`.
The ordering keeps the loop of `_topological_create_order`: `Place` and `PutOff`
visit one resource each in the order of ids, `NextPass` starts over with what was
put off or gives up, `NextSection` goes on to the next type and action. Sections
of replaces and of products use the same steps; nothing is ever put off there.

Abstractions. Ids are naturals, which stand for UUID strings in their order.
`key` stands for the fields always managed (for a domain, its name), `soft` for
the optional ones. An id of another type in a link is to the code an id that is
nowhere, so links are typed. The reason codes of a blocked change are left out:
the outcome alone decides. The validator derives the operations anew and compares
them with those of the plan, after demanding that they be sorted by id: together
that is `WellFormed`, sorted, one for each change, parents first. The recomputed
identities and summaries of the document are data. The planner's revalidation of
the remote state (schema, unique sorted ids, identities) always succeeds on what
a capture produces, and inputs are such states.

### PlanLifecycle

The reviewer workflow of the documentation, on one catalog nobody else edits:
plan, `Refuse` or `Apply`, `CarryOut` operation by operation, `Complete` or
`Interrupt`, and planning again from what the catalog then holds. `Approved` is the
set of configurations the reviewer lets be applied; the plans of all others end
with the builder, so one run covers every input of the planner and, for those in
`Approved`, the whole cycle. `Written` is what
the payload builders make of an operation; a field a create does not name may be
set by the service. What happens between the requests of one execution is
the subject of `UnifiedCatalogApply` and atomic here.

### ScanningDiff and ScanningPlanner

`diff_desired_vs_remote` and the two builders are sequential functions, so a
behaviour of `ScanningPlanner` is determined by `input`: `RejectInput`, the
comparison of every identity, the operations, and `validate_plan_document_semantics`
on the finished document. The validation is in `ScanningDiff` because the executor
runs it again on the plan it is given.

Abstractions. A resource is a record of its collection (`place`), the fields a
replace may change (`body`), the custom rules or rule set it refers to (`uses`), and
what forbids writing it (`holds`: created by Purview, moving, or with settings the
payload cannot carry). Each reason keeps its code and the `after` value the
validator binds to the configuration; reasons for single fields are collected in
`settings.changed`. The kind of a remote resource is any string to the capture: a supported
one, a foreign one (`ForeignKind`), or one that the validator does not accept as the reason of an
`unsupported_kind` blocker (`MisplacedKind`: empty, or a kind it takes for supported although
the diff does not, as `AzureStorageMsi`, the kind of a scan, on a data source). The JSON schema of the plan, its hashes and its summary are the
field `sealed`.

### ScanningCapture and ScanningApply

`ScanningCapture` takes one step for each page of a listing and each GET, in the order of
the code: data sources, rules, the scans of every supported data source, rule sets. `List`
begins a listing and `ListPage` reads a page of any size, with edits in between. A link names a
position: for each name that others remove from the pages read, one that was to come may
stand before the next page and be passed over (`slipped`); a name that is shown
twice, because others have added some before it, fails the listing (`ListFails`). A
name that is gone when it is read fails the capture. The scans of a data source that
is missing, passed over or of another kind are never looked at. `late` collects what
changed after it was looked at and what a page passed over, for the properties only.

`ScanningApply` extends it, for plans of both versions (a variable, as the CLI takes
either; a v1 plan knows data sources only): admission in the order of `_execute_governance_plan_v2`
(validation, blocked, wrong target, materialisation before anything is read), the
capture, staleness, dry run, and one PUT after the other. A PUT stores the whole
resource. The environment is that of `UnifiedCatalogApply`: edits, PUTs processed
late or lost, crashes, repeated executions. That deleting a data source deletes its scans, and that
a scan cannot be stored without one, is an assumption about the service.

### Origin and LinkPaging

`LinkPaging` is the loop of `_list_paginated`, which both clients repeat for each
listing: the page limit, the request, the links already seen, the origin of the
next link. `Origin` takes URLs apart as `validate_absolute_same_origin_next_link`
does. The service answers each URL as its `book` says, and may change it between two pages.

### ReadModelCapture

`capture_unified_catalog_remote_state_v3` with every option it may be given: the
enumerations in their order, then the relationships of each product and each term
found, interpreted or not. Every listing is read page by page, a page of any size a step, and
others edit in between. A link names a position in the collection as it is
when the link is followed (`$skipToken` in the tests is the number of items before
the page): what is removed from the pages read moves others in front of the next one, and they
are missed; what is added there shows others twice (`repeated`), which fails the
capture in the end (`DuplicateId`). A service whose links name the last item shown, or that
keeps a snapshot, does neither, and what holds of positions holds of it. `shifts`, for the
property, counts what others have removed from the pages read of the listing in
progress. The number and origin of links is the subject of `LinkPaging`. Columns are
queried by position too (`query_data_columns`, `currentOffset` and `columnPages`): each page is
a step of its own, a short page ends the query only without a nextLink, a
column read twice fails the capture (`RepeatedColumn`), and one that is
passed over is missed. The columns are sorted by id and appear and disappear at any
place. A deleted resource takes its relationships with it, an assumption about the
service. A relationship may name a resource the capture has not read: the code
does not compare the two, and neither does the model.

### ArtifactStore

Several processes, each running one command on shared files and one account,
interleaved at every check, write, rename and unlink, and killed anywhere. The
executor is abstracted to its gates in one step and writes in others; what it does
in between is the subject of the apply modules. `plan create` looks at the remote-state
file twice, when it admits the options (`AdmitCreate`) and again for
`remote_existed` (`LookForRemote`), and others may write it in between; so a file that was
admitted as new may be found there, and one that was not found may be another's when it is
removed (`doc_removes_own`). A document keeps its kind, its API,
the states it stands for, and its author (for the properties). `Resolve` stands for
the file system's links and relative names. It is constant: that somebody turns a link to another
target between the check of the paths and the write is excluded, and so is a path that
becomes an alias then.

## Runs

For the executor: two domains, one product, two terms, two values of each field, two
targets; one edit and two executions. Two domains and two terms are the
fewest with a parent and a child, a plan of three operations the fewest with a
first, a middle and a last one; two executions the fewest with a repeated one. The
environment's edit may fall between any two requests.

For the planner: three domains or three terms with every assignment of parents,
cycles and unknown parents included, each resource configured, remote,
both or neither; a chain of three is the shortest whose middle can be missing, be
of another domain, or come last in the order of ids. The limits are three domains (200 in the code)
and a depth of two (5 in the code); a chain exceeds the depth, and a remote domain without a
readable id (`strays`) brings the number over its limit. Two interruptions are the fewest
after which a plan was made from the rest of a rest.

For the Scanning modules: two data sources, a rule, a rule set and a scan, the fewest
with one reference of each kind, an operation of each type, and a data source without
scans; two bodies, two collections. `scan_plans` builds a plan from
every combination of what each resource may be on either side. One
edit, two executions. With one edit a page passes over a data source only for one that is
gone when it is read, so that the capture fails: to be captured, the removed one has to be there
again, which takes a second edit. The proofs of the captures cover any number.

For the listings: three URLs of the client's own origin, one of them with the port
written out, and three that are not (user information, http, another host), with every
way to link them, a limit of three pages (50 in the code) and one new layout: enough for
a loop that does not come back to its start, and to meet the limit. For the read
model: two products, a term, an asset, a domain, four columns in pages of two with a limit
of three pages, one edit: enough to pass over a column at a page border. One client makes
one read after the other, so a listing and a capture are never interleaved, and
`MCClientReads` checks both in one run by starting either. For the files: three
processes, the two writers and the reader of a pair; one process with any options
for the exit codes.

| Run | Question |
|---|---|
| `apply` | plans that create, replace and move, executions set up wrongly in every way, and plans with one operation that must not be carried out, executed up to twice with every failure, an edit and delayed writes: is nothing written too early, are results honest and valid, do writes form a prefix, is a repeated execution harmless, does `applied` mean desired, what survives of what others wrote, does every step keep the ledger, does every execution end? (240 thousand states) |
| `plans` | every small hierarchy of domains or terms: do plans create parents first and resolve in order, can the ordering get stuck, is the resulting hierarchy within the limits? And for the approved ones: is the plan made after an interrupted apply exactly its rest, and does the catalog stay linked at every moment? (550 thousand) |
| `scan_plans` | plans of every combination of resources: does a ready plan write only what the tool may write, in an order that resolves, does carrying it out converge, and which plans fail the builder's own validation? |
| `scan_apply` | plans of both versions and executions set up wrongly, with every failure, an edit, delayed PUTs and a second execution: what does a capture tell, are results honest and valid, is nothing written but what was planned, is a repeated execution harmless, whose edits are overwritten, does every step keep the ledger, does every execution end? (320 thousand) |
| `reads` | a service that links its pages in any way: which requests are made, what is listed, what is refused? Edits between the requests of a capture: is the coverage record true? Do both end? (71 thousand) |
| `artifacts` | two commands write the same pair of files, each may be killed, and a third process applies what is there: is a mixed pair ever carried out? One command with any options: are exit codes true, do the inputs survive? |
| `doc_parent_order` | (violated) can every valid configuration be planned? |
| `doc_converged` | (violated) does planning after a complete apply find nothing to do? |
| `doc_final_window` | (violated) is an edit overwritten only when it falls between the final GET and the write? |
| `doc_confirmed_counted` | (violated) is every write answered with 200 or 201 counted? |
| `doc_system_rule` | (violated) does every comparison become a plan, as the builder expects? |
| `doc_removes_own` | (violated) does `plan create` remove only the file it has written? |

Deadlock is not checked: executions end, and so does the planner. In
`plans` only configurations that give every optional field of the product are approved; with
one that does not, `doc_converged` shows the plan that never goes away. The branch of `NextPass` that
gives up is never taken, which is what `OrderingNeverStuck` says.

Fairness. The `FairSpec` of each executor and `Reads` of `MCClientReads` ask weak
fairness of the program's own steps (the executor, the client, the capture), nothing
of the environment: the program is
sequential, and every request ends by an answer or by the client's timeout. That
captures and listings end is not a matter of the bound on edits: what is still
to be read is fixed once it is listed, and the pages are counted.

### Findings

* `doc_final_window`: the payload of a replace is built from the preflight GET,
  which is compared neither with the capture (but for deferred fields) nor, in
  audience, owners and other soft fields, with the final GET. An edit the executor
  has itself read before the write is overwritten; the README of the program
  documents only the window between the final GET and the write.
* `doc_confirmed_counted`: the program's README counts every 200/201 as a
  confirmed write; the v3 executor counts it only after the verifying GET.
* `doc_parent_order`: the builder puts a parent's create before its child's; the
  validator it then calls demands that creates be sorted by id. A child whose id
  sorts before its parent's, both to be created, makes the plan impossible:
  `plan.invalid_schema`.
* `doc_converged`: an audience, updateFrequency or endorsed that a product's
  configuration leaves out is compared as "not set" by the diff and kept as
  "unmanaged" by the payload. The replace is planned for ever and changes nothing.

* `doc_system_rule`: a configured classification rule whose name belongs to a
  system rule is reported as blocked by the diff, with `kind.changed` to `Custom`;
  the validator knows only two kinds there, so the builder raises
  `plan.invalid_schema` and there is no plan to review. The same comes of a data
  source of kind `AzureStorageMsi`, say, or a resource of an empty kind, that is not even
  configured: the diff reports it as `unsupported_kind`, and the validator wants a kind there
  that is not empty and not one of the two it takes for supported.
  `OnlyForeignKindsFailValidation` shows that nothing else fails it.
* `doc_removes_own`: when the plan cannot be written `plan create` removes the
  remote-state file if there was none when it looked, also when another command has put
  its own there since.

One divergence has no run of its own. The program's README has every interruption after
successful writes end in a result of status `partial` (`src/README.md:201`). If a
normaliser raises on the final GET of a later replace (`payloads_v3.py:210` and `:375`, called through
`service_v3.py:484` outside any `try`), the exception leaves the executor and no result tells of
the writes made. `WritesAreAccountedFor` says exactly when: only there, with every write
made before it confirmed and nothing in flight. In `Ledger` such a run has no verdict.

## Proofs

All 37 safety properties the passing runs check are also theorems, for every value of the
constants that satisfies the named assumptions (one, `ReplanIsTheRest`, under a hypothesis of its own).

### The v3 executor

The assumptions are those of `UnifiedCatalogApply`. `ValueAssumption`: the markers
such as `Missing` are no values. `ScenarioAssumption`: initial situations are typed, and
the catalog has no dangling reference to begin with. `PlanAssumption`, what the builder
guarantees of the plans it makes (`GovernancePlanner` shows it does): an id is a domain's or
a product's, a create is of a resource the remote state does not have, a replace of one
that differs from what is wanted (or of a product with an optional field the configuration
leaves out, whose payload may change nothing: `doc_converged`), what a replace links to is in the
remote state or created, and whatever links to a resource the plan creates comes after that create. `BoundAssumption`: bounds are naturals.

`IInv` is the inductive invariant: the type invariant with what each stage may
rely on. It is needed because the properties speak of the end of an execution
and hold for reasons laid down at its start: that a write is fail-closed follows
from what admission, the staleness gate and the preflight have established
(`Admitted`, `Accepted`, `Recorded`), that writes form a prefix from the shape of the
outcomes while operations are applied (`Underway`, `Prefix`), and even the type of
a payload depends on the preflight GET of the resource being there (`Recorded`).

* `TypeCorrect`, `FailClosed`, `PlanOrder` follow from `IInv`; the type invariant is proved
  and so no longer part of a run, as `PlannerTypeCorrect` is for the planner.
* `ResultsAreValid`: the outcomes of a run are a succeeded prefix with at most one
  break (`Outcomes`); `CountOutcomes` counts them, `ValidDocument` derives each rule of the
  validation, and one lemma per stage shows that its document meets them. So an exception
  with writes behind it is a normaliser's, and the theorem says what it leaves: every write
  invoked is a succeeded one.
* `ImplementsLedger`: initial states map to initial states, and each action to one
  action of `ApplyLedger` or a stutter; that the reported status is the verdict needs
  `ResultsAreValid`, as an escaped exception has none.
* `ResultsAreHonest`: from `Account`, which ties the document to the outcomes, the
  outcomes to the writes that took effect, and delayed writes to unknown outcomes.
* `NothingUnverifiedIsWritten` and `OthersArePreserved`: from `PInv`, which adds to `IInv`
  that what passed the preflight is capable (`Capable`), that the whole plan was
  materialised before anything is applied (`Materialized`), and that the final GET agreed with the
  preflight GET when a write is due (`Matched`). The first also rests on `PlanAssumption`:
  a create of what is there could clear a link that the capability check, which asks only
  replaces, does not look at, and it is the builder that never plans one.
* `ReferencesResolve`, `RetriesAreSafe` and `AppliedIsDesired` are about an account that
  nobody else edits, over several executions of one plan: the catalog is then the
  planned one with some of its operations carried out, perhaps by a delayed write of an
  earlier run. An operation that changes something makes every later capture differ from the
  planned state, so that no later run writes. The exception are product replaces that
  change nothing (`Idle`): a plan of which only those were carried out passes the
  staleness gate again and sends them again, which the scenario `IdleReplace` of the run does.

### The v3 planner

`GovernancePlannerProofs` proves its theorems for every set of ids, every limit
and every input that satisfy `IdAssumption` (ids are naturals, typed),
`MarkerAssumption`, `LimitAssumption` (limits are naturals) and `InputAssumption`. `PlannerInv` adds to the type invariant what a later stage
takes from an earlier one: a missing resource that is configured is to be created
or was blocked (`Grounded`), what a change links to is there, to be created, or was
blocked since (`Supported`), no domain that passed the limits has an unknown
parent (`ParentsKnown`), and a finished plan is well formed (`Checked`).
`CreatesFollowTheirParents` is the case of `Place`: the parent is a member of the same
section, so it can only be placed before. `ReadyPlansResolve` then takes the
place of the parent's create from `ParentsFirst`, and of all else from the order of the
sections. That nothing is blocked is essential: dependencies are resolved before
any is blocked, so a plan that is not ready may rest on a change that fell away.

The other two properties are about chains of parents of any length, which the model climbs
by a recursive function (`Climb`). `ClimbFacts` unfolds it: a function with the wanted
values exists up to every `n`, by the least `n` for which there is none (`LeastNatural`,
`AllNaturals`), and two of them agree. The rest of the module uses its equations only.

* `OrderingAlwaysEnds`: `OInv` adds to `PlannerInv` that the configuration was validated
  (`Validated`) and what a pass has done: every member of its section is placed, put off or still to
  visit, and while it has placed none, what it put off waits for its parent (`InPass`). A pass
  that places nothing leaves a set of ids each with its parent in the set; `NoClosedSet` climbs
  from one of them, never reaches the top, and so contradicts the validation.
* `ReadyPlansKeepHierarchy`: `HInv` adds the limits checked (`WithinLimits`), the outcome of
  every id (`AllDecided`) and the ancestry of every term that is written (`Ancestral`). The catalog
  after a ready plan is then what the limits were checked on (`DomainsAfter`, `DomainsCounted`);
  for terms `AncestorsAfter` shows that ancestors which are not written have the domain the
  configuration wants, and `ShortClimb`, by the pigeonhole principle, that a climb through
  finitely many terms needs no more steps than there are terms.

### The lifecycle

`PlanLifecycleProofs` needs no more assumptions. `LInv` is `HInv` while a plan is made, and
while one is carried out `InHand`: what made the plan acceptable still holds of
the catalog with a part of it written. Links resolve in order, so what a written resource
links to is there; the parent of a term, written or not, has the domain of the term, because its
ancestry was checked and no term that stays may move. `BeginsAgain` closes the circle: the
catalog an execution leaves is an input the planner's invariant begins with, so `EveryPlanIsSound`
extends the planner's theorems to all later plans, and `NothingDangles` follows from `InHand`.

`PlansResume` has a hypothesis, `ProductsManaged`: approved configurations give every
optional field of a product. It is not an assumption on the constants, because the code accepts
configurations without it, and `doc_converged` shows what then happens. Its
invariant is `MInv`, which TLC checked on the instance of `plans` before it was proved. `Left(s, n)`
says what is left of a plan `s` after `n` operations by what the comparison would find
now (`Compared`), not by the last comparison made (`changes`): the operations after the `n`th
are exactly the differences, and they are still in order. An accepted plan is left whole
(`AcceptedIsLeft`); a write settles its own resource and changes no other comparison
(`WrittenIsSettled`, `CarryOutLeft`); so a plan broken off anywhere leaves its rest
(`LeftAgain`), and the planner, step by step, repeats it (`ResumedStep`): no limit is newly
exceeded, every dependency holds, no placement is put off, the document is well formed.

### Listings and captures

`ClientReadsProofs` proves the three properties of a listing for every set of URLs,
every way the service links and changes its pages, and every limit, from
`OriginAssumption`. `IInv` says that the pages counted were requested and that the URLs
requested are the collection's own and links followed, none twice (`Followed`). For a
collection that does not change `WInv` adds that what was read is the chain so far
(`Chained`): the loop remembers links only, so the collection's own URL may be read a
second time, but then its link is met again and the listing fails before it is returned.

Of captures it proves `CoverageHolds`, for every catalog, page size and sequence of edits, from
`CatalogAssumption`: ids are naturals in their order, finitely many, each of one type; what a
resource is found to be is no id; relationships have their ends at first. `CInv`, which TLC
checked with up to two edits before it was proved, says what lasts (`Remembered`: with a
relationship lasts its source), that what was read was there (`ReadTruly`), and which listings
have been read at each stage (`TypesRead`, `RelationsRead`). The hard part is
`PassedOnlyShifted`, the same for listings along links and for columns. `PassedOver` are the facts that
nobody touched, were not read, and either are of a finished listing or stand before the
offset in the one in progress; there are never more of them than `shifts`. A page adds
none, because places in the rest of a collection are places in the collection less
the offset (`PlacesInRest`, which rests on `FirstPlaces`: no place is skipped). An edit moves
in front of the offset at most as many as it takes away there (`FallenAreLost`,
`EditShifts`). A resource that was missed is no source, so its relationships are never asked
for: `CoverageIsTrue` leaves them out of the count (`orphaned`).

### The Scanning data plane

The assumptions of `ScanningDiff`: ids are naturals, which stand for names in their
order, finitely many, each of one type (`IdAssumption`); markers are no values
(`MarkerAssumption`); and the reason for a resource the tool does not interpret is a code of
its own (`CodeAssumption`). Of `ScanningPlanner`: configurations refer to what a rule set or
scan can refer to, and a remote resource is held only in the ways of its type, which is what
the normalisers produce (`InputAssumption`). Of `ScanningApply`: situations are typed, a
scan has its data source (`ScenarioAssumption`); and the change set of a plan whose identity is
intact is the one the planner computed (`PlannerAssumption`), because the identity is
a digest over the document and the planner is the only code that makes one.

`ScanningDiffProofs` holds what both sides use: what the comparison says of each
resource (`ItemOf`, `ReplacedIsOwned`), that every item it makes passes the validator
(`ComparisonPasses`, `DiffPasses`), where the operations stand in the order
(`OperationsAre`), and that what an operation writes compares equal afterwards
(`CarryingOutSettles`). The operations are ordered by `CHOOSE` over sets of identities, so
the lemmas rest on `LeastNatural`, a least element of a set of naturals, which follows from
the well-foundedness of the order.

* `ScanningPlannerProofs`: `BInv` says of each stage what the builder has computed;
  the document is the one `Document` makes of the comparison. `OwnPlansAreValid` then needs each rule of the
  validator for each item, operation and reason; `ReadyPlansSettle` that the comparison of
  what the payloads carry is unchanged in every field of every type.
* `ScanningApplyProofs`: `SInv` is the counterpart of `IInv`. `CapturesAreViews`
  needs in addition what every phase of a capture has read and still has to read, under
  edits between any two requests, and that a page passes over something only when a
name listed before it is gone (`PagesSlip`); `OverwritesAreLate` combines it with the staleness gate, including for
  scans that were never looked at. `RetriesWriteNothing` and `AppliedIsWanted` follow the
  account through all executions of one plan, as for v3.

### The commands and their files

`StoreAssumption` and `ScenarioAssumption` say what the parser of the options lets through
and that files hold documents; `NoneAssumption` that an exit code not given is none of the
codes. `AInv` says of each process by its stage what admission
checked (`Apart`: the resolved paths of outputs and inputs differ), which documents it has in hand, and
which it has put in place (`Creates`, `Applies`). The files appear in it by type only:
no process relies on what another leaves alone, which is why the theorems
hold for any number of processes interleaved in any way. A plan and
remote state match because the executor compares the two it has read
(`Matched`), not because of anything known of the files. `OlderFilesAreKept` alone
follows the files, in `OInv`: a file that was there from the start (`older`) is a user's or
put there by a command with `--force`, and a command goes on to replace a file without `--force`,
or to remove one, only where it once found nothing (`SeenFree`). It does not say that a command without `--force` replaces
nothing: another may have written the file after it looked.

### Only model-checked

* Liveness (`EveryRunEnds`, `ReadsEnd`), which is out of the prover's reach, as are recursive
  operators; recursive functions are not.

## Not modelled

* JSON schemas, canonical JSON and hashing: pure functions on bytes. Identities are
  what they hash, and the loaders' refusals are the field `sealed` or a document of another kind.
* The normalisers of remote documents: checks of one document, field by field,
  without state. What they tell apart is a field of the modelled resources.
* Parsing and shape checks of configurations; credentials and the acquisition of
  tokens beyond success and failure.
* Commands that only read (`config validate`, `plan inspect`, `result inspect`), and wording
  and layout of the command line's output.
* Whether the service refuses a transient cycle of parents or a taken name, which the
  code does not tell.

## Plan

1. The composition of `ArtifactStore` with the two executors, whose gates it now
   takes in one step.
2. The normalisers of scans and rule sets, as the function from documents to the
   abstract resources of `ScanningDiff`.
