------------------------------ MODULE LinkPaging ------------------------------
(***************************************************************************)
(* Listing a collection page by page along the nextLinks of the service:   *)
(* _list_paginated of the Scanning client, and the same loop four times in *)
(* the Unified Catalog client; each action is one branch of that loop.     *)
(* The service is not trusted to stop, to keep its links within its own    *)
(* origin, or to lead every link onwards; and it may lay out its pages     *)
(* anew while they are read.                                               *)
(***************************************************************************)
EXTENDS Sequences, FiniteSets, Origin

CONSTANT MaxChanges   \* bound on the layouts the service changes to

VARIABLES
  book,        \* the service: what it answers to each URL
  changes,     \* times it changed
  pc,          \* "reading", or how the listing ended
  url,         \* the page to request
  pages,       \* pages requested
  seenLinks,   \* nextLinks followed
  aggregated,  \* the pages read
  requested    \* history: the URLs requested, in order

vars == <<book, changes, pc, url, pages, seenLinks, aggregated, requested>>

Failure == {"limit", "no token", "request failed", "invalid page", "loop", "foreign link"}
Ended == Failure \union {"listed"}

-----------------------------------------------------------------------------
Reading == pc = "reading"
WithinLimit == pages < MaxListPages

(* The loop gives up before the request that would exceed the limit. *)
ExceedLimit ==
  /\ Reading /\ ~WithinLimit
  /\ pc' = "limit" /\ pages' = pages + 1
  /\ UNCHANGED <<book, changes, url, seenLinks, aggregated, requested>>

(* No token: nothing is sent. *)
NoToken ==
  /\ Reading /\ WithinLimit
  /\ pc' = "no token" /\ pages' = pages + 1
  /\ UNCHANGED <<book, changes, url, seenLinks, aggregated, requested>>

Request == pages' = pages + 1 /\ requested' = Append(requested, url)

(* A timeout, a transport error, any status but 200. *)
RequestFails ==
  /\ Reading /\ WithinLimit /\ Request
  /\ pc' = "request failed"
  /\ UNCHANGED <<book, changes, url, seenLinks, aggregated>>

(* A body that is no page: no array of objects, or a link that is no string. *)
InvalidPage ==
  /\ Reading /\ WithinLimit /\ Request
  /\ pc' = "invalid page"
  /\ UNCHANGED <<book, changes, url, seenLinks, aggregated>>

(* Mutant: of the pages read only the last is kept. *)
KeepLastPage ==
  /\ Reading /\ WithinLimit /\ Request
  /\ aggregated' = <<book[url].page>>
  /\ UNCHANGED <<book, changes>>

(* A page was read; what happens next depends on its link. *)
ReadPage ==
  /\ Reading /\ WithinLimit /\ Request
  /\ aggregated' = Append(aggregated, book[url].page)
  /\ UNCHANGED <<book, changes>>

NextLink == book[url].next

LastPage ==
  /\ ReadPage /\ NextLink = NoLink
  /\ pc' = "listed"
  /\ UNCHANGED <<url, seenLinks>>

SeenBefore(link) == link \in seenLinks

RepeatedLink ==
  /\ ReadPage /\ NextLink # NoLink /\ SeenBefore(NextLink)
  /\ pc' = "loop"
  /\ UNCHANGED <<url, seenLinks>>

ForeignLink ==
  /\ ReadPage /\ NextLink # NoLink /\ ~SeenBefore(NextLink) /\ ~SameOrigin(NextLink)
  /\ seenLinks' = seenLinks \union {NextLink}
  /\ pc' = "foreign link"
  /\ UNCHANGED url

Follow ==
  /\ ReadPage /\ NextLink # NoLink /\ ~SeenBefore(NextLink) /\ SameOrigin(NextLink)
  /\ seenLinks' = seenLinks \union {NextLink}
  /\ url' = NextLink
  /\ UNCHANGED pc

Client ==
  \/ ExceedLimit \/ NoToken \/ RequestFails \/ InvalidPage
  \/ LastPage \/ RepeatedLink \/ ForeignLink \/ Follow

(* The collection changes and its pages are laid out anew. *)
Change ==
  /\ Reading /\ changes < MaxChanges
  /\ book' \in Books \ {book}
  /\ changes' = changes + 1
  /\ UNCHANGED <<pc, url, pages, seenLinks, aggregated, requested>>

Init ==
  /\ book \in Books /\ changes = 0
  /\ pc = "reading" /\ url = Initial /\ pages = 0 /\ seenLinks = {} /\ aggregated = <<>>
  /\ requested = <<>>

Next == Client \/ Change

Spec == Init /\ [][Next]_vars

-----------------------------------------------------------------------------
(* Properties. *)

(* Where a request for a URL goes: the token is sent along. *)
Server(link) ==
  LET parts == Parts[link] IN
  <<parts.scheme, parts.host,
    IF parts.port # NoPort THEN parts.port ELSE IF parts.scheme = "https" THEN 443 ELSE 80>>

(* However the service links its pages, no more are requested than the limit, *)
(* none from another server, and none twice, but for the first when a link     *)
(* leads back to the collection itself.                                        *)
RequestsAreBounded ==
  /\ Len(requested) <= MaxListPages
  /\ \A i \in DOMAIN requested : Server(requested[i]) = Server(Initial)
  /\ \A i, j \in DOMAIN requested :
       i < j /\ requested[i] = requested[j] => i = 1 /\ requested[i] = Initial

(* The links from the collection's own URL lead to the last page through these. *)
Chain(links) ==
  /\ links[1] = Initial
  /\ \A i \in 1..(Len(links) - 1) : book[links[i]].next = links[i + 1]
  /\ book[links[Len(links)]].next = NoLink

(* A listing is returned only whole: of a collection that does not change, every *)
(* page of the chain is in it, once and in order, whatever links the pages have. *)
ListedIsWholeChain ==
  pc = "listed" /\ changes = 0 =>
    /\ Chain(requested)
    /\ \A i, j \in DOMAIN requested : i # j => requested[i] # requested[j]
    /\ aggregated = [i \in DOMAIN requested |-> book[requested[i]].page]

(* A collection that does not change, is linked properly and ends within the limit *)
(* is not refused: the loop error means that the links never end, the limit that    *)
(* there were as many pages, and a foreign link that it led to another server or     *)
(* was no plain URL.                                                                *)
ProperCollectionsAreListed ==
  changes = 0 =>
    /\ pc = "loop" => \E i, j \in DOMAIN requested :
                        i < j /\ book[requested[j]].next = book[requested[i]].next
    /\ pc = "limit" => Len(requested) = MaxListPages
    /\ pc = "foreign link" =>
         LET link == book[requested[Len(requested)]].next IN
         \/ Server(link) # Server(Initial)
         \/ ~Parts[link].absolute \/ Parts[link].userinfo \/ Parts[link].fragment
=============================================================================
