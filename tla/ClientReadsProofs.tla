-------------------------- MODULE ClientReadsProofs --------------------------
(***************************************************************************)
(* Proofs about the reads of the Unified Catalog client: about LinkPaging, *)
(* for any URLs, any pages, any limit and a service that may lay out its   *)
(* pages anew at any time; and about ReadModelCapture, for any catalog,    *)
(* any options, any page size and any edits between two requests.          *)
(***************************************************************************)
EXTENDS LinkPaging, ReadModelCapture, FiniteSetTheorems, WellFoundedInduction, TLAPS

-----------------------------------------------------------------------------
(* Listings: what the books say, and where requests go. *)

(* Every book answers a URL with a page and a link. *)
LEMMA BookAnswers ==
  ASSUME NEW b \in Books, NEW link \in Url
  PROVE  b[link].page \in Page /\ b[link].next \in Url \union {NoLink}
BY OriginAssumption

(* The origin that is compared is the server a request goes to. *)
LEMMA OriginIsServer ==
  ASSUME NEW link \in Url
  PROVE  OriginKey(Parts[link]) = Server(link)
BY DEF OriginKey, Server, EffectivePort

LEMMA SameOriginIsSameServer ==
  ASSUME NEW link \in Url, SameOrigin(link)
  PROVE  Server(link) = Server(Initial)
BY OriginIsServer, OriginAssumption DEF SameOrigin

-----------------------------------------------------------------------------
(* The inductive invariant, in parts. *)

Types ==
  /\ book \in Books /\ changes \in Nat
  /\ pc \in Ended \union {"reading"} /\ url \in Url
  /\ pages \in Nat /\ seenLinks \subseteq Url
  /\ aggregated \in Seq(Page) /\ requested \in Seq(Url)

(* While the listing goes on every page counted was requested. *)
Counted ==
  /\ Len(requested) <= MaxListPages
  /\ Reading => Len(requested) = pages

(* The URLs requested are the collection's own and then links followed, none of *)
(* them twice.                                                                  *)
Followed ==
  /\ requested # <<>> => requested[1] = Initial
  /\ \A i \in DOMAIN requested : i > 1 => requested[i] \in seenLinks
  /\ \A i, j \in DOMAIN requested : 1 < i /\ i < j => requested[i] # requested[j]
  /\ \A i \in DOMAIN requested : Server(requested[i]) = Server(Initial)

(* So is the URL to be requested next. *)
NextFollowed ==
  Reading =>
    /\ Server(url) = Server(Initial)
    /\ IF requested = <<>> THEN url = Initial ELSE url \in seenLinks
    /\ \A i \in DOMAIN requested : i > 1 => requested[i] # url

IInv == Types /\ Counted /\ Followed /\ NextFollowed

LEMMA InitInvariant == Init => IInv
<1> SUFFICES ASSUME Init PROVE IInv OBVIOUS
<1>1. Types
  BY OriginAssumption DEF Init, Types, Ended, Failure
<1>2. Counted
  BY OriginAssumption DEF Init, Counted
<1>3. Followed
  BY OriginAssumption DEF Init, Followed
<1>4. NextFollowed
  BY OriginAssumption DEF Init, NextFollowed
<1> QED BY <1>1, <1>2, <1>3, <1>4 DEF IInv

(* What a request does to the sequence of requests. *)
LEMMA RequestAppends ==
  ASSUME IInv, Reading, WithinLimit, Request
  PROVE  /\ requested' \in Seq(Url) /\ requested' # <<>>
         /\ Len(requested) \in Nat /\ Len(requested') = Len(requested) + 1
         /\ DOMAIN requested' = 1..Len(requested') /\ DOMAIN requested = 1..Len(requested)
         /\ \A i \in DOMAIN requested : requested'[i] = requested[i]
         /\ requested'[Len(requested')] = url
         /\ pages' \in Nat /\ Len(requested') = pages'
         /\ Len(requested') <= MaxListPages
<1>1. /\ requested \in Seq(Url) /\ url \in Url /\ requested' = Append(requested, url)
      /\ pages = Len(requested) /\ pages < MaxListPages /\ pages' = pages + 1
      /\ pages \in Nat /\ MaxListPages \in Nat
  BY OriginAssumption DEF IInv, Types, Counted, Reading, WithinLimit, Request
<1> QED BY <1>1

(* The sequence of requests keeps its shape. *)
LEMMA RequestFollows ==
  ASSUME IInv, Reading, WithinLimit, Request, seenLinks \subseteq seenLinks'
  PROVE  Followed'
<1> USE RequestAppends
<1>1. IInv
  OBVIOUS
<1>2. requested'[1] = Initial
  <2>1. CASE requested = <<>>
    BY <2>1 DEF IInv, NextFollowed, Reading
  <2>2. CASE requested # <<>>
    <3>1. 1 \in DOMAIN requested
      BY <2>2 DEF IInv, Types
    <3> QED BY <2>2, <3>1 DEF IInv, Followed
  <2> QED BY <2>1, <2>2
<1>3. ASSUME NEW i \in DOMAIN requested', i > 1 PROVE requested'[i] \in seenLinks'
  <2>1. CASE i \in DOMAIN requested
    BY <1>3, <2>1 DEF IInv, Followed
  <2>2. CASE i = Len(requested')
    BY <1>3, <2>2 DEF IInv, NextFollowed
  <2> QED BY <1>3, <2>1, <2>2
<1>4. ASSUME NEW i \in DOMAIN requested', NEW j \in DOMAIN requested', 1 < i, i < j
      PROVE  requested'[i] # requested'[j]
  <2>1. i \in DOMAIN requested
    BY <1>4
  <2>2. CASE j \in DOMAIN requested
    BY <1>4, <2>1, <2>2 DEF IInv, Followed
  <2>3. CASE j = Len(requested')
    BY <1>4, <2>1, <2>3 DEF IInv, NextFollowed
  <2> QED BY <1>4, <2>2, <2>3
<1>5. ASSUME NEW i \in DOMAIN requested' PROVE Server(requested'[i]) = Server(Initial)
  <2>1. CASE i \in DOMAIN requested
    BY <2>1 DEF IInv, Followed
  <2>2. CASE i = Len(requested')
    BY <2>2 DEF IInv, NextFollowed
  <2> QED BY <1>5, <2>1, <2>2
<1> QED BY <1>2, <1>3, <1>4, <1>5 DEF Followed, Server

(* A page that was read is one more page. *)
LEMMA ReadPageAggregates ==
  ASSUME IInv, ReadPage
  PROVE  /\ aggregated' \in Seq(Page) /\ NextLink \in Url \union {NoLink}
         /\ Reading /\ WithinLimit /\ Request /\ book' = book /\ changes' = changes
BY BookAnswers DEF IInv, Types, ReadPage, NextLink

(* A step that ends the listing keeps the invariant. *)
LEMMA EndKeepsInvariant ==
  ASSUME IInv, pc' \in Ended, book' = book, changes' \in Nat, url' = url, pages' \in Nat,
         seenLinks' \in SUBSET Url, seenLinks \subseteq seenLinks', aggregated' \in Seq(Page),
         (Reading /\ WithinLimit /\ Request) \/ UNCHANGED requested
  PROVE  IInv'
<1>1. ~Reading'
  BY DEF Reading, Ended, Failure
<1>2. CASE Reading /\ WithinLimit /\ Request
  <2>1. Types'
    BY <1>2, RequestAppends DEF IInv, Types
  <2>2. Counted'
    BY <1>1, <1>2, RequestAppends DEF Counted
  <2>3. Followed'
    BY <1>2, RequestFollows
  <2> QED BY <1>1, <2>1, <2>2, <2>3 DEF IInv, NextFollowed
<1>3. CASE UNCHANGED requested
  <2>1. Types'
    BY <1>3 DEF IInv, Types
  <2>2. Counted'
    BY <1>1, <1>3 DEF IInv, Counted
  <2>3. Followed'
    BY <1>3 DEF IInv, Followed, Server
  <2> QED BY <1>1, <2>1, <2>2, <2>3 DEF IInv, NextFollowed
<1> QED BY <1>2, <1>3

LEMMA FollowKeepsInvariant == ASSUME IInv, Follow PROVE IInv'
<1>1. /\ aggregated' \in Seq(Page) /\ NextLink \in Url \union {NoLink}
      /\ Reading /\ WithinLimit /\ Request /\ book' = book /\ changes' = changes
  BY ReadPageAggregates DEF Follow
<1>2. /\ NextLink \in Url /\ NextLink \notin seenLinks /\ url' = NextLink
      /\ seenLinks' = seenLinks \union {NextLink} /\ pc' = pc /\ SameOrigin(NextLink)
  BY <1>1 DEF Follow, SeenBefore
<1>3. Types'
  BY <1>1, <1>2, RequestAppends DEF IInv, Types
<1>4. Counted'
  BY <1>1, RequestAppends DEF Counted
<1>5. Followed'
  BY <1>1, <1>2, RequestFollows
<1>6. Server(url') = Server(Initial)
  BY <1>2, SameOriginIsSameServer
<1>7. requested' # <<>> /\ url' \in seenLinks'
  BY <1>1, <1>2, RequestAppends
<1>8. ASSUME NEW i \in DOMAIN requested', i > 1 PROVE requested'[i] # url'
  <2>1. requested'[i] \in seenLinks
    <3>1. CASE i \in DOMAIN requested
      BY <1>1, <1>8, <3>1, RequestAppends DEF IInv, Followed
    <3>2. CASE i = Len(requested')
      BY <1>1, <1>8, <3>2, RequestAppends DEF IInv, NextFollowed
    <3> QED BY <1>1, <1>8, <3>1, <3>2, RequestAppends
  <2> QED BY <1>2, <2>1
<1>9. NextFollowed'
  BY <1>6, <1>7, <1>8 DEF NextFollowed, Server
<1> QED BY <1>3, <1>4, <1>5, <1>9 DEF IInv

LEMMA StepKeepsInvariant == IInv /\ [Next]_vars => IInv'
<1> SUFFICES ASSUME IInv, [Next]_vars PROVE IInv' OBVIOUS
<1>0. pages \in Nat /\ changes \in Nat
  BY DEF IInv, Types
<1> USE DEF Ended, Failure
<1>1. CASE ExceedLimit
  <2>0. pages' = pages + 1 /\ changes' = changes
    BY <1>1 DEF ExceedLimit
  <2>4. pc' \in Ended
    BY <1>1 DEF ExceedLimit
  <2>1. pages' \in Nat /\ changes' \in Nat
    BY <1>0, <2>0
  <2>2. aggregated' \in Seq(Page) /\ seenLinks' \in SUBSET Url /\ seenLinks \subseteq seenLinks'
    BY <1>1 DEF ExceedLimit, IInv, Types
  <2>3. book' = book /\ url' = url /\ UNCHANGED requested
    BY <1>1 DEF ExceedLimit
  <2> QED BY <2>1, <2>2, <2>3, <2>4, EndKeepsInvariant
<1>2. CASE NoToken
  <2>0. pages' = pages + 1 /\ changes' = changes
    BY <1>2 DEF NoToken
  <2>4. pc' \in Ended
    BY <1>2 DEF NoToken
  <2>1. pages' \in Nat /\ changes' \in Nat
    BY <1>0, <2>0
  <2>2. aggregated' \in Seq(Page) /\ seenLinks' \in SUBSET Url /\ seenLinks \subseteq seenLinks'
    BY <1>2 DEF NoToken, IInv, Types
  <2>3. book' = book /\ url' = url /\ UNCHANGED requested
    BY <1>2 DEF NoToken
  <2> QED BY <2>1, <2>2, <2>3, <2>4, EndKeepsInvariant
<1>3. CASE RequestFails
  BY <1>3, EndKeepsInvariant, RequestAppends DEF RequestFails, IInv, Types
<1>4. CASE InvalidPage
  BY <1>4, EndKeepsInvariant, RequestAppends DEF InvalidPage, IInv, Types
<1>5. CASE LastPage
  BY <1>5, EndKeepsInvariant, ReadPageAggregates, RequestAppends DEF LastPage, IInv, Types
<1>6. CASE RepeatedLink
  BY <1>6, EndKeepsInvariant, ReadPageAggregates, RequestAppends DEF RepeatedLink, IInv, Types
<1>7. CASE ForeignLink
  BY <1>7, EndKeepsInvariant, ReadPageAggregates, RequestAppends DEF ForeignLink, IInv, Types
<1>8. CASE Follow
  BY <1>8, FollowKeepsInvariant
<1>9. CASE Change
  <2>0. book' \in Books /\ changes' = changes + 1 /\ pc' = pc /\ url' = url /\ pages' = pages
    BY <1>9 DEF Change
  <2>1. changes' \in Nat
    BY <1>0, <2>0
  <2>3. aggregated' = aggregated /\ requested' = requested /\ seenLinks' = seenLinks
    BY <1>9 DEF Change
  <2>4. Types'
    BY <2>0, <2>1, <2>3 DEF IInv, Types
  <2>2. Counted' /\ Followed' /\ NextFollowed'
    BY <1>9 DEF Change, IInv, Counted, Followed, NextFollowed, Reading, Server
  <2> QED BY <2>2, <2>4 DEF IInv
<1>10. CASE UNCHANGED vars
  <2>1. Types'
    BY <1>10 DEF vars, IInv, Types
  <2>2. Counted' /\ Followed' /\ NextFollowed'
    BY <1>10 DEF vars, IInv, Counted, Followed, NextFollowed, Reading, Server
  <2> QED BY <2>1, <2>2 DEF IInv
<1> QED
  BY <1>1, <1>2, <1>3, <1>4, <1>5, <1>6, <1>7, <1>8, <1>9, <1>10 DEF Next, Client

(* Whatever the service answers, and however often it lays out its pages anew, no *)
(* more pages are requested than the limit allows, none from another server, and  *)
(* none twice, but for the collection's own (_list_paginated).                    *)
THEOREM Bounded == Spec => []RequestsAreBounded
<1>1. IInv => RequestsAreBounded
  <2> SUFFICES ASSUME IInv PROVE RequestsAreBounded OBVIOUS
  <2>1. ASSUME NEW i \in DOMAIN requested, NEW j \in DOMAIN requested, i < j,
               requested[i] = requested[j]
        PROVE  i = 1 /\ requested[i] = Initial
    <3>1. DOMAIN requested = 1..Len(requested) /\ Len(requested) \in Nat
      BY DEF IInv, Types
    <3>2. i = 1
      BY <2>1, <3>1 DEF IInv, Followed
    <3> QED BY <2>1, <3>1, <3>2 DEF IInv, Followed
  <2> QED BY <2>1 DEF IInv, Counted, Followed, RequestsAreBounded
<1> QED BY <1>1, InitInvariant, StepKeepsInvariant, PTL DEF Spec

-----------------------------------------------------------------------------
(* A collection that does not change: the pages read are the chain so far, and *)
(* every link seen is one of them or the next.                                 *)
Linked == \A i \in 1..(Len(requested) - 1) : book[requested[i]].next = requested[i + 1]
Gathered == aggregated = [i \in DOMAIN requested |-> book[requested[i]].page]
Ahead ==
  Reading =>
    /\ requested # <<>> => book[requested[Len(requested)]].next = url
    /\ seenLinks \subseteq
         {requested[i] : i \in 2..Len(requested)} \union (IF requested = <<>> THEN {} ELSE {url})
Complete ==
  pc = "listed" => requested # <<>> /\ book[requested[Len(requested)]].next = NoLink

Chained ==
  changes = 0 =>
    Ahead /\ Complete /\ (pc \in {"reading", "listed"} => Linked /\ Gathered)

WInv == IInv /\ Chained /\ ProperCollectionsAreListed

LEMMA InitChained == Init => Chained /\ ProperCollectionsAreListed
<1> SUFFICES ASSUME Init PROVE Chained /\ ProperCollectionsAreListed OBVIOUS
<1>1. Chained
  BY DEF Init, Chained, Linked, Gathered, Ahead, Complete
<1>2. ProperCollectionsAreListed
  BY DEF Init, ProperCollectionsAreListed
<1> QED BY <1>1, <1>2

(* A page that was read is the next of the chain. *)
LEMMA PageChains ==
  ASSUME IInv, Chained, ReadPage, changes = 0
  PROVE  /\ Linked' /\ Gathered'
         /\ book'[requested'[Len(requested')]].next = NextLink
<1>1. /\ aggregated' \in Seq(Page) /\ Reading /\ WithinLimit /\ Request /\ book' = book
  BY ReadPageAggregates
<1>2. /\ requested' \in Seq(Url) /\ Len(requested) \in Nat /\ Len(requested') = Len(requested) + 1
      /\ DOMAIN requested' = 1..Len(requested') /\ DOMAIN requested = 1..Len(requested)
      /\ \A i \in DOMAIN requested : requested'[i] = requested[i]
      /\ requested'[Len(requested')] = url
  BY <1>1, RequestAppends
<1>3. Linked'
  <2> SUFFICES ASSUME NEW i \in 1..(Len(requested') - 1)
               PROVE  book'[requested'[i]].next = requested'[i + 1]
    BY DEF Linked
  <2>0. Len(requested) \in Nat /\ Len(requested') = Len(requested) + 1
    BY <1>2
  <2>3. i < Len(requested) \/ i = Len(requested)
    BY <2>0
  <2>1. CASE i < Len(requested)
    BY <1>1, <1>2, <2>1 DEF Chained, Linked, Reading
  <2>2. CASE i = Len(requested)
    <3>1. requested # <<>>
      BY <1>2, <2>2
    <3> QED BY <1>1, <1>2, <2>2, <3>1 DEF Chained, Ahead
  <2> QED BY <2>1, <2>2, <2>3
<1>4. Gathered'
  <2>1. aggregated = [i \in DOMAIN requested |-> book[requested[i]].page]
    BY <1>1 DEF Chained, Gathered, Reading
  <2>2. aggregated \in Seq(Page) /\ book[url].page \in Page
    BY BookAnswers DEF IInv, Types
  <2>3. Len(aggregated) = Len(requested)
    BY <1>2, <2>1, <2>2
  <2>4. /\ aggregated' = Append(aggregated, book[url].page)
        /\ DOMAIN aggregated' = 1..Len(requested')
    BY <1>2, <2>2, <2>3 DEF ReadPage
  <2>5. ASSUME NEW i \in DOMAIN requested' PROVE aggregated'[i] = book'[requested'[i]].page
    <3>1. CASE i \in DOMAIN requested
      <4>1. aggregated'[i] = aggregated[i]
        BY <1>2, <2>2, <2>3, <2>4, <3>1
      <4>2. aggregated[i] = book[requested[i]].page
        BY <2>1, <3>1
      <4> QED BY <1>1, <1>2, <3>1, <4>1, <4>2
    <3>2. CASE i = Len(requested')
      BY <1>1, <1>2, <2>2, <2>3, <2>4, <3>2
    <3> QED BY <1>2, <3>1, <3>2
  <2>6. aggregated' = [i \in DOMAIN aggregated' |-> aggregated'[i]]
    BY <1>1
  <2> QED BY <1>2, <2>4, <2>5, <2>6 DEF Gathered
<1> QED BY <1>1, <1>2, <1>3, <1>4 DEF NextLink

(* Following a link keeps the chain. *)
LEMMA FollowKeepsChained == ASSUME WInv, Follow PROVE Chained' /\ ProperCollectionsAreListed'
<1>1. /\ NextLink \in Url /\ Reading /\ WithinLimit /\ Request /\ book' = book /\ changes' = changes
      /\ url' = NextLink /\ seenLinks' = seenLinks \union {NextLink} /\ pc' = pc /\ ReadPage
  BY ReadPageAggregates DEF Follow, WInv
<1>2. /\ Len(requested) \in Nat /\ Len(requested') = Len(requested) + 1 /\ requested' # <<>>
      /\ DOMAIN requested = 1..Len(requested)
      /\ \A i \in DOMAIN requested : requested'[i] = requested[i]
      /\ requested'[Len(requested')] = url
  BY <1>1, RequestAppends DEF WInv
<1>3. ASSUME changes' = 0
      PROVE  Ahead' /\ Complete' /\ (pc' \in {"reading", "listed"} => Linked' /\ Gathered')
  <2>1. Linked' /\ Gathered' /\ book'[requested'[Len(requested')]].next = NextLink
    BY <1>1, <1>3, PageChains DEF WInv
  <2>2. ASSUME NEW link \in seenLinks'
        PROVE  \/ link \in {requested'[i] : i \in 2..Len(requested')}
               \/ link = url'
    <3>1. CASE link = NextLink
      BY <1>1, <3>1
    <3>2. CASE link \in {requested[i] : i \in 2..Len(requested)}
      BY <1>2, <3>2
    <3>3. CASE link = url /\ requested # <<>>
      <4>1. Len(requested') \in 2..Len(requested')
        BY <1>2, <3>3
      <4> QED BY <1>2, <3>3, <4>1
    <3>4. \/ link = NextLink
          \/ link \in {requested[i] : i \in 2..Len(requested)}
          \/ link = url /\ requested # <<>>
      BY <1>1, <1>3, <2>2 DEF WInv, Chained, Ahead
    <3> QED BY <3>1, <3>2, <3>3, <3>4
  <2>3. Ahead'
    BY <1>1, <1>2, <2>1, <2>2 DEF Ahead
  <2>4. Complete'
    BY <1>1 DEF Complete, Reading
  <2> QED BY <2>1, <2>3, <2>4
<1>4. Chained'
  BY <1>3 DEF Chained
<1>5. ProperCollectionsAreListed'
  BY <1>1 DEF ProperCollectionsAreListed, Reading
<1> QED BY <1>4, <1>5

(* A step that ends the listing without a page of its own. *)
LEMMA FailureKeepsChained ==
  ASSUME WInv, ExceedLimit \/ NoToken \/ RequestFails \/ InvalidPage
  PROVE  Chained' /\ ProperCollectionsAreListed'
<1>1. pc' \in {"limit", "no token", "request failed", "invalid page"} /\ Reading
  BY DEF ExceedLimit, NoToken, RequestFails, InvalidPage
<1>2. Chained'
  BY <1>1 DEF Chained, Ahead, Complete, Reading
<1>3. pc' = "limit" => Len(requested') = MaxListPages
  <2>1. CASE ExceedLimit
    <3>1. requested' = requested /\ Len(requested) = pages /\ Len(requested) <= MaxListPages
      BY <2>1 DEF ExceedLimit, WInv, IInv, Counted
    <3>2. ~(pages < MaxListPages) /\ pages \in Nat /\ MaxListPages \in Nat
      BY <2>1, OriginAssumption DEF ExceedLimit, WithinLimit, WInv, IInv, Types
    <3> QED BY <3>1, <3>2
  <2>2. CASE NoToken \/ RequestFails \/ InvalidPage
    BY <2>2 DEF NoToken, RequestFails, InvalidPage
  <2> QED BY <2>1, <2>2
<1> QED BY <1>1, <1>2, <1>3 DEF ProperCollectionsAreListed

LEMMA LastPageKeepsChained ==
  ASSUME WInv, LastPage
  PROVE  Chained' /\ ProperCollectionsAreListed'
<1>1. /\ ReadPage /\ NextLink = NoLink /\ pc' = "listed" /\ changes' = changes
      /\ Reading /\ WithinLimit /\ Request
  BY ReadPageAggregates DEF LastPage, WInv
<1>2. requested' # <<>>
  BY <1>1, RequestAppends DEF WInv
<1>3. ASSUME changes' = 0 PROVE Linked' /\ Gathered' /\ Complete'
  BY <1>1, <1>2, <1>3, PageChains DEF WInv, Complete
<1>4. Chained'
  BY <1>1, <1>3 DEF Chained, Ahead, Reading
<1> QED BY <1>1, <1>4 DEF ProperCollectionsAreListed

(* The link that was seen before is that of an earlier page too. *)
LEMMA RepeatedLinkKeepsChained ==
  ASSUME WInv, RepeatedLink
  PROVE  Chained' /\ ProperCollectionsAreListed'
<1>1. /\ ReadPage /\ NextLink \in seenLinks /\ pc' = "loop" /\ changes' = changes
      /\ Reading /\ WithinLimit /\ Request /\ book' = book
  BY ReadPageAggregates DEF RepeatedLink, SeenBefore, WInv
<1>2. /\ Len(requested) \in Nat /\ Len(requested') = Len(requested) + 1
      /\ DOMAIN requested' = 1..Len(requested') /\ DOMAIN requested = 1..Len(requested)
      /\ \A i \in DOMAIN requested : requested'[i] = requested[i]
      /\ requested'[Len(requested')] = url
  BY <1>1, RequestAppends DEF WInv
<1>3. ASSUME changes' = 0
      PROVE  \E i, j \in DOMAIN requested' :
               i < j /\ book'[requested'[j]].next = book'[requested'[i]].next
  <2>1. Linked' /\ book'[requested'[Len(requested')]].next = NextLink
    BY <1>1, <1>3, PageChains DEF WInv
  <2>2. \/ NextLink \in {requested[i] : i \in 2..Len(requested)}
        \/ NextLink = url /\ requested # <<>>
    BY <1>1, <1>3 DEF WInv, Chained, Ahead
  <2>3. \E k \in 2..Len(requested') : requested'[k] = NextLink
    <3>1. CASE NextLink \in {requested[i] : i \in 2..Len(requested)}
      <4>1. PICK k \in 2..Len(requested) : requested[k] = NextLink
        BY <3>1
      <4>2. k \in DOMAIN requested /\ k \in 2..Len(requested')
        BY <1>2
      <4> QED BY <1>2, <4>1, <4>2
    <3>2. CASE NextLink = url /\ requested # <<>>
      <4>1. Len(requested') \in 2..Len(requested')
        BY <1>2, <3>2
      <4> QED BY <1>2, <3>2, <4>1
    <3> QED BY <2>2, <3>1, <3>2
  <2>4. PICK k \in 2..Len(requested') : requested'[k] = NextLink
    BY <2>3
  <2>5. /\ k - 1 \in 1..(Len(requested') - 1) /\ (k - 1) + 1 = k
        /\ k - 1 \in DOMAIN requested' /\ Len(requested') \in DOMAIN requested'
        /\ k - 1 < Len(requested')
    BY <1>2
  <2>6. book'[requested'[k - 1]].next = NextLink
    BY <2>1, <2>4, <2>5 DEF Linked
  <2> QED BY <2>1, <2>5, <2>6
<1>4. Chained'
  BY <1>1 DEF Chained, Ahead, Complete, Reading
<1> QED BY <1>1, <1>3, <1>4 DEF ProperCollectionsAreListed

LEMMA ForeignLinkKeepsChained ==
  ASSUME WInv, ForeignLink
  PROVE  Chained' /\ ProperCollectionsAreListed'
<1>1. /\ ReadPage /\ NextLink \in Url /\ ~SameOrigin(NextLink) /\ pc' = "foreign link"
      /\ changes' = changes
  BY ReadPageAggregates DEF ForeignLink, WInv
<1>2. Chained'
  BY <1>1 DEF Chained, Ahead, Complete, Reading
<1>3. \/ Server(NextLink) # Server(Initial)
      \/ ~Parts[NextLink].absolute \/ Parts[NextLink].userinfo \/ Parts[NextLink].fragment
  BY <1>1, OriginIsServer, OriginAssumption DEF SameOrigin
<1>4. changes' = 0 => book'[requested'[Len(requested')]].next = NextLink
  BY <1>1, PageChains DEF WInv
<1>5. ProperCollectionsAreListed'
  <2> SUFFICES ASSUME changes' = 0
               PROVE  LET link == book'[requested'[Len(requested')]].next IN
                      \/ Server(link) # Server(Initial)
                      \/ ~Parts[link].absolute \/ Parts[link].userinfo \/ Parts[link].fragment
    BY <1>1 DEF ProperCollectionsAreListed, Server
  <2> QED BY <1>3, <1>4
<1> QED BY <1>2, <1>5

LEMMA StepKeepsChained == WInv /\ [Next]_vars => WInv'
<1> SUFFICES ASSUME WInv, [Next]_vars PROVE Chained' /\ ProperCollectionsAreListed'
  BY StepKeepsInvariant DEF WInv
<1>1. CASE ExceedLimit \/ NoToken \/ RequestFails \/ InvalidPage
  BY <1>1, FailureKeepsChained
<1>2. CASE LastPage
  BY <1>2, LastPageKeepsChained
<1>3. CASE RepeatedLink
  BY <1>3, RepeatedLinkKeepsChained
<1>4. CASE ForeignLink
  BY <1>4, ForeignLinkKeepsChained
<1>5. CASE Follow
  BY <1>5, FollowKeepsChained
<1>6. CASE Change
  <2>1. changes' # 0
    <3>1. changes \in Nat
      BY DEF WInv, IInv, Types
    <3>2. changes' = changes + 1
      BY <1>6 DEF Change
    <3> QED BY <3>1, <3>2
  <2> QED BY <2>1 DEF Chained, ProperCollectionsAreListed
<1>7. CASE UNCHANGED vars
  <2>1. Chained'
    BY <1>7 DEF vars, WInv, Chained, Linked, Gathered, Ahead, Complete, Reading
  <2>2. ProperCollectionsAreListed'
    <3>1. UNCHANGED <<changes, pc, book, requested>> /\ ProperCollectionsAreListed
      BY <1>7 DEF vars, WInv
    <3> QED BY <3>1 DEF ProperCollectionsAreListed
  <2> QED BY <2>1, <2>2
<1> QED
  BY <1>1, <1>2, <1>3, <1>4, <1>5, <1>6, <1>7 DEF Next, Client

(* A page twice would have led on both times, and to the same link. *)
LEMMA ListedWhole == WInv => ListedIsWholeChain
<1> SUFFICES ASSUME WInv, pc = "listed", changes = 0
             PROVE  /\ Chain(requested)
                    /\ \A i, j \in DOMAIN requested : i # j => requested[i] # requested[j]
                    /\ aggregated = [i \in DOMAIN requested |-> book[requested[i]].page]
  BY DEF ListedIsWholeChain
<1>1. requested # <<>> /\ book[requested[Len(requested)]].next = NoLink /\ Linked /\ Gathered
  BY DEF WInv, Chained, Complete
<1>2. /\ requested \in Seq(Url) /\ Len(requested) \in Nat \ {0}
      /\ DOMAIN requested = 1..Len(requested)
  BY <1>1 DEF WInv, IInv, Types
<1>3. Chain(requested)
  BY <1>1 DEF WInv, IInv, Followed, Chain, Linked
<1>4. ASSUME NEW i \in DOMAIN requested, NEW j \in DOMAIN requested, i < j
      PROVE  requested[i] # requested[j]
  <2>1. CASE i > 1
    BY <1>4, <2>1 DEF WInv, IInv, Followed
  <2>2. CASE i = 1
    <3> SUFFICES ASSUME requested[1] = requested[j] PROVE FALSE
      BY <2>2
    <3>1. book[requested[1]].next = requested[2] /\ requested[2] \in Url
      BY <1>1, <1>2, <1>4, <2>2 DEF Linked
    <3>2. CASE j = Len(requested)
      BY <1>1, <3>1, <3>2, OriginAssumption
    <3>3. CASE j < Len(requested)
      <4>1. book[requested[j]].next = requested[j + 1] /\ j + 1 \in DOMAIN requested
        BY <1>1, <1>2, <1>4, <3>3 DEF Linked
      <4>2. 2 \in DOMAIN requested /\ 1 < 2 /\ 2 < j + 1
        BY <1>2, <1>4, <2>2, <3>3
      <4> QED BY <3>1, <4>1, <4>2 DEF WInv, IInv, Followed
    <3> QED BY <1>2, <3>2, <3>3
  <2> QED BY <1>2, <2>1, <2>2
<1>5. ASSUME NEW i \in DOMAIN requested, NEW j \in DOMAIN requested, i # j
      PROVE  requested[i] # requested[j]
  <2>1. i < j \/ j < i
    BY <1>2, <1>5
  <2> QED BY <1>4, <2>1
<1> QED BY <1>1, <1>3, <1>5 DEF Gathered

(* Of a collection that does not change a listing is returned only whole: all pages *)
(* of the chain, in order and none twice, although the loop looks at links only     *)
(* (_list_paginated).                                                               *)
THEOREM ListedOnlyWhole == Spec => []ListedIsWholeChain
<1>1. Init => WInv
  BY InitInvariant, InitChained DEF WInv
<1> QED BY <1>1, StepKeepsChained, ListedWhole, PTL DEF Spec

(* Of a collection that does not change the loop error means that the links never  *)
(* end, the limit that there were as many pages, and a refused link that it led to *)
(* another server or was no plain URL (_list_paginated).                           *)
THEOREM NothingProperRefused == Spec => []ProperCollectionsAreListed
<1>1. Init => WInv
  BY InitInvariant, InitChained DEF WInv
<1>2. WInv => ProperCollectionsAreListed
  BY DEF WInv
<1> QED BY <1>1, <1>2, StepKeepsChained, PTL DEF Spec

-----------------------------------------------------------------------------
(* Captures: places in an ordered collection. *)

(* A nonempty set of naturals has a least element. *)
LEMMA LeastNatural ==
  ASSUME NEW S, S \subseteq Nat, S # {}
  PROVE  \E x \in S : \A y \in S : x <= y
<1> DEFINE Less == {p \in Nat \X Nat : p[1] < p[2]}
<1>1. IsWellFoundedOn(Less, Nat)
  BY NatLessThanWellFounded DEF OpToRel
<1> HIDE DEF Less
<1>2. PICK x \in S : \A y \in S : ~(<<y, x>> \in Less)
  BY <1>1, WFMin
<1>3. ASSUME NEW y \in S PROVE x <= y
  <2>1. <<y, x>> \in Nat \X Nat
    OBVIOUS
  <2>2. ~(<<y, x>>[1] < <<y, x>>[2])
    BY <1>2, <2>1 DEF Less
  <2> QED BY <2>2
<1> QED BY <1>3

LEMMA PartSize ==
  ASSUME NEW S, IsFiniteSet(S), NEW T, T \subseteq S
  PROVE  /\ IsFiniteSet(T) /\ Cardinality(T) \in Nat /\ Cardinality(S) \in Nat
         /\ Cardinality(T) <= Cardinality(S)
         /\ T # S => Cardinality(T) < Cardinality(S)
<1>1. T \in SUBSET S
  OBVIOUS
<1>2. /\ IsFiniteSet(T) /\ Cardinality(T) <= Cardinality(S)
      /\ Cardinality(S) = Cardinality(T) => S = T
  BY <1>1, FS_Subset
<1>3. Cardinality(T) \in Nat /\ Cardinality(S) \in Nat
  BY <1>2, FS_CardinalityType
<1> QED BY <1>2, <1>3

(* Places are told apart by the order, and lie below the size. *)
LEMMA PlacesGrow ==
  ASSUME NEW S, S \subseteq Nat, IsFiniteSet(S)
  PROVE  /\ \A x \in Nat : Place(S, x) \in Nat
         /\ \A x \in S : Place(S, x) < Cardinality(S)
         /\ \A x, y \in S : x < y => Place(S, x) < Place(S, y)
<1> DEFINE Below(x) == {y \in S : y < x}
<1>1. ASSUME NEW x \in Nat PROVE Place(S, x) \in Nat
  BY PartSize DEF Place
<1>2. ASSUME NEW x \in S PROVE Place(S, x) < Cardinality(S)
  <2>1. Below(x) \subseteq S /\ x \notin Below(x)
    OBVIOUS
  <2> HIDE DEF Below
  <2>2. Cardinality(Below(x)) < Cardinality(S)
    BY <2>1, <1>2, PartSize
  <2> QED BY <2>2 DEF Place, Below
<1>3. ASSUME NEW x \in S, NEW y \in S, x < y PROVE Place(S, x) < Place(S, y)
  <2>0. (\A z \in S : z < x => z < y) /\ ~(x < x)
    BY <1>3
  <2>1. Below(x) \subseteq Below(y) /\ x \in Below(y) /\ x \notin Below(x)
    BY <2>0, <1>3, Zenon
  <2>2. IsFiniteSet(Below(y))
    BY PartSize
  <2> HIDE DEF Below
  <2>3. Cardinality(Below(x)) < Cardinality(Below(y))
    BY <2>1, <2>2, PartSize
  <2> QED BY <2>3 DEF Place, Below
<1> QED BY <1>1, <1>2, <1>3

(* No place but those beyond the size is left out. *)
LEMMA FirstPlaces ==
  ASSUME NEW S, S \subseteq Nat, IsFiniteSet(S), NEW n \in Nat, n <= Cardinality(S)
  PROVE  Cardinality({x \in S : Place(S, x) < n}) = n
<1> DEFINE Front(m) == {x \in S : Place(S, x) < m}
           Wrong == {m \in Nat : m <= Cardinality(S) /\ Cardinality(Front(m)) # m}
<1>0. /\ Cardinality(S) \in Nat /\ \A x \in S : Place(S, x) \in Nat
      /\ \A x, y \in S : x < y => Place(S, x) < Place(S, y)
  BY PlacesGrow, FS_CardinalityType
<1>1. SUFFICES ASSUME Wrong # {} PROVE FALSE
  OBVIOUS
<1>2. PICK m \in Wrong : \A k \in Wrong : m <= k
  <2>1. Wrong \subseteq Nat /\ Wrong # {}
    BY <1>1
  <2> HIDE DEF Wrong
  <2> QED BY <2>1, LeastNatural
<1>3. m # 0
  <2>0. ASSUME NEW x \in S PROVE ~(Place(S, x) < 0)
    BY <1>0
  <2>1. Front(0) = {}
    BY <2>0
  <2> QED BY <2>1, FS_EmptySet
<1>4. m \in Nat /\ m - 1 \in Nat /\ m <= Cardinality(S) /\ m - 1 < Cardinality(S)
  BY <1>3, <1>0
<1>5. Cardinality(Front(m - 1)) = m - 1
  <2>1. m - 1 \notin Wrong
    BY <1>2, <1>4
  <2> QED BY <2>1, <1>4, <1>0
<1>6. PICK h \in S \ Front(m - 1) : \A y \in S \ Front(m - 1) : h <= y
  <2>1. Front(m - 1) \subseteq S /\ Front(m - 1) # S
    BY <1>4, <1>5
  <2>2. S \ Front(m - 1) \subseteq Nat /\ S \ Front(m - 1) # {}
    BY <2>1
  <2> HIDE DEF Front
  <2> QED BY <2>2, LeastNatural
<1>7. {y \in S : y < h} = Front(m - 1)
  <2>1. ASSUME NEW y \in S, y < h PROVE y \in Front(m - 1)
    BY <2>1, <1>6
  <2>2. ASSUME NEW y \in Front(m - 1) PROVE y < h
    <3>1. y # h /\ y \in Nat /\ h \in Nat /\ Place(S, y) < m - 1 /\ ~(Place(S, h) < m - 1)
      BY <1>6
    <3>2. CASE h < y
      <4>1. Place(S, h) < Place(S, y)
        BY <3>2, <1>0
      <4> QED BY <4>1, <3>1, <1>0, <1>4
    <3> QED BY <3>1, <3>2
  <2> QED BY <2>1, <2>2
<1>8. Place(S, h) = m - 1
  BY <1>7, <1>5 DEF Place
<1>9. Front(m) = Front(m - 1) \union {h}
  <2>1. ASSUME NEW y \in Front(m), y \notin Front(m - 1) PROVE y = h
    <3>1. Place(S, y) = m - 1
      BY <2>1, <1>0, <1>4
    <3>2. y \in Nat /\ h \in Nat /\ ~(y < h) /\ ~(h < y)
      BY <3>1, <1>8, <1>0, <1>4
    <3> QED BY <3>2
  <2>2. ASSUME NEW y \in S, Place(S, y) < m - 1 PROVE Place(S, y) < m
    BY <2>2, <1>0, <1>4
  <2>3. h \in Front(m)
    BY <1>8, <1>4
  <2> QED BY <2>1, <2>2, <2>3
<1>10. Cardinality(Front(m)) = m
  <2>1. IsFiniteSet(Front(m - 1)) /\ h \notin Front(m - 1)
    BY PartSize, <1>6
  <2> HIDE DEF Front
  <2>2. Cardinality(Front(m - 1) \union {h}) = m - 1 + 1
    BY <2>1, <1>5, FS_AddElement
  <2> QED BY <2>2, <1>9, <1>4
<1> QED BY <1>10, <1>2

(* In the part that starts at a place, places are counted from there. *)
LEMMA PlacesInRest ==
  ASSUME NEW S, S \subseteq Nat, IsFiniteSet(S), NEW n \in Nat,
         NEW x \in S, Place(S, x) >= n
  PROVE  Place({y \in S : Place(S, y) >= n}, x) = Place(S, x) - n
<1> DEFINE Behind == {y \in S : y < x}
           Front == {y \in S : Place(S, y) < n}
           Later == {y \in {z \in S : Place(S, z) >= n} : y < x}
<1>1. /\ \A y \in S : Place(S, y) \in Nat
      /\ \A y, z \in S : y < z => Place(S, y) < Place(S, z)
  BY PlacesGrow
<1>2. Cardinality(S) \in Nat /\ n <= Cardinality(S)
  <2>1. Cardinality(S) \in Nat /\ Place(S, x) < Cardinality(S)
    BY PlacesGrow, FS_CardinalityType
  <2> QED BY <2>1, <1>1
<1>3. Cardinality(Front) = n
  BY <1>2, FirstPlaces
<1>4. Behind = Front \union Later /\ Front \intersect Later = {}
  <2>1. ASSUME NEW y \in Front PROVE y < x
    <3>1. y \in Nat /\ x \in Nat /\ Place(S, y) < Place(S, x)
      BY <1>1
    <3>2. ~(x < y) /\ x # y
      BY <3>1, <1>1
    <3> QED BY <3>1, <3>2
  <2>2. Behind \subseteq Front \union Later
    <3>1. \A y \in S : Place(S, y) < n \/ Place(S, y) >= n
      BY <1>1
    <3> QED BY <3>1, Zenon
  <2>3. Front \subseteq Behind /\ Later \subseteq Behind
    BY <2>1
  <2>4. ASSUME NEW y \in S PROVE ~(Place(S, y) < n /\ Place(S, y) >= n)
    BY <1>1
  <2> QED BY <2>2, <2>3, <2>4
<1>5. IsFiniteSet(Front) /\ IsFiniteSet(Later) /\ Cardinality(Later) \in Nat
  BY PartSize
<1> HIDE DEF Front, Later, Behind
<1>6. Cardinality(Behind) = n + Cardinality(Later)
  <2>1. Cardinality(Front \union Later)
          = Cardinality(Front) + Cardinality(Later) - Cardinality(Front \intersect Later)
    BY <1>5, FS_Union
  <2> QED BY <2>1, <1>3, <1>4, <1>5, FS_EmptySet
<1> QED BY <1>5, <1>6 DEF Place, Behind, Later

(* When a collection changes, no more of it falls among the first places than it *)
(* loses of those.                                                               *)
LEMMA FallenAreLost ==
  ASSUME NEW S, S \subseteq Nat, IsFiniteSet(S), NEW T, T \subseteq Nat, IsFiniteSet(T),
         NEW n \in Nat
  PROVE  LET fallen == {x \in S \intersect T : Place(S, x) >= n /\ Place(T, x) < n}
             lost == {x \in S \ T : Place(S, x) < n}
         IN /\ IsFiniteSet(fallen) /\ Cardinality(fallen) \in Nat /\ Cardinality(lost) \in Nat
            /\ Cardinality(fallen) <= Cardinality(lost)
<1> DEFINE fallen == {x \in S \intersect T : Place(S, x) >= n /\ Place(T, x) < n}
           lost == {x \in S \ T : Place(S, x) < n}
           Front == {x \in S : Place(S, x) < n}
           FrontNow == {x \in T : Place(T, x) < n}
           kept == Front \intersect T
<1>1. /\ \A x \in Nat : Place(S, x) \in Nat /\ Place(T, x) \in Nat
      /\ \A x \in S : Place(S, x) < Cardinality(S)
      /\ \A x \in T : Place(T, x) < Cardinality(T)
      /\ \A x, y \in S : x < y => Place(S, x) < Place(S, y)
      /\ \A x, y \in T : x < y => Place(T, x) < Place(T, y)
      /\ Cardinality(S) \in Nat /\ Cardinality(T) \in Nat
  BY PlacesGrow, FS_CardinalityType
<1>2. /\ IsFiniteSet(fallen) /\ Cardinality(fallen) \in Nat
      /\ IsFiniteSet(lost) /\ Cardinality(lost) \in Nat
      /\ IsFiniteSet(kept) /\ Cardinality(kept) \in Nat
      /\ IsFiniteSet(FrontNow) /\ Cardinality(FrontNow) \in Nat
  <2>1. fallen \subseteq S /\ lost \subseteq S /\ kept \subseteq S /\ FrontNow \subseteq T
    OBVIOUS
  <2> HIDE DEF fallen, lost, kept, FrontNow
  <2> QED BY <2>1, PartSize
<1>3. ASSUME fallen = {} PROVE Cardinality(fallen) <= Cardinality(lost)
  <2> HIDE DEF lost
  <2>1. Cardinality(fallen) = 0
    BY <1>3, FS_EmptySet
  <2> QED BY <1>2, <2>1
<1>4. ASSUME fallen # {} PROVE Cardinality(fallen) <= Cardinality(lost)
  <2>1. PICK f \in fallen : TRUE
    BY <1>4
  <2>2. n <= Cardinality(S)
    BY <1>1, <2>1
  <2>3. Cardinality(Front) = n
    BY <2>2, FirstPlaces
  <2>4. Cardinality(FrontNow) <= n
    <3>1. CASE n <= Cardinality(T)
      <4>1. Cardinality(FrontNow) = n
        BY <3>1, FirstPlaces
      <4> QED BY <4>1
    <3>2. CASE ~(n <= Cardinality(T))
      <4>1. FrontNow \subseteq T
        OBVIOUS
      <4> HIDE DEF FrontNow
      <4>2. Cardinality(FrontNow) <= Cardinality(T)
        BY <4>1, PartSize
      <4> QED BY <3>2, <4>2, <1>1, <1>2
    <3> QED BY <3>1, <3>2
  <2>5. fallen \union kept \subseteq FrontNow
    <3>1. ASSUME NEW x \in kept PROVE x \in FrontNow
      <4>1. /\ x \in Nat /\ f \in Nat /\ x \in S /\ x \in T /\ f \in S /\ f \in T
            /\ Place(S, x) < n /\ Place(S, f) >= n /\ Place(T, f) < n
        BY <2>1
      <4>2. x < f
        <5>1. Place(S, x) \in Nat /\ Place(S, f) \in Nat /\ Place(S, x) < Place(S, f)
          BY <1>1, <4>1
        <5>2. ~(f < x) /\ f # x
          BY <1>1, <4>1, <5>1
        <5> QED BY <4>1, <5>2
      <4>3. Place(T, x) < Place(T, f) /\ Place(T, x) \in Nat /\ Place(T, f) \in Nat
        BY <1>1, <4>1, <4>2
      <4> QED BY <4>1, <4>3
    <3> QED BY <3>1
  <2>6. fallen \intersect kept = {}
    <3>1. \A x \in S : ~(Place(S, x) >= n /\ Place(S, x) < n)
      BY <1>1
    <3> QED BY <3>1, Zenon
  <2>7. Front = kept \union lost /\ kept \intersect lost = {}
    OBVIOUS
  <2> HIDE DEF fallen, lost, kept, Front, FrontNow
  <2>8. Cardinality(fallen \union kept) = Cardinality(fallen) + Cardinality(kept)
    <3>1. Cardinality(fallen \union kept)
            = Cardinality(fallen) + Cardinality(kept) - Cardinality(fallen \intersect kept)
      BY <1>2, FS_Union
    <3>2. Cardinality(fallen \intersect kept) = 0
      BY <2>6, FS_EmptySet
    <3> QED BY <3>1, <3>2, <1>2
  <2>9. Cardinality(Front) = Cardinality(kept) + Cardinality(lost)
    <3>1. Cardinality(kept \union lost)
            = Cardinality(kept) + Cardinality(lost) - Cardinality(kept \intersect lost)
      BY <1>2, FS_Union
    <3>2. Cardinality(kept \intersect lost) = 0
      BY <2>7, FS_EmptySet
    <3> QED BY <3>1, <3>2, <1>2, <2>7
  <2>10. Cardinality(fallen \union kept) <= Cardinality(FrontNow)
    BY <1>2, <2>5, PartSize
  <2> QED BY <1>2, <2>3, <2>4, <2>8, <2>9, <2>10
<1>5. Cardinality(fallen) <= Cardinality(lost)
  BY <1>3, <1>4
<1> QED BY <1>2, <1>5

-----------------------------------------------------------------------------
(* The inductive invariant of a capture, in parts. *)

Found == Form \union {Absent}

Stages == {"list products", "products", "terms", "built"}

InProgress == capturePc \in Type \/ (capturePc \in {"products", "terms"} /\ todo # {})

CaptureTypes ==
  /\ include \in Includes
  /\ capturePc \in CaptureFailure \union Type \union Stages \union {"start"}
  /\ resources \in [Id -> Found] /\ captured \in [Id -> Found]
  /\ edges \subseteq Edge /\ listed \subseteq Edge
  /\ todo \subseteq Id \X {"dataAsset", "dataColumn"}
  /\ currentOffset \in Nat /\ shifts \in Nat
  /\ ~InProgress /\ capturePc \notin CaptureFailure => currentOffset = 0

(* What was there all the time is there now, with what it links. *)
Remembered ==
  /\ throughout \subseteq Facts(resources, edges) /\ Facts(resources, edges) \subseteq ever
  /\ \A edge \in edges : resources[edge[1]] # Absent /\ resources[edge[2]] # Absent
  /\ \A edge \in throughout \intersect Edge : <<edge[1], resources[edge[1]]>> \in throughout

Lasting(id) == <<id, resources[id]>> \in throughout

(* What was read was there, and is there as it was read if nobody edited it. *)
ReadTruly ==
  /\ Read \subseteq ever
  /\ \A id \in Id : Lasting(id) /\ captured[id] # Absent => captured[id] = resources[id]

(* The listing a fact is in, and its item there. *)
ListingOf(fact) == IF fact \in Edge THEN <<fact[1], TypeOf(fact[2])>> ELSE <<TypeOf(fact[1])>>
ItemOf(fact) == IF fact \in Edge THEN fact[2] ELSE fact[1]

(* What lasted, was not read and will not be read any more. *)
PassedOver ==
  {fact \in throughout \ Read :
     \/ ListingOf(fact) \in finished
     \/ /\ InProgress /\ ListingOf(fact) = Current
        /\ Place(Collection, ItemOf(fact)) < currentOffset}

PassedOnlyShifted == IsFiniteSet(PassedOver) /\ Cardinality(PassedOver) <= shifts

(* The types read, of those asked for. *)
TypesRead ==
  \A i \in DOMAIN Order :
    Asked(Order[i]) =>
      \/ capturePc \in CaptureFailure \union {"start"} \/ <<Order[i]>> \in finished
      \/ \E j \in 1..i : capturePc = Order[j]

(* The relationships read, of those of the sources found. *)
RelationsRead ==
  /\ capturePc \notin {"start"} \union CaptureFailure => Prerequisites
  /\ capturePc = "products" => Listings("dataProduct") \subseteq finished \union todo
  /\ capturePc \in {"terms", "built"} => Listings("dataProduct") \subseteq finished
  /\ capturePc = "terms" => Listings("glossaryTerm") \subseteq finished \union todo
  /\ capturePc = "built" => Listings("glossaryTerm") \subseteq finished

CInv ==
  /\ CaptureTypes /\ Remembered /\ ReadTruly
  /\ PassedOnlyShifted /\ TypesRead /\ RelationsRead

-----------------------------------------------------------------------------
(* What the operators of the model say. *)

LEMMA TypesAre ==
  ASSUME NEW id \in Id
  PROVE  /\ TypeOf(id) \in Type
         /\ TypeOf(id) = "dataProduct" <=> id \in Product
         /\ TypeOf(id) = "glossaryTerm" <=> id \in Term
         /\ TypeOf(id) = "dataAsset" <=> id \in Asset
         /\ TypeOf(id) = "dataColumn" <=> id \in Column
         /\ TypeOf(id) = "businessDomain" <=> id \in DomainId
BY CatalogAssumption DEF TypeOf, Type, Id

LEMMA EdgeEnds ==
  ASSUME NEW edge \in Edge
  PROVE  /\ edge[1] \in Id /\ edge[2] \in Id /\ edge = <<edge[1], edge[2]>>
         /\ TypeOf(edge[1]) \in {"dataProduct", "glossaryTerm"}
BY TypesAre DEF Edge, Id

(* The family of a relationship is that of the types of its ends. *)
LEMMA FamilyFits ==
  ASSUME NEW edge \in Edge
  PROVE  /\ Family(edge) \in Families
         /\ SourceOf(Family(edge)) = TypeOf(edge[1]) /\ TargetOf(Family(edge)) = TypeOf(edge[2])
<1>1. \E family \in Families :
        SourceOf(family) = TypeOf(edge[1]) /\ TargetOf(family) = TypeOf(edge[2])
  <2>1. CASE edge \in Product \X Asset
    <3>1. TypeOf(edge[1]) = "dataProduct" /\ TypeOf(edge[2]) = "dataAsset"
      BY <2>1, TypesAre DEF Id
    <3> QED BY <3>1 DEF Families, SourceOf, TargetOf
  <2>2. CASE edge \in Term \X Asset
    <3>1. TypeOf(edge[1]) = "glossaryTerm" /\ TypeOf(edge[2]) = "dataAsset"
      BY <2>2, TypesAre DEF Id
    <3> QED BY <3>1 DEF Families, SourceOf, TargetOf
  <2>3. CASE edge \in Term \X Column
    <3>1. TypeOf(edge[1]) = "glossaryTerm" /\ TypeOf(edge[2]) = "dataColumn"
      BY <2>3, TypesAre DEF Id
    <3> QED BY <3>1 DEF Families, SourceOf, TargetOf
  <2> QED BY <2>1, <2>2, <2>3 DEF Edge
<1> QED BY <1>1 DEF Family

(* A fact tells whether it is of a resource or a relationship. *)
LEMMA FactsAre ==
  ASSUME NEW r \in [Id -> Found], NEW e, e \subseteq Edge
  PROVE  /\ \A id \in Id : \A x \in Found : <<id, x>> \in Facts(r, e) <=> r[id] = x /\ x # Absent
         /\ \A edge \in Edge : edge \in Facts(r, e) <=> edge \in e
         /\ \A fact \in Facts(r, e) : fact \in Edge \/ \E id \in Id : fact = <<id, r[id]>>
<1>1. \A id \in Id : \A x \in Found : <<id, x>> \notin Edge
  BY CatalogAssumption DEF Edge, Id, Found
<1>2. ASSUME NEW id \in Id, NEW x \in Found
      PROVE  <<id, x>> \in Facts(r, e) <=> r[id] = x /\ x # Absent
  BY <1>1, <1>2 DEF Facts
<1>3. ASSUME NEW edge \in Edge PROVE edge \in Facts(r, e) <=> edge \in e
  BY <1>1 DEF Facts
<1>4. \A fact \in Facts(r, e) : fact \in Edge \/ \E id \in Id : fact = <<id, r[id]>>
  BY DEF Facts
<1> QED BY <1>2, <1>3, <1>4

LEMMA OrderIs ==
  /\ DOMAIN Order = 1..5
  /\ Order[1] = "businessDomain" /\ Order[2] = "dataProduct" /\ Order[3] = "glossaryTerm"
  /\ Order[4] = "dataAsset" /\ Order[5] = "dataColumn"
BY DEF Order

(* The enumeration goes on with the next type asked for. *)
LEMMA NextType ==
  ASSUME NEW n \in DOMAIN Order
  PROVE  \/ /\ AfterTypes(n) = "list products"
            /\ \A i \in DOMAIN Order : i > n => ~Asked(Order[i])
         \/ \E m \in DOMAIN Order :
              /\ m > n /\ AfterTypes(n) = Order[m] /\ Asked(Order[m])
              /\ \A i \in DOMAIN Order : n < i /\ i < m => ~Asked(Order[i])
<1> DEFINE rest == {i \in DOMAIN Order : i > n /\ Asked(Order[i])}
           m == CHOOSE i \in rest : \A j \in rest : i <= j
<1>1. rest \subseteq Nat
  BY DEF Order
<1>2. CASE rest = {}
  BY <1>2 DEF AfterTypes
<1>3. CASE rest # {}
  <2>1. \E i \in rest : \A j \in rest : i <= j
    <3> HIDE DEF rest
    <3> QED BY <1>1, <1>3, LeastNatural
  <2>2. m \in rest /\ \A j \in rest : m <= j
    <3> HIDE DEF rest
    <3> QED BY <2>1
  <2>3. AfterTypes(n) = Order[m]
    BY <1>3 DEF AfterTypes
  <2> HIDE DEF m
  <2>4. \A i \in DOMAIN Order : n < i /\ i < m => ~Asked(Order[i])
    <3>1. ASSUME NEW i \in DOMAIN Order, n < i, i < m, Asked(Order[i]) PROVE FALSE
      <4>1. i \in Nat /\ n \in Nat /\ m \in Nat /\ i \in rest
        BY <3>1, <2>2 DEF Order
      <4>2. m <= i
        BY <4>1, <2>2
      <4> QED BY <3>1, <4>1, <4>2
    <3> QED BY <3>1
  <2> QED BY <2>2, <2>3, <2>4
<1> QED BY <1>2, <1>3


(* The stages of a capture are told apart. *)
LEMMA StagesAre ==
  /\ \A i \in DOMAIN Order : Order[i] \in Type
  /\ \A i, j \in DOMAIN Order : Order[i] = Order[j] => i = j
  /\ \A type \in Type : \E i \in DOMAIN Order : Order[i] = type
  /\ Type \intersect (Stages \union {"start"} \union CaptureFailure) = {}
  /\ Stages \intersect CaptureFailure = {} /\ "start" \notin Stages \union CaptureFailure
  /\ CaptureEnded = CaptureFailure \union {"built"}
BY DEF Order, Type, Stages, CaptureFailure, CaptureEnded

(* The next listing of relationships is one of those to come. *)
LEMMA FirstIsToCome ==
  ASSUME todo \subseteq Id \X {"dataAsset", "dataColumn"}, todo # {}
  PROVE  First \in todo
<1> DEFINE sources == {l[1] : l \in todo}
<1>0. \A l \in todo : /\ l[1] \in Nat /\ l[2] \in {"dataAsset", "dataColumn"}
                     /\ l = <<l[1], l[2]>>
  <2>1. ASSUME NEW l \in todo
        PROVE  l[1] \in Id /\ l[2] \in {"dataAsset", "dataColumn"} /\ l = <<l[1], l[2]>>
    <3>1. PICK s \in Id, t \in {"dataAsset", "dataColumn"} : l = <<s, t>>
      OBVIOUS
    <3> QED BY <3>1
  <2> QED BY <2>1, CatalogAssumption
<1>1. sources \subseteq Nat /\ sources # {}
  <2>1. PICK l \in todo : TRUE
    OBVIOUS
  <2>2. l[1] \in sources
    BY <2>1
  <2>3. sources \subseteq Nat
    BY <1>0
  <2> QED BY <2>2, <2>3
<1>2. PICK n \in sources : \A m \in sources : n <= m
  <2> HIDE DEF sources
  <2> QED BY <1>1, LeastNatural
<1>3. \A other \in todo : /\ other[1] \in Nat /\ n <= other[1]
                          /\ other[1] = n => other \in {<<n, "dataAsset">>, <<n, "dataColumn">>}
  <2>1. ASSUME NEW other \in todo PROVE n <= other[1]
    BY <1>2
  <2> QED BY <1>0, <2>1
<1>4. PICK l \in todo : l[1] = n
  BY <1>2
<1>5. \E l0 \in todo :
        \A other \in todo : \/ l0[1] < other[1]
                            \/ l0[1] = other[1] /\ (l0[2] = "dataAsset" \/ l0 = other)
  <2>1. CASE <<n, "dataAsset">> \in todo
    <3>1. ASSUME NEW other \in todo PROVE n < other[1] \/ n = other[1]
      BY <1>1, <1>3
    <3> QED BY <2>1, <3>1
  <2>2. CASE <<n, "dataAsset">> \notin todo
    <3>1. l = <<n, "dataColumn">>
      BY <1>3, <1>4, <2>2
    <3>2. ASSUME NEW other \in todo PROVE n < other[1] \/ (n = other[1] /\ l = other)
      BY <1>1, <1>3, <2>2, <3>1
    <3> QED BY <1>4, <3>2
  <2> QED BY <2>1, <2>2
<1> QED BY <1>5 DEF First

LEMMA CollectionsAre ==
  ASSUME NEW r, NEW e
  PROVE  /\ CollectionIn(r, e) \subseteq Id /\ CollectionIn(r, e) \subseteq Nat
         /\ IsFiniteSet(CollectionIn(r, e))
         /\ \A id \in Id : Place(CollectionIn(r, e), id) \in Nat
<1>1. CollectionIn(r, e) \subseteq Id
  BY DEF CollectionIn
<1>2. Id \subseteq Nat /\ IsFiniteSet(Id)
  BY CatalogAssumption
<1>3. IsFiniteSet(CollectionIn(r, e)) /\ CollectionIn(r, e) \subseteq Nat
  BY <1>1, <1>2, PartSize
<1> QED BY <1>1, <1>2, <1>3, PlacesGrow

(* A fact of the listing in progress is told by its item, and is in the collection. *)
LEMMA FactsInProgress ==
  ASSUME CaptureTypes, InProgress, NEW r \in [Id -> Found], NEW e, e \subseteq Edge,
         NEW fact \in Facts(r, e), ListingOf(fact) = Current
  PROVE  /\ ItemOf(fact) \in CollectionIn(r, e)
         /\ capturePc \in Type => /\ fact \notin Edge
                                  /\ fact = <<ItemOf(fact), r[ItemOf(fact)]>>
         /\ capturePc \notin Type => fact \in Edge /\ fact = <<First[1], ItemOf(fact)>>
<1>1. CASE fact \in Edge
  <2>1. /\ fact \in e /\ fact[2] \in Id /\ fact = <<fact[1], fact[2]>>
        /\ ItemOf(fact) = fact[2] /\ ListingOf(fact) = <<fact[1], TypeOf(fact[2])>>
    BY <1>1, FactsAre, EdgeEnds DEF ItemOf, ListingOf
  <2>2. capturePc \notin Type
    BY <2>1 DEF Current
  <2>3. todo # {} /\ First = <<fact[1], TypeOf(fact[2])>>
    BY <2>1, <2>2 DEF Current, InProgress
  <2>4. TypeOf(fact[2]) = First[2] /\ First[1] = fact[1]
    BY <2>3
  <2> QED BY <1>1, <2>1, <2>2, <2>3, <2>4 DEF CollectionIn
<1>2. CASE fact \notin Edge
  <2>1. PICK id \in Id : fact = <<id, r[id]>>
    BY <1>2, FactsAre
  <2>2. r[id] \in Found /\ r[id] # Absent /\ ItemOf(fact) = id /\ ListingOf(fact) = <<TypeOf(id)>>
    <3>1. fact[1] = id
      BY <2>1
    <3>2. r[id] \in Found
      OBVIOUS
    <3> QED BY <1>2, <2>1, <3>1, <3>2, FactsAre DEF ItemOf, ListingOf
  <2>3. capturePc \in Type
    <3>1. SUFFICES ASSUME capturePc \notin Type PROVE FALSE
      OBVIOUS
    <3>2. First \in todo /\ Current = First
      BY <3>1, FirstIsToCome DEF InProgress, CaptureTypes, Current
    <3>3. PICK s \in Id, t \in {"dataAsset", "dataColumn"} : First = <<s, t>>
      BY <3>2 DEF CaptureTypes
    <3>4. <<TypeOf(id)>> = <<s, t>>
      BY <2>2, <3>2, <3>3
    <3> QED BY <3>4
  <2>4. TypeOf(id) = capturePc
    BY <2>2, <2>3 DEF Current
  <2> QED BY <1>2, <2>1, <2>2, <2>3, <2>4 DEF CollectionIn
<1> QED BY <1>1, <1>2

-----------------------------------------------------------------------------
(* The invariant holds at first. *)

LEMMA CaptureInvariantInit == CaptureInit => CInv
<1> SUFFICES ASSUME CaptureInit PROVE CInv
  OBVIOUS
<1>1. PICK catalog \in Catalogs : resources = catalog.resources /\ edges = catalog.edges
  BY DEF CaptureInit
<1>2. CaptureTypes
  BY <1>1, CatalogAssumption DEF CaptureInit, CaptureTypes, Found, Stages
<1>3. Facts(resources, edges) = ever /\ throughout = ever
  BY DEF CaptureInit
<1>4. Remembered
  <2>1. \A edge \in edges : resources[edge[1]] # Absent /\ resources[edge[2]] # Absent
    BY <1>1, CatalogAssumption
  <2>2. ASSUME NEW edge \in throughout \intersect Edge
        PROVE  <<edge[1], resources[edge[1]]>> \in throughout
    <3>1. edge \in edges
      BY <1>2, <1>3, FactsAre DEF CaptureTypes
    <3>2. edge[1] \in Id
      BY EdgeEnds
    <3>3. resources[edge[1]] # Absent /\ resources[edge[1]] \in Found
      BY <3>1, <3>2, <2>1, <1>2 DEF CaptureTypes
    <3> DEFINE id == edge[1]
    <3> HIDE DEF id
    <3>4. id \in Id /\ resources[id] # Absent /\ resources[id] \in Found
      BY <3>2, <3>3 DEF id
    <3>5. resources \in [Id -> Found] /\ edges \subseteq Edge
      BY <1>2 DEF CaptureTypes
    <3>6. <<id, resources[id]>> \in Facts(resources, edges)
      BY <3>4, <3>5, FactsAre
    <3> QED BY <3>6, <1>3 DEF id
  <2> QED BY <1>3, <2>1, <2>2 DEF Remembered
<1>5. ReadTruly
  <2>1. \A id \in Id : captured[id] = Absent
    BY DEF CaptureInit
  <2>2. listed = {}
    BY DEF CaptureInit
  <2> QED BY <2>1, <2>2 DEF ReadTruly, Read
<1>6. PassedOnlyShifted
  <2>1. ~InProgress /\ finished = {} /\ shifts = 0
    BY DEF CaptureInit, InProgress, Type
  <2>2. PassedOver = {}
    BY <2>1 DEF PassedOver
  <2> QED BY <2>1, <2>2, FS_EmptySet DEF PassedOnlyShifted
<1>7. TypesRead /\ RelationsRead
  BY DEF CaptureInit, TypesRead, RelationsRead
<1> QED BY <1>2, <1>4, <1>5, <1>6, <1>7 DEF CInv

-----------------------------------------------------------------------------
(* The edits of others keep it. *)

(* What lasts through an edit was untouched by it. *)
LEMMA EditTouches ==
  ASSUME CInv, NEW r \in [Id -> Found], NEW e, e \subseteq Edge, Edit(r, e)
  PROVE  /\ \A id \in Id : Lasting(id)' =>
              /\ Lasting(id) /\ resources'[id] = resources[id] /\ resources[id] # Absent
         /\ \A edge \in throughout' \intersect Edge :
              edge \in throughout /\ edge \in e /\ edge \in edges
<1>1. /\ resources' = r /\ throughout' = throughout \intersect Facts(r, e)
      /\ throughout \subseteq Facts(resources, edges)
      /\ resources \in [Id -> Found] /\ edges \subseteq Edge
  BY DEF Edit, CInv, Remembered, CaptureTypes
<1>2. ASSUME NEW id \in Id, Lasting(id)'
      PROVE  Lasting(id) /\ resources'[id] = resources[id] /\ resources[id] # Absent
  <2>1. r[id] \in Found /\ <<id, r[id]>> \in throughout /\ <<id, r[id]>> \in Facts(resources, edges)
    BY <1>1, <1>2 DEF Lasting
  <2>2. resources[id] = r[id] /\ r[id] # Absent
    BY <1>1, <2>1, FactsAre
  <2> QED BY <1>1, <2>1, <2>2 DEF Lasting
<1>3. ASSUME NEW edge \in throughout' \intersect Edge
      PROVE  edge \in throughout /\ edge \in e /\ edge \in edges
  <2>1. /\ edge \in throughout /\ edge \in Edge
        /\ edge \in Facts(r, e) /\ edge \in Facts(resources, edges)
    BY <1>1
  <2> QED BY <1>1, <2>1, FactsAre
<1> QED BY <1>2, <1>3

(* No more is passed over by an edit than the edit takes from what was read. *)
LEMMA EditShifts ==
  ASSUME CInv, NEW r \in [Id -> Found], NEW e, e \subseteq Edge, Edit(r, e)
  PROVE  PassedOnlyShifted' /\ shifts' \in Nat
<1> DEFINE S == Collection
           T == CollectionIn(r, e)
           fallen == {id \in S \intersect T : Place(S, id) >= currentOffset
                                              /\ Place(T, id) < currentOffset}
           lost == {id \in S \ T : Place(S, id) < currentOffset}
           new == {fact \in throughout' : InProgress /\ ListingOf(fact) = Current
                                          /\ ItemOf(fact) \in fallen}
<1>1. /\ resources' = r /\ edges' = e /\ throughout' = throughout \intersect Facts(r, e)
      /\ shifts' = shifts + Cardinality(lost)
      /\ UNCHANGED <<include, capturePc, captured, listed, currentOffset, todo, finished>>
      /\ throughout \subseteq Facts(resources, edges)
  BY DEF Edit, CInv, Remembered, queryVars, foundVars
<1>2. /\ CaptureTypes /\ resources \in [Id -> Found] /\ edges \subseteq Edge
      /\ currentOffset \in Nat /\ shifts \in Nat
      /\ IsFiniteSet(PassedOver) /\ Cardinality(PassedOver) <= shifts
  BY DEF CInv, CaptureTypes, PassedOnlyShifted
<1>3. /\ IsFiniteSet(fallen) /\ Cardinality(fallen) \in Nat /\ Cardinality(lost) \in Nat
      /\ Cardinality(fallen) <= Cardinality(lost)
  <2>1. /\ S \subseteq Nat /\ IsFiniteSet(S) /\ T \subseteq Nat /\ IsFiniteSet(T)
    BY CollectionsAre DEF Collection
  <2>2. currentOffset \in Nat
    BY <1>2
  <2> HIDE DEF S, T
  <2> QED BY <2>1, <2>2, FallenAreLost
<1>4. IsFiniteSet(new) /\ Cardinality(new) \in Nat /\ Cardinality(new) <= Cardinality(fallen)
  <2> DEFINE item == [fact \in new |-> ItemOf(fact)]
  <2>1. ASSUME NEW x \in new, NEW y \in new, ItemOf(x) = ItemOf(y) PROVE x = y
    <3>1. /\ InProgress /\ x \in Facts(r, e) /\ y \in Facts(r, e)
          /\ ListingOf(x) = Current /\ ListingOf(y) = Current
      BY <1>1
    <3>2. CASE capturePc \in Type
      <4>1. x = <<ItemOf(x), r[ItemOf(x)]>>
        BY <3>1, <3>2, <1>2, FactsInProgress
      <4>2. y = <<ItemOf(y), r[ItemOf(y)]>>
        BY <3>1, <3>2, <1>2, FactsInProgress
      <4> QED BY <2>1, <4>1, <4>2
    <3>3. CASE capturePc \notin Type
      <4>1. x = <<First[1], ItemOf(x)>>
        BY <3>1, <3>3, <1>2, FactsInProgress
      <4>2. y = <<First[1], ItemOf(y)>>
        BY <3>1, <3>3, <1>2, FactsInProgress
      <4> QED BY <2>1, <4>1, <4>2
    <3> QED BY <3>2, <3>3
  <2>2. \A x \in new : ItemOf(x) \in fallen
    OBVIOUS
  <2> HIDE DEF new, fallen
  <2>3. item \in Injection(new, fallen)
    <3>1. item \in [new -> fallen]
      BY <2>2
    <3>2. ASSUME NEW x \in new, NEW y \in new, item[x] = item[y] PROVE x = y
      BY <2>1, <3>2
    <3> QED BY <3>1, <3>2 DEF Injection, IsInjective
  <2> HIDE DEF item
  <2>4. IsFiniteSet(new) /\ Cardinality(new) <= Cardinality(fallen)
    BY <2>3, <1>3, FS_Injection
  <2> QED BY <2>4, FS_CardinalityType
<1>5. PassedOver' \subseteq PassedOver \union new
  <2>1. ASSUME NEW fact \in PassedOver', fact \notin PassedOver PROVE fact \in new
    <3>1. /\ fact \in throughout' /\ fact \in throughout /\ fact \in Facts(r, e)
          /\ fact \in Facts(resources, edges) /\ fact \notin Read
      BY <1>1 DEF PassedOver, Read
    <3>2. ListingOf(fact)' = ListingOf(fact) /\ ItemOf(fact)' = ItemOf(fact)
      BY DEF ListingOf, ItemOf
    <3>3. InProgress' = InProgress /\ Current' = Current /\ Collection' = T
      BY <1>1 DEF InProgress, Current, First, Collection, CollectionIn
    <3>4. ListingOf(fact) \notin finished
      BY <2>1, <3>1 DEF PassedOver
    <3>5. InProgress /\ ListingOf(fact) = Current /\ Place(T, ItemOf(fact)) < currentOffset
      BY <1>1, <3>2, <3>3, <3>4 DEF PassedOver, Place
    <3>6. ItemOf(fact) \in S /\ ItemOf(fact) \in T
      BY <3>1, <3>5, <1>2, FactsInProgress DEF Collection
    <3>7. ~(Place(S, ItemOf(fact)) < currentOffset)
      BY <2>1, <3>1, <3>5 DEF PassedOver
    <3>8. Place(S, ItemOf(fact)) \in Nat
      BY <3>6, CollectionsAre DEF Collection
    <3>9. Place(S, ItemOf(fact)) >= currentOffset
      BY <3>7, <3>8, <1>2
    <3> QED BY <3>1, <3>5, <3>6, <3>9
  <2> QED BY <2>1
<1> HIDE DEF new, fallen, lost, S, T
<1>6. IsFiniteSet(PassedOver \union new)
      /\ Cardinality(PassedOver \union new) <= Cardinality(PassedOver) + Cardinality(new)
  <2>1. /\ IsFiniteSet(PassedOver \union new)
        /\ Cardinality(PassedOver \union new)
             = Cardinality(PassedOver) + Cardinality(new) - Cardinality(PassedOver \intersect new)
    BY <1>2, <1>4, FS_Union
  <2>2. Cardinality(PassedOver \intersect new) \in Nat /\ Cardinality(PassedOver) \in Nat
    <3>1. PassedOver \intersect new \subseteq PassedOver
      OBVIOUS
    <3> QED BY <3>1, <1>2, PartSize
  <2> QED BY <2>1, <2>2, <1>4
<1>7. /\ IsFiniteSet(PassedOver') /\ Cardinality(PassedOver') \in Nat
      /\ Cardinality(PassedOver') <= Cardinality(PassedOver \union new)
      /\ Cardinality(PassedOver \union new) \in Nat
  BY <1>5, <1>6, PartSize
<1>8. Cardinality(PassedOver) \in Nat
  BY <1>2, FS_CardinalityType
<1>9. shifts' \in Nat
  BY <1>1, <1>2, <1>3
<1>10. Cardinality(PassedOver') <= shifts'
  BY <1>1, <1>2, <1>3, <1>4, <1>6, <1>7, <1>8
<1> QED BY <1>7, <1>9, <1>10 DEF PassedOnlyShifted

(* An edit that leaves no relationship without its ends keeps the invariant. *)
LEMMA EditKeeps ==
  ASSUME CInv, NEW r \in [Id -> Found], NEW e, e \subseteq Edge, Edit(r, e),
         \A edge \in e : r[edge[1]] # Absent /\ r[edge[2]] # Absent,
         \A edge \in e \intersect edges : r[edge[1]] = resources[edge[1]]
  PROVE  CInv'
<1>1. /\ resources' = r /\ edges' = e /\ ever' = ever \union Facts(r, e)
      /\ throughout' = throughout \intersect Facts(r, e)
      /\ UNCHANGED <<include, capturePc, captured, currentOffset, todo, listed, finished>>
  BY DEF Edit, queryVars, foundVars
<1>2. CaptureTypes'
  BY <1>1, EditShifts DEF CInv, CaptureTypes, InProgress
<1>3. Remembered'
  <2>1. throughout' \subseteq Facts(r, e) /\ Facts(r, e) \subseteq ever'
    BY <1>1
  <2>2. ASSUME NEW edge \in throughout' \intersect Edge
        PROVE  <<edge[1], r[edge[1]]>> \in throughout'
    <3>1. edge \in throughout /\ edge \in e /\ edge \in edges
      BY EditTouches
    <3>2. r[edge[1]] = resources[edge[1]] /\ r[edge[1]] # Absent /\ edge[1] \in Id
      BY <3>1, EdgeEnds
    <3>3. <<edge[1], r[edge[1]]>> \in throughout
      BY <3>1, <3>2 DEF CInv, Remembered
    <3>4. <<edge[1], r[edge[1]]>> \in Facts(r, e)
      BY <3>2, FactsAre
    <3> QED BY <1>1, <3>3, <3>4
  <2> QED BY <1>1, <2>1, <2>2 DEF Remembered
<1>4. ReadTruly'
  <2>1. Read' = Read
    BY <1>1 DEF Read
  <2>2. ASSUME NEW id \in Id, Lasting(id)', captured'[id] # Absent
        PROVE  captured'[id] = resources'[id]
    BY <1>1, <2>2, EditTouches DEF CInv, ReadTruly
  <2> QED BY <1>1, <2>1, <2>2 DEF CInv, ReadTruly
<1>5. TypesRead'
  BY <1>1 DEF CInv, TypesRead, Asked
<1>6. RelationsRead'
  <2>1. \A type : Listings(type)' = Listings(type)
    BY <1>1 DEF Listings, Sources, AskedFamilies
  <2> QED BY <1>1, <2>1 DEF CInv, RelationsRead, Prerequisites
<1> QED BY <1>2, <1>3, <1>4, <1>5, <1>6, EditShifts DEF CInv

LEMMA CreateKeeps ==
  ASSUME CInv, NEW id \in Id, NEW form \in Form, Create(id, form)
  PROVE  CInv'
<1> DEFINE r == [resources EXCEPT ![id] = form]
<1>1. /\ resources[id] = Absent /\ Edit(r, edges) /\ form # Absent
      /\ resources \in [Id -> Found] /\ edges \subseteq Edge
  BY CatalogAssumption DEF Create, CInv, CaptureTypes
<1>2. /\ r \in [Id -> Found]
      /\ \A other \in Id : r[other] = IF other = id THEN form ELSE resources[other]
  BY <1>1 DEF Found
<1> HIDE DEF r
<1>3. \A edge \in edges : /\ edge[1] \in Id /\ edge[2] \in Id
                          /\ resources[edge[1]] # Absent /\ resources[edge[2]] # Absent
  BY <1>1, EdgeEnds DEF CInv, Remembered
<1>4. \A edge \in edges : r[edge[1]] = resources[edge[1]] /\ r[edge[2]] = resources[edge[2]]
  BY <1>1, <1>2, <1>3
<1> QED BY <1>1, <1>2, <1>3, <1>4, EditKeeps

LEMMA DeleteKeeps ==
  ASSUME CInv, NEW id \in Id, Delete(id)
  PROVE  CInv'
<1> DEFINE r == [resources EXCEPT ![id] = Absent]
           e == {edge \in edges : id \notin {edge[1], edge[2]}}
<1>1. /\ Edit(r, e) /\ resources \in [Id -> Found] /\ edges \subseteq Edge
  BY DEF Delete, CInv, CaptureTypes
<1>2. /\ r \in [Id -> Found] /\ e \subseteq Edge
      /\ \A other \in Id : r[other] = IF other = id THEN Absent ELSE resources[other]
  BY <1>1 DEF Found
<1>3. \A edge \in e : edge \in edges /\ id \notin {edge[1], edge[2]}
  OBVIOUS
<1> HIDE DEF r, e
<1>4. \A edge \in e : /\ edge[1] \in Id /\ edge[2] \in Id
                      /\ resources[edge[1]] # Absent /\ resources[edge[2]] # Absent
  BY <1>1, <1>2, <1>3, EdgeEnds DEF CInv, Remembered
<1>5. \A edge \in e : r[edge[1]] = resources[edge[1]] /\ r[edge[2]] = resources[edge[2]]
  BY <1>2, <1>3, <1>4
<1>6. /\ \A edge \in e : r[edge[1]] # Absent /\ r[edge[2]] # Absent
      /\ \A edge \in e \intersect edges : r[edge[1]] = resources[edge[1]]
  BY <1>4, <1>5
<1> QED BY <1>1, <1>2, <1>6, EditKeeps

LEMMA RelateKeeps ==
  ASSUME CInv, NEW edge \in Edge, Relate(edge) \/ Unrelate(edge)
  PROVE  CInv'
<1>1. /\ resources \in [Id -> Found] /\ edges \subseteq Edge
      /\ \A other \in edges : resources[other[1]] # Absent /\ resources[other[2]] # Absent
  BY DEF CInv, CaptureTypes, Remembered
<1>2. CASE Relate(edge)
  <2>1. /\ Edit(resources, edges \union {edge}) /\ edges \union {edge} \subseteq Edge
        /\ resources[edge[1]] # Absent /\ resources[edge[2]] # Absent
    BY <1>1, <1>2 DEF Relate
  <2> QED BY <1>1, <2>1, EditKeeps
<1>3. CASE Unrelate(edge)
  <2>1. Edit(resources, edges \ {edge}) /\ edges \ {edge} \subseteq Edge
    BY <1>1, <1>3 DEF Unrelate
  <2> QED BY <1>1, <2>1, EditKeeps
<1> QED BY <1>2, <1>3

-----------------------------------------------------------------------------
(* The steps of the capture keep the invariant. *)

LEMMA PassedFewer ==
  ASSUME CInv, PassedOver' \subseteq PassedOver, shifts' = shifts
  PROVE  PassedOnlyShifted'
<1>1. IsFiniteSet(PassedOver) /\ Cardinality(PassedOver) <= shifts /\ shifts \in Nat
  BY DEF CInv, PassedOnlyShifted, CaptureTypes
<1>2. /\ IsFiniteSet(PassedOver') /\ Cardinality(PassedOver') \in Nat
      /\ Cardinality(PassedOver) \in Nat /\ Cardinality(PassedOver') <= Cardinality(PassedOver)
  BY <1>1, PartSize
<1>3. Cardinality(PassedOver') <= shifts'
  BY <1>1, <1>2
<1> QED BY <1>2, <1>3 DEF PassedOnlyShifted

(* Between two listings nothing is passed over. *)
LEMMA NothingPassed ==
  ASSUME CInv, UNCHANGED <<throughout, captured, listed, finished, shifts>>,
         ~InProgress' \/ currentOffset' = 0
  PROVE  PassedOnlyShifted'
<1>1. PassedOver' \subseteq PassedOver
  <2>1. ASSUME NEW fact \in PassedOver' PROVE fact \in PassedOver
    <3>1. fact \in throughout \ Read
      BY DEF PassedOver, Read
    <3>2. CASE ListingOf(fact) \in finished
      BY <3>1, <3>2 DEF PassedOver
    <3>3. CASE ListingOf(fact) \notin finished
      <4>1. InProgress' /\ Place(Collection', ItemOf(fact)) < currentOffset'
        BY <3>3 DEF PassedOver, ListingOf, ItemOf, Place
      <4>2. Place(Collection', ItemOf(fact)) \in Nat
        <5>1. Collection' \subseteq Id /\ IsFiniteSet(Id)
          BY CatalogAssumption DEF Collection, CollectionIn
        <5> QED BY <5>1, PartSize DEF Place
      <4> QED BY <4>1, <4>2
    <3> QED BY <3>2, <3>3
  <2> QED BY <2>1
<1> QED BY <1>1, PassedFewer

(* What does not touch the catalog and ends in a failure. *)
LEMMA FailingKeeps ==
  ASSUME CInv, capturePc' \in CaptureFailure,
         UNCHANGED <<include, resources, edges, captured, currentOffset, todo, listed,
                     ever, throughout, finished, shifts>>
  PROVE  CInv'
<1>1. capturePc' \notin {"start"} \union Type \union Stages
  BY StagesAre
<1>2. ~InProgress'
  BY <1>1 DEF InProgress, Stages
<1>3. CaptureTypes' /\ Remembered' /\ ReadTruly'
  BY DEF CInv, CaptureTypes, Remembered, ReadTruly, Read, Lasting
<1>4. TypesRead' /\ RelationsRead'
  BY <1>1 DEF TypesRead, RelationsRead, Stages
<1> QED BY <1>2, <1>3, <1>4, NothingPassed DEF CInv

LEMMA AcceptKeeps == ASSUME CInv, AcceptOptions PROVE CInv'
<1>1. /\ UNCHANGED <<include, resources, edges, captured, currentOffset, todo, listed,
                     ever, throughout, finished, shifts>>
      /\ capturePc = "start" /\ capturePc' = "businessDomain" /\ Prerequisites
  BY DEF AcceptOptions, serviceVars, queryVars, historyVars, factVars, foundVars
<1>2. currentOffset' = 0
  BY <1>1, StagesAre DEF CInv, CaptureTypes, InProgress
<1>3. CaptureTypes' /\ Remembered' /\ ReadTruly'
  BY <1>1, <1>2 DEF CInv, CaptureTypes, Type, Remembered, ReadTruly, Read, Lasting
<1>4. TypesRead'
  <2>1. capturePc' = Order[1] /\ DOMAIN Order = 1..5
    BY <1>1, OrderIs
  <2> QED BY <2>1 DEF TypesRead
<1>5. RelationsRead'
  BY <1>1 DEF RelationsRead, Prerequisites
<1> QED BY <1>1, <1>2, <1>3, <1>4, <1>5, NothingPassed DEF CInv

(* When a type is done, those asked for before the next are. *)
LEMMA NextTypesRead ==
  ASSUME TypesRead, NEW n \in DOMAIN Order, capturePc = Order[n], capturePc' = AfterTypes(n),
         include' = include, finished \subseteq finished', <<Order[n]>> \in finished'
  PROVE  TypesRead' /\ capturePc' \in {"list products"} \union Type
<1>0. DOMAIN Order = 1..5 /\ \A i, j \in DOMAIN Order : Order[i] = Order[j] => i = j
  BY OrderIs, StagesAre
<1>1. \A i \in DOMAIN Order : Order[i] \in Type
  BY StagesAre
<1>2. Order[n] \notin CaptureFailure \union {"start"}
  BY <1>1, StagesAre
<1>3. ASSUME NEW i \in DOMAIN Order, i <= n, Asked(Order[i]) PROVE <<Order[i]>> \in finished'
  <2>1. CASE i = n
    BY <2>1
  <2>2. CASE i # n
    <3>1. ~\E j \in 1..i : capturePc = Order[j]
      BY <2>2, <1>0, <1>3
    <3> QED BY <3>1, <1>2, <1>3 DEF TypesRead
  <2> QED BY <2>1, <2>2
<1>4. \A type : Asked(type)' <=> Asked(type)
  BY DEF Asked
<1>5. CASE AfterTypes(n) = "list products" /\ \A i \in DOMAIN Order : i > n => ~Asked(Order[i])
  <2>1. ASSUME NEW i \in DOMAIN Order, Asked(Order[i]) PROVE <<Order[i]>> \in finished'
    <3>1. ~(i > n)
      BY <1>5, <2>1
    <3>2. i <= n
      BY <1>0, <3>1
    <3> QED BY <3>2, <2>1, <1>3
  <2> QED BY <2>1, <1>4, <1>5 DEF TypesRead
<1>6. ASSUME NEW m \in DOMAIN Order, m > n, AfterTypes(n) = Order[m],
             \A i \in DOMAIN Order : n < i /\ i < m => ~Asked(Order[i])
      PROVE  TypesRead' /\ capturePc' \in Type
  <2>1. ASSUME NEW i \in DOMAIN Order, Asked(Order[i])
        PROVE  <<Order[i]>> \in finished' \/ \E j \in 1..i : capturePc' = Order[j]
    <3>1. i <= n \/ i >= m
      BY <2>1, <1>0, <1>6
    <3>2. CASE i >= m
      <4>1. m \in 1..i
        BY <3>2, <1>0
      <4> QED BY <4>1, <1>6
    <3> QED BY <3>1, <3>2, <1>3, <2>1
  <2> QED BY <2>1, <1>1, <1>4, <1>6 DEF TypesRead
<1> QED BY <1>5, <1>6, NextType

-----------------------------------------------------------------------------
(* Pages. *)

(* The items of a page as long as size. *)
PageOf(size) == {id \in Rest : Place(Rest, id) < size}

(* A page that reads all that lasted of its items passes nothing over, when the listing *)
(* goes on after them or they are all that was left.                                    *)
LEMMA PagePasses ==
  ASSUME CInv, InProgress, NEW size \in Nat,
         UNCHANGED <<resources, edges, throughout, shifts>>,
         \A fact \in throughout : fact \in Read => fact \in Read',
         \A fact \in throughout :
           ListingOf(fact) = Current /\ ItemOf(fact) \in PageOf(size) => fact \in Read',
         \/ size = Cardinality(Rest) /\ Finish
         \/ /\ currentOffset' = currentOffset + size
            /\ UNCHANGED <<finished, capturePc, todo>>
  PROVE  PassedOnlyShifted'
<1>1. /\ CaptureTypes /\ resources \in [Id -> Found] /\ edges \subseteq Edge
      /\ currentOffset \in Nat /\ throughout \subseteq Facts(resources, edges)
  BY DEF CInv, CaptureTypes, Remembered
<1>2. /\ Collection \subseteq Nat /\ IsFiniteSet(Collection)
      /\ \A id \in Collection : Place(Collection, id) \in Nat
  BY CollectionsAre DEF Collection
<1>3. Rest \subseteq Collection /\ Rest = {id \in Collection : Place(Collection, id) >= currentOffset}
  BY DEF Rest
<1>4. Rest \subseteq Nat /\ IsFiniteSet(Rest) /\ Cardinality(Rest) \in Nat
  BY <1>2, <1>3, PartSize
<1>5. ASSUME NEW fact \in PassedOver'
      PROVE  fact \in throughout \ Read /\ fact \notin Read'
  BY DEF PassedOver
<1>6. ASSUME NEW fact \in PassedOver', ListingOf(fact) = Current
      PROVE  \/ fact \in PassedOver
             \/ /\ Place(Collection, ItemOf(fact)) >= currentOffset + size
                /\ size < Cardinality(Rest)
  <2> DEFINE id == ItemOf(fact)
  <2>1. fact \in throughout /\ fact \notin Read /\ fact \notin Read'
    BY <1>5
  <2>2. id \in Collection
    BY <2>1, <1>1, <1>6, FactsInProgress DEF Collection
  <2>3. id \notin PageOf(size)
    BY <2>1, <1>6
  <2> HIDE DEF id
  <2>4. CASE Place(Collection, id) < currentOffset
    BY <2>1, <2>4, <1>6 DEF PassedOver, id
  <2>5. CASE ~(Place(Collection, id) < currentOffset)
    <3>1. Place(Collection, id) >= currentOffset /\ Place(Collection, id) \in Nat
      BY <2>2, <2>5, <1>1, <1>2
    <3>2. id \in Rest /\ Place(Rest, id) = Place(Collection, id) - currentOffset
      <4>1. Place({y \in Collection : Place(Collection, y) >= currentOffset}, id)
              = Place(Collection, id) - currentOffset
        BY <2>2, <3>1, <1>1, <1>2, PlacesInRest
      <4> QED BY <4>1, <2>2, <3>1, <1>3
    <3>3. Place(Rest, id) < Cardinality(Rest) /\ Place(Rest, id) \in Nat
      BY <3>2, <1>4, PlacesGrow
    <3>4. ~(Place(Rest, id) < size)
      BY <2>3, <3>2 DEF PageOf
    <3>5. Place(Collection, id) >= currentOffset + size /\ size < Cardinality(Rest)
      BY <3>1, <3>2, <3>3, <3>4, <1>1, <1>4
    <3> QED BY <3>5 DEF id
  <2> QED BY <2>4, <2>5
<1>7. PassedOver' \subseteq PassedOver
  <2>1. ASSUME NEW fact \in PassedOver' PROVE fact \in PassedOver
    <3>1. /\ fact \in throughout \ Read
          /\ ListingOf(fact)' = ListingOf(fact) /\ ItemOf(fact)' = ItemOf(fact)
      BY <1>5 DEF ListingOf, ItemOf
    <3>2. CASE ListingOf(fact) \in finished
      BY <3>1, <3>2 DEF PassedOver
    <3>3. CASE ListingOf(fact) \notin finished /\ size = Cardinality(Rest) /\ Finish
      <4>1. currentOffset' = 0 /\ finished' = finished \union {Current}
        BY <3>3 DEF Finish
      <4>2. ListingOf(fact) \in finished'
        <5>1. SUFFICES ASSUME ListingOf(fact) \notin finished' PROVE FALSE
          OBVIOUS
        <5>2. Place(Collection', ItemOf(fact)) < 0
          BY <3>1, <4>1, <5>1 DEF PassedOver, Place
        <5>3. Collection' \subseteq Id /\ IsFiniteSet(Id)
          BY CatalogAssumption DEF Collection, CollectionIn
        <5>4. Place(Collection', ItemOf(fact)) \in Nat
          BY <5>3, PartSize DEF Place
        <5> QED BY <5>2, <5>4
      <4>3. ListingOf(fact) = Current
        BY <3>3, <4>1, <4>2
      <4> QED BY <4>3, <3>3, <1>4, <1>6
    <3>4. CASE /\ ListingOf(fact) \notin finished
               /\ currentOffset' = currentOffset + size /\ UNCHANGED <<finished, capturePc, todo>>
      <4>1. InProgress' = InProgress /\ Current' = Current /\ Collection' = Collection
        BY <3>4 DEF InProgress, Current, First, Collection, CollectionIn
      <4>2. ListingOf(fact) = Current /\ Place(Collection, ItemOf(fact)) < currentOffset + size
        BY <3>1, <3>4, <4>1 DEF PassedOver, Place
      <4>3. Place(Collection, ItemOf(fact)) \in Nat
        BY <3>1, <4>2, <1>1, <1>2, FactsInProgress DEF Collection
      <4> QED BY <4>2, <4>3, <1>1, <1>6
    <3> QED BY <3>2, <3>3, <3>4
  <2> QED BY <2>1
<1> QED BY <1>7, PassedFewer

(* What is gathered is true, and what was read stays read. *)
LEMMA GatherReads ==
  ASSUME CInv, NEW page \in SUBSET Id, \A id \in page : resources[id] # Absent, Gather(page),
         UNCHANGED <<include, resources, edges, listed, ever, throughout>>
  PROVE  /\ captured' \in [Id -> Found] /\ ReadTruly' /\ Remembered'
         /\ \A fact \in throughout : fact \in Read => fact \in Read'
         /\ \A id \in page : Lasting(id) => <<id, resources[id]>> \in Read'
<1>1. /\ resources \in [Id -> Found] /\ captured \in [Id -> Found]
      /\ edges \subseteq Edge /\ listed \subseteq Edge
      /\ throughout \subseteq Facts(resources, edges)
  BY DEF CInv, CaptureTypes, Remembered
<1>2. /\ captured' \in [Id -> Found]
      /\ \A id \in Id : captured'[id] = IF id \in page /\ captured[id] # Nameless
                                          THEN resources[id] ELSE captured[id]
  BY <1>1 DEF Gather
<1>3. Nameless # Absent
  BY CatalogAssumption DEF Form
<1>4. \A id \in Id : Lasting(id)' <=> Lasting(id)
  BY DEF Lasting
<1>5. ReadTruly'
  <2>1. ASSUME NEW id \in Id, captured'[id] # Absent PROVE <<id, captured'[id]>> \in ever
    <3>1. CASE id \in page /\ captured[id] # Nameless
      <4>1. captured'[id] = resources[id] /\ resources[id] \in Found
        BY <1>1, <1>2, <3>1
      <4>2. <<id, captured'[id]>> \in Facts(resources, edges)
        BY <1>1, <2>1, <4>1, FactsAre
      <4> QED BY <4>2 DEF CInv, Remembered
    <3>2. CASE ~(id \in page /\ captured[id] # Nameless)
      <4>1. captured'[id] = captured[id]
        BY <1>2, <3>2
      <4> QED BY <2>1, <4>1 DEF CInv, ReadTruly, Read
    <3> QED BY <3>1, <3>2
  <2>2. Read' \subseteq ever'
    BY <2>1 DEF CInv, ReadTruly, Read
  <2>3. ASSUME NEW id \in Id, Lasting(id)', captured'[id] # Absent
        PROVE  captured'[id] = resources'[id]
    BY <1>2, <1>4, <2>3 DEF CInv, ReadTruly
  <2> QED BY <2>2, <2>3 DEF ReadTruly
<1>6. ASSUME NEW id \in page, Lasting(id) PROVE <<id, resources[id]>> \in Read'
  <2>1. captured'[id] = resources[id]
    <3>1. CASE captured[id] # Nameless
      BY <3>1, <1>2
    <3>2. CASE captured[id] = Nameless
      BY <3>2, <1>2, <1>3, <1>6 DEF CInv, ReadTruly
    <3> QED BY <3>1, <3>2
  <2>2. captured'[id] # Absent /\ id \in Id
    BY <2>1
  <2> QED BY <2>1, <2>2 DEF Read
<1>7. ASSUME NEW fact \in throughout, fact \in Read PROVE fact \in Read'
  <2>1. CASE fact \in listed
    BY <2>1 DEF Read
  <2>2. CASE fact \notin listed
    <3>1. PICK id \in Id : fact = <<id, captured[id]>> /\ captured[id] # Absent
      BY <1>7, <2>2 DEF Read
    <3>2. fact \in Facts(resources, edges) /\ captured[id] \in Found
      BY <1>1, <3>1
    <3>3. captured[id] = resources[id]
      <4>1. fact \notin Edge
        BY <1>1, <3>1, <3>2, CatalogAssumption DEF Edge, Id, Found
      <4> QED BY <3>1, <3>2, <1>1, FactsAre
    <3>4. captured'[id] = captured[id]
      BY <1>2, <3>3
    <3> QED BY <3>1, <3>4 DEF Read
  <2> QED BY <2>1, <2>2
<1>8. Remembered'
  BY DEF CInv, Remembered
<1> QED BY <1>2, <1>5, <1>6, <1>7, <1>8

(* A page of resources, whichever way it was asked for. *)
LEMMA TypePageKeeps ==
  ASSUME CInv, NEW n \in DOMAIN Order, capturePc = Order[n], NEW size \in Nat,
         Gather(PageOf(size)),
         UNCHANGED <<include, resources, edges, todo, listed, ever, throughout, shifts>>,
         \/ size = Cardinality(Rest) /\ Finish /\ capturePc' = AfterTypes(n)
         \/ currentOffset' = currentOffset + size /\ UNCHANGED <<finished, capturePc>>
  PROVE  CInv'
<1>1. capturePc \in Type /\ InProgress /\ Current = <<Order[n]>>
  BY StagesAre DEF InProgress, Current
<1>2. /\ CaptureTypes /\ resources \in [Id -> Found] /\ edges \subseteq Edge
      /\ currentOffset \in Nat /\ throughout \subseteq Facts(resources, edges)
  BY DEF CInv, CaptureTypes, Remembered
<1>3. PageOf(size) \in SUBSET Id /\ \A id \in PageOf(size) : resources[id] # Absent
  BY <1>1 DEF PageOf, Rest, Collection, CollectionIn
<1>4. /\ captured' \in [Id -> Found] /\ ReadTruly' /\ Remembered'
      /\ \A fact \in throughout : fact \in Read => fact \in Read'
      /\ \A id \in PageOf(size) : Lasting(id) => <<id, resources[id]>> \in Read'
  BY <1>3, GatherReads
<1>5. ASSUME NEW fact \in throughout, ListingOf(fact) = Current, ItemOf(fact) \in PageOf(size)
      PROVE  fact \in Read'
  <2>1. fact = <<ItemOf(fact), resources[ItemOf(fact)]>>
    BY <1>1, <1>2, <1>5, FactsInProgress
  <2> DEFINE id == ItemOf(fact)
  <2> HIDE DEF id
  <2>2. id \in PageOf(size) /\ fact = <<id, resources[id]>>
    BY <1>5, <2>1 DEF id
  <2> QED BY <1>4, <2>2 DEF Lasting
<1>6. PassedOnlyShifted'
  <2>1. \/ size = Cardinality(Rest) /\ Finish
        \/ currentOffset' = currentOffset + size /\ UNCHANGED <<finished, capturePc, todo>>
    OBVIOUS
  <2> QED BY <1>1, <1>4, <1>5, <2>1, PagePasses
<1>7. TypesRead' /\ capturePc' \in {"list products"} \union Type
  <2>1. CASE Finish /\ capturePc' = AfterTypes(n)
    <3>1. finished \subseteq finished' /\ <<Order[n]>> \in finished'
      BY <1>1, <2>1 DEF Finish
    <3> QED BY <2>1, <3>1, NextTypesRead DEF CInv
  <2>2. CASE UNCHANGED <<finished, capturePc>>
    BY <1>1, <2>2 DEF CInv, TypesRead, Asked
  <2> QED BY <2>1, <2>2
<1>8. CaptureTypes'
  <2>1. currentOffset' \in Nat
    BY <1>2 DEF Finish
  <2>2. ~InProgress' => currentOffset' = 0
    <3>1. CASE Finish
      BY <3>1 DEF Finish
    <3>2. CASE UNCHANGED <<finished, capturePc>>
      BY <3>2, <1>1 DEF InProgress
    <3> QED BY <3>1, <3>2
  <2> QED BY <1>2, <1>4, <1>7, <2>1, <2>2 DEF CaptureTypes, Stages
<1>9. RelationsRead'
  <2>1. capturePc \notin {"start"} \union CaptureFailure
    BY <1>1, StagesAre
  <2>2. capturePc' \notin {"products", "terms", "built"}
    BY <1>7, StagesAre DEF Stages
  <2> QED BY <2>1, <2>2 DEF CInv, RelationsRead, Prerequisites
<1> QED BY <1>4, <1>6, <1>7, <1>8, <1>9 DEF CInv

LEMMA RestIsFinite == Cardinality(Rest) \in Nat /\ Rest \subseteq Id
<1>1. IsFiniteSet(Collection) /\ Rest \subseteq Collection /\ Collection \subseteq Id
  BY CollectionsAre DEF Collection, Rest
<1> QED BY <1>1, PartSize

LEMMA LinkedPagesAre ==
  ASSUME NEW answer \in LinkedPages
  PROVE  answer.size \in Nat /\ (~answer.link => answer.size = Cardinality(Rest))
<1>1. PICK n \in 0..Cardinality(Rest) : answer = [size |-> n, link |-> n < Cardinality(Rest)]
  BY DEF LinkedPages
<1>2. answer.size = n /\ answer.link = (n < Cardinality(Rest))
  BY <1>1
<1>3. answer.link \/ ~(n < Cardinality(Rest))
  BY <1>2, Zenon
<1>4. n \in Nat /\ (~(n < Cardinality(Rest)) => n = Cardinality(Rest))
  BY RestIsFinite
<1> QED BY <1>2, <1>3, <1>4, Zenon

LEMMA EnumerateKeeps == ASSUME CInv, NEW n \in DOMAIN Order, Enumerate(n) PROVE CInv'
<1>1. PICK answer \in LinkedPages :
        /\ Gather(ItemsOf(answer))
        /\ IF answer.link THEN FollowLink(answer) /\ UNCHANGED capturePc
                          ELSE Finish /\ capturePc' = AfterTypes(n)
  BY DEF Enumerate
<1>2. /\ UNCHANGED <<include, resources, edges, todo, listed, ever, throughout, shifts>>
      /\ capturePc = Order[n]
  BY DEF Enumerate, serviceVars, factVars
<1>3. answer.size \in Nat /\ (~answer.link => answer.size = Cardinality(Rest))
  BY LinkedPagesAre
<1>4. ItemsOf(answer) = PageOf(answer.size)
  BY DEF ItemsOf, PageOf
<1> QED BY <1>1, <1>2, <1>3, <1>4, TypePageKeeps DEF FollowLink

LEMMA TakeColumnsKeeps == ASSUME CInv, NEW answer \in Answers, TakeColumns(answer) PROVE CInv'
<1>1. /\ UNCHANGED <<include, resources, edges, todo, listed, ever, throughout, shifts>>
      /\ Gather(ItemsOf(answer)) /\ 5 \in DOMAIN Order /\ capturePc = Order[5]
      /\ IF IsLast(answer) THEN Finish /\ capturePc' = AfterTypes(5)
         ELSE currentOffset' = NextOffset(answer) /\ UNCHANGED <<finished, capturePc>>
  BY OrderIs DEF TakeColumns, Querying, serviceVars, factVars
<1>2. answer.size \in Nat /\ (IsLast(answer) => answer.size = Cardinality(Rest))
  BY RestIsFinite, CatalogAssumption DEF Answers, IsLast
<1>3. ItemsOf(answer) = PageOf(answer.size)
  BY DEF ItemsOf, PageOf
<1> QED BY <1>1, <1>2, <1>3, TypePageKeeps DEF NextOffset

-----------------------------------------------------------------------------
(* Relationships. *)

(* Among the later stages the types stay read. *)
LEMMA StagesKeep ==
  ASSUME CInv, capturePc \in Stages, capturePc' \in Stages, include' = include,
         finished \subseteq finished'
  PROVE  TypesRead'
<1>1. ASSUME NEW i \in DOMAIN Order, Asked(Order[i]) PROVE <<Order[i]>> \in finished
  <2>1. DOMAIN Order = 1..5
    BY OrderIs
  <2>2. ASSUME NEW j \in 1..i PROVE capturePc # Order[j]
    BY <2>1, StagesAre
  <2>3. capturePc \notin CaptureFailure \union {"start"}
    BY StagesAre
  <2> QED BY <1>1, <2>2, <2>3 DEF CInv, TypesRead
<1>2. \A type : Asked(type)' <=> Asked(type)
  BY DEF Asked
<1> QED BY <1>1, <1>2 DEF TypesRead

LEMMA CollectKeeps ==
  ASSUME CInv, CollectProducts \/ CollectTerms
  PROVE  CInv'
<1>1. UNCHANGED <<include, resources, edges, captured, currentOffset, listed,
                  ever, throughout, finished, shifts>>
  BY DEF CollectProducts, CollectTerms, CollectSources, serviceVars, queryVars, historyVars,
     factVars, foundVars
<1>2. CASE capturePc' = "nameless source"
  <2>1. todo' = todo
    BY <1>2 DEF CollectProducts, CollectTerms, CollectSources
  <2> QED BY <1>1, <1>2, <2>1, FailingKeeps DEF CaptureFailure
<1>3. CASE capturePc' # "nameless source"
  <2>1. PICK type \in {"dataProduct", "glossaryTerm"} :
          /\ todo' = Listings(type) /\ capturePc \in {"list products", "products"}
          /\ \/ type = "dataProduct" /\ capturePc = "list products" /\ capturePc' = "products"
             \/ /\ type = "glossaryTerm" /\ capturePc = "products" /\ todo = {}
                /\ capturePc' = "terms"
    BY <1>3 DEF CollectProducts, CollectTerms, CollectSources
  <2>2. ~InProgress /\ capturePc \in Stages /\ capturePc' \in Stages
    BY <2>1 DEF InProgress, Type, Stages
  <2>3. currentOffset' = 0
    BY <1>1, <2>2, StagesAre DEF CInv, CaptureTypes
  <2>4. Listings(type) \subseteq Id \X {"dataAsset", "dataColumn"}
    BY DEF Listings, Sources, TargetOf
  <2>5. CaptureTypes' /\ Remembered' /\ ReadTruly'
    <3>1. CaptureTypes /\ Remembered /\ ReadTruly
      BY DEF CInv
    <3>2. CaptureTypes'
      BY <1>1, <2>1, <2>2, <2>3, <2>4, <3>1 DEF CaptureTypes
    <3>3. Remembered'
      BY <1>1, <3>1 DEF Remembered
    <3>4. ReadTruly'
      BY <1>1, <3>1 DEF ReadTruly, Read, Lasting
    <3> QED BY <3>2, <3>3, <3>4
  <2>6. PassedOnlyShifted' /\ TypesRead'
    BY <1>1, <2>2, <2>3, NothingPassed, StagesKeep
  <2>7. \A t : Listings(t)' = Listings(t)
    BY <1>1 DEF Listings, Sources, AskedFamilies
  <2>8. RelationsRead'
    BY <1>1, <2>1, <2>7 DEF CInv, RelationsRead, Prerequisites, CaptureFailure
  <2> QED BY <2>5, <2>6, <2>8 DEF CInv
<1> QED BY <1>2, <1>3

LEMMA ListKeeps == ASSUME CInv, ListRelationships PROVE CInv'
<1> DEFINE first == First
<1>1. /\ UNCHANGED <<include, resources, edges, capturePc, captured, ever, throughout, shifts>>
      /\ capturePc \in {"products", "terms"} /\ todo # {}
  BY DEF ListRelationships, serviceVars, factVars
<1>2. PICK answer \in LinkedPages :
        /\ listed' = listed \union ({first[1]} \X ItemsOf(answer))
        /\ IF answer.link THEN FollowLink(answer) /\ UNCHANGED todo
                          ELSE Finish /\ todo' = todo \ {first}
  BY DEF ListRelationships
<1>3. answer.size \in Nat /\ (~answer.link => answer.size = Cardinality(Rest))
  BY LinkedPagesAre
<1>4. ItemsOf(answer) = PageOf(answer.size)
  BY DEF ItemsOf, PageOf
<1>5. InProgress /\ capturePc \notin Type /\ Current = first
  BY <1>1 DEF InProgress, Current, Type
<1>6. /\ CaptureTypes /\ resources \in [Id -> Found] /\ edges \subseteq Edge
      /\ currentOffset \in Nat /\ throughout \subseteq Facts(resources, edges)
      /\ Facts(resources, edges) \subseteq ever /\ listed \subseteq Edge
      /\ todo \subseteq Id \X {"dataAsset", "dataColumn"}
  BY DEF CInv, CaptureTypes, Remembered
<1> HIDE DEF first
<1>7. ASSUME NEW id \in ItemsOf(answer) PROVE <<first[1], id>> \in edges
  BY <1>5 DEF ItemsOf, Rest, Collection, CollectionIn, first
<1>8. {first[1]} \X ItemsOf(answer) \subseteq edges
  BY <1>7
<1>9. Read \subseteq Read' /\ Read' \subseteq Read \union edges
  BY <1>1, <1>2, <1>8 DEF Read
<1>10. PassedOnlyShifted'
  <2>1. ASSUME NEW fact \in throughout, ListingOf(fact) = Current,
               ItemOf(fact) \in PageOf(answer.size)
        PROVE  fact \in Read'
    <3>1. fact = <<first[1], ItemOf(fact)>>
      BY <1>5, <1>6, <2>1, FactsInProgress DEF first
    <3>2. <<first[1], ItemOf(fact)>> \in listed'
      BY <1>2, <1>4, <2>1
    <3> QED BY <3>1, <3>2 DEF Read
  <2>2. \/ answer.size = Cardinality(Rest) /\ Finish
        \/ /\ currentOffset' = currentOffset + answer.size
           /\ UNCHANGED <<finished, capturePc, todo>>
    BY <1>1, <1>2, <1>3 DEF FollowLink
  <2> QED BY <1>1, <1>3, <1>5, <1>9, <2>1, <2>2, PagePasses
<1>11. finished \subseteq finished' /\ todo' \subseteq todo /\ finished \union todo \subseteq finished' \union todo'
  BY <1>2, <1>5 DEF FollowLink, Finish
<1>12. CaptureTypes'
  <2>1. currentOffset' \in Nat /\ (currentOffset' = 0 \/ InProgress')
    BY <1>1, <1>2, <1>3, <1>6 DEF FollowLink, Finish, InProgress
  <2>2. listed' \subseteq Edge
    BY <1>2, <1>6, <1>8
  <2> QED BY <1>1, <1>6, <1>11, <2>1, <2>2 DEF CaptureTypes
<1>13. Remembered' /\ ReadTruly'
  <2>1. Remembered'
    BY <1>1 DEF CInv, Remembered
  <2>2. edges \subseteq ever
    BY <1>6 DEF Facts
  <2>3. Read' \subseteq ever'
    BY <1>1, <1>9, <2>2 DEF CInv, ReadTruly
  <2> QED BY <1>1, <2>1, <2>3 DEF CInv, ReadTruly, Lasting
<1>14. TypesRead'
  BY <1>1, <1>11, StagesKeep DEF Stages
<1>15. RelationsRead'
  <2>1. \A type : Listings(type)' = Listings(type)
    BY <1>1 DEF Listings, Sources, AskedFamilies
  <2> QED BY <1>1, <1>11, <2>1 DEF CInv, RelationsRead, Prerequisites, CaptureFailure
<1> QED BY <1>10, <1>12, <1>13, <1>14, <1>15 DEF CInv

LEMMA BuildKeeps == ASSUME CInv, Build PROVE CInv'
<1>1. /\ UNCHANGED <<include, resources, edges, captured, currentOffset, todo, listed,
                     ever, throughout, finished, shifts>>
      /\ capturePc = "terms" /\ capturePc' = "built" /\ todo = {}
  BY DEF Build, serviceVars, queryVars, historyVars, factVars, foundVars
<1>2. ~InProgress /\ ~InProgress' /\ capturePc \in Stages /\ capturePc' \in Stages
  BY <1>1 DEF InProgress, Type, Stages
<1>3. currentOffset' = 0
  BY <1>1, <1>2, StagesAre DEF CInv, CaptureTypes
<1>4. CaptureTypes' /\ Remembered' /\ ReadTruly'
  BY <1>1, <1>2, <1>3 DEF CInv, CaptureTypes, Remembered, ReadTruly, Read, Lasting
<1>5. PassedOnlyShifted' /\ TypesRead'
  BY <1>1, <1>2, NothingPassed, StagesKeep
<1>6. \A type : Listings(type)' = Listings(type)
  BY <1>1 DEF Listings, Sources, AskedFamilies
<1>7. RelationsRead'
  BY <1>1, <1>6 DEF CInv, RelationsRead, Prerequisites, CaptureFailure
<1> QED BY <1>4, <1>5, <1>7 DEF CInv

LEMMA CaptureStep == CInv /\ [CaptureNext]_captureVars => CInv'
<1> SUFFICES ASSUME CInv, [CaptureNext]_captureVars PROVE CInv'
  OBVIOUS
<1>1. CASE RefuseOptions \/ ReadFails \/ ExceedPageLimit \/ RepeatedColumn \/ SourceGone \/ DuplicateId
  BY <1>1, FailingKeeps DEF RefuseOptions, ReadFails, ExceedPageLimit, RepeatedColumn, SourceGone,
     DuplicateId, CaptureFailure, serviceVars, queryVars, historyVars, factVars, foundVars
<1>2. CASE AcceptOptions
  BY <1>2, AcceptKeeps
<1>3. CASE \E n \in DOMAIN Order : Enumerate(n)
  BY <1>3, EnumerateKeeps
<1>4. CASE \E answer \in Answers : TakeColumns(answer)
  BY <1>4, TakeColumnsKeeps
<1>5. CASE CollectProducts \/ CollectTerms
  BY <1>5, CollectKeeps
<1>6. CASE ListRelationships
  BY <1>6, ListKeeps
<1>7. CASE Build
  BY <1>7, BuildKeeps
<1>8. CASE \E id \in Id : Delete(id) \/ \E form \in Form : Create(id, form)
  BY <1>8, DeleteKeeps, CreateKeeps
<1>9. CASE \E edge \in Edge : Relate(edge) \/ Unrelate(edge)
  BY <1>9, RelateKeeps
<1>10. CASE UNCHANGED captureVars
  <2>1. /\ UNCHANGED <<include, resources, edges, capturePc, captured, currentOffset, todo, listed>>
        /\ UNCHANGED <<ever, throughout, finished, shifts>>
    BY <1>10 DEF captureVars, serviceVars, foundVars, queryVars, historyVars, factVars
  <2>2. CaptureTypes' /\ Remembered' /\ ReadTruly'
    BY <2>1 DEF CInv, CaptureTypes, InProgress, Remembered, ReadTruly, Read, Lasting
  <2>3. PassedOver' = PassedOver
    BY <2>1 DEF PassedOver, InProgress, Current, First, Collection, CollectionIn, Read,
       ListingOf, ItemOf, Place
  <2>4. PassedOnlyShifted'
    BY <2>1, <2>3 DEF CInv, PassedOnlyShifted
  <2>5. TypesRead' /\ RelationsRead'
    BY <2>1 DEF CInv, TypesRead, Asked, RelationsRead, Prerequisites, Listings, Sources,
       AskedFamilies
  <2> QED BY <2>2, <2>4, <2>5 DEF CInv
<1> QED BY <1>1, <1>2, <1>3, <1>4, <1>5, <1>6, <1>7, <1>8, <1>9, <1>10
   DEF CaptureNext, Capture, Query

(* What lasted and is missing was passed over, or lost its source so. *)
LEMMA InvariantCovers == CInv => CoverageIsTrue
<1> DEFINE missing == {fact \in throughout : Covers(fact)} \ Read
           orphaned == {fact \in missing \intersect Edge :
                          \E lost \in missing \ Edge : lost[1] = fact[1]}
<1> SUFFICES ASSUME CInv, capturePc = "built"
             PROVE  Cardinality(missing \ orphaned) <= shifts /\ Read \subseteq ever
  BY DEF CoverageIsTrue
<1>1. /\ resources \in [Id -> Found] /\ edges \subseteq Edge /\ shifts \in Nat
      /\ throughout \subseteq Facts(resources, edges)
      /\ IsFiniteSet(PassedOver) /\ Cardinality(PassedOver) <= shifts
  BY DEF CInv, CaptureTypes, Remembered, PassedOnlyShifted
<1>2. ASSUME NEW type \in Type, Asked(type) PROVE <<type>> \in finished
  <2>1. PICK i \in DOMAIN Order : Order[i] = type
    BY StagesAre
  <2>2. DOMAIN Order = 1..5
    BY OrderIs
  <2>3. ASSUME NEW j \in 1..i PROVE capturePc # Order[j]
    <3>1. capturePc \in Stages
      BY DEF Stages
    <3> QED BY <2>2, <3>1, StagesAre
  <2>4. capturePc \notin CaptureFailure \union {"start"}
    BY DEF CaptureFailure
  <2> QED BY <1>2, <2>1, <2>3, <2>4 DEF CInv, TypesRead
<1>3. ASSUME NEW fact \in missing, fact \notin orphaned PROVE ListingOf(fact) \in finished
  <2>1. fact \in Facts(resources, edges) /\ fact \in throughout /\ Covers(fact) /\ fact \notin Read
    BY <1>1
  <2>2. CASE fact \notin Edge
    <3>1. PICK id \in Id : fact = <<id, resources[id]>>
      BY <1>1, <2>1, <2>2, FactsAre
    <3>2. fact[1] = id /\ TypeOf(id) \in Type
      BY <3>1, TypesAre
    <3>3. Asked(TypeOf(id)) /\ ListingOf(fact) = <<TypeOf(id)>>
      BY <2>1, <2>2, <3>2 DEF Covers, ListingOf
    <3> QED BY <1>2, <3>2, <3>3
  <2>3. CASE fact \in Edge
    <3> DEFINE id == fact[1]
               source == <<id, resources[id]>>
    <3>1. /\ id \in Id /\ TypeOf(id) \in {"dataProduct", "glossaryTerm"}
          /\ Family(fact) \in include /\ Family(fact) \in Families
          /\ SourceOf(Family(fact)) = TypeOf(id) /\ TargetOf(Family(fact)) = TypeOf(fact[2])
      BY <2>1, <2>3, EdgeEnds, FamilyFits DEF Covers
    <3>2. source \in throughout /\ Prerequisites
      BY <2>1, <2>3 DEF CInv, Remembered, RelationsRead, CaptureFailure
    <3>3. Asked(TypeOf(id))
      BY <3>1, <3>2 DEF Prerequisites, Asked
    <3> HIDE DEF id
    <3>4. source \notin Edge /\ source[1] = id /\ resources[id] \in Found
      <4>1. resources[id] \in Found
        BY <1>1, <3>1
      <4> QED BY <4>1, CatalogAssumption DEF Edge, Id, Found
    <3>5. source \in Read
      <4>1. SUFFICES ASSUME source \notin Read PROVE FALSE
        OBVIOUS
      <4>2. source \in missing \ Edge
        BY <3>2, <3>3, <3>4, <4>1 DEF Covers
      <4> HIDE DEF source, missing
      <4> QED BY <4>2, <3>4, <2>3, <1>3 DEF id
    <3>6. captured[id] # Absent
      <4>1. source \notin listed
        BY <3>4 DEF CInv, CaptureTypes
      <4> QED BY <3>5, <4>1 DEF Read
    <3>7. id \in Sources(TypeOf(id)) /\ Family(fact) \in AskedFamilies(TypeOf(id))
      BY <3>1, <3>6 DEF Sources, AskedFamilies
    <3>8. <<id, TypeOf(fact[2])>> \in Listings(TypeOf(id))
      BY <3>1, <3>7 DEF Listings
    <3>9. Listings(TypeOf(id)) \subseteq finished
      BY <3>1 DEF CInv, RelationsRead
    <3> QED BY <2>3, <3>8, <3>9 DEF ListingOf, id
  <2> QED BY <2>2, <2>3
<1>4. missing \ orphaned \subseteq PassedOver
  BY <1>3 DEF PassedOver
<1>5. Read \subseteq ever
  BY DEF CInv, ReadTruly
<1> HIDE DEF missing, orphaned
<1>6. /\ Cardinality(missing \ orphaned) <= Cardinality(PassedOver)
      /\ Cardinality(missing \ orphaned) \in Nat /\ Cardinality(PassedOver) \in Nat
  BY <1>1, <1>4, PartSize
<1>7. Cardinality(missing \ orphaned) <= shifts
  BY <1>1, <1>6
<1> QED BY <1>5, <1>7

(* The coverage record of a capture tells the truth up to what others took away under  *)
(* the reader, whatever they do between any two of its requests, the pages of a        *)
(* listing included, and for every page size: of what it covers and nobody touched no  *)
(* more is missing than others took from what had been read of the listing then read,  *)
(* not counting relationships of missing sources, because query_data_columns goes on   *)
(* at the position after those it read and every listing is read to its last page.     *)
THEOREM CoverageHolds == CaptureSpec => []CoverageIsTrue
<1>1. CaptureSpec => []CInv
  BY CaptureInvariantInit, CaptureStep, PTL DEF CaptureSpec
<1> QED BY <1>1, InvariantCovers, PTL
=============================================================================
