-------------------------------- MODULE Origin --------------------------------
(***************************************************************************)
(* Which nextLinks a client follows: validate_absolute_same_origin_        *)
(* next_link of scanning/origin.py and of unified_catalog/origin.py.  The  *)
(* service is not trusted to keep its links within its own origin.         *)
(***************************************************************************)
EXTENDS Naturals

CONSTANTS
  Url,            \* what a link may be
  Parts,          \* [Url -> Split]: a URL taken apart
  Initial,        \* the URL of the collection itself
  NoPort,         \* no port in a URL
  Page,           \* page contents
  NoLink,         \* no nextLink: the last page
  MaxListPages,   \* MAX_LIST_PAGES
  Books           \* page layouts of the service: [Url -> [page, next]]

(* Hosts and schemes are compared in lower case, addresses in one notation. *)
Split == [absolute : BOOLEAN, userinfo : BOOLEAN, fragment : BOOLEAN,
          scheme : {"https", "http"}, host : {"own", "other"}, port : Nat \union {NoPort}]

ASSUME OriginAssumption ==
  /\ Initial \in Url /\ NoLink \notin Url
  /\ \A link \in Url : Parts[link] \in Split
  /\ Parts[Initial].absolute /\ ~Parts[Initial].userinfo /\ ~Parts[Initial].fragment
  /\ MaxListPages \in Nat \ {0}
  /\ Books \subseteq [Url -> [page : Page, next : Url \union {NoLink}]]

EffectivePort(parts) ==
  IF parts.port # NoPort THEN parts.port ELSE IF parts.scheme = "https" THEN 443 ELSE 80

OriginKey(parts) == <<parts.scheme, parts.host, EffectivePort(parts)>>

(* Mutant: only the host counts. *)
SameHost(link) == Parts[link].absolute /\ Parts[link].host = Parts[Initial].host

(* Mutant: the port counts as it is written. *)
SamePort(link) ==
  /\ Parts[link].absolute /\ ~Parts[link].userinfo /\ ~Parts[link].fragment
  /\ Parts[link].scheme = Parts[Initial].scheme
  /\ Parts[link].host = Parts[Initial].host /\ Parts[link].port = Parts[Initial].port

(* validate_absolute_same_origin_next_link. *)
SameOrigin(link) ==
  /\ Parts[link].absolute /\ ~Parts[link].userinfo /\ ~Parts[link].fragment
  /\ OriginKey(Parts[link]) = OriginKey(Parts[Initial])
===============================================================================
