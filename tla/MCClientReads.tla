---------------------------- MODULE MCClientReads ----------------------------
(* Instances of LinkPaging and of ReadModelCapture for TLC, in one run: a read *)
(* is the listing of a collection along its links, or a capture.               *)
(*                                                                             *)
(* The URLs u0, u1 and u2 are of the client's own origin, u1 with the port     *)
(* written out; "guest" carries user information, "plain" is http, and "other" *)
(* is another host.                                                            *)
EXTENDS LinkPaging, ReadModelCapture

CONSTANTS u0, u1, u2, guest, plain, other

-----------------------------------------------------------------------------
AllParts ==
  [link \in Url |->
     [absolute |-> TRUE, userinfo |-> link = guest, fragment |-> FALSE,
      scheme |-> IF link = plain THEN "http" ELSE "https",
      host |-> IF link = other THEN "other" ELSE "own",
      port |-> IF link = u1 THEN 443 ELSE NoPort]]

(* Every way the URLs can link to each other.  Each page is told by the URL it is *)
(* read from; what is foreign leads nowhere.                                      *)
Own == {u0, u1, u2}
AllBooks ==
  {[link \in Url |-> [page |-> link, next |-> IF link \in Own THEN next[link] ELSE NoLink]] :
     next \in [Own -> Url \union {NoLink}]}

(* All there is, domains only, products with relationships, terms without, and *)
(* relationships without their sources.                                        *)
SomeIncludes ==
  {Type \union Families, {}, {"dataProduct", "dataProductToDataAsset"},
   {"dataProduct", "glossaryTerm"}, {"glossaryTerm", "dataProductToDataAsset"}}

(* One resource of each type, a second product, and columns of which the last is not *)
(* there at first; what can be related is, or not, but for the first column.         *)
Latest(c) == \A before \in Column : before <= c
Earliest(c) == \A later \in Column : c <= later
ResourcesWith(product, term) ==
  [id \in Id |-> CASE id = 2 -> product [] id = 3 -> term
                   [] id \notin {2, 3} -> IF id \in Column /\ Latest(id) THEN Absent ELSE Interpreted]
Related(r) ==
  {edge \in Edge : /\ r[edge[1]] # Absent /\ r[edge[2]] # Absent
                   /\ edge[2] \in Column => ~Earliest(edge[2])}
SmallCatalogs ==
  UNION {{[resources |-> r, edges |-> {}], [resources |-> r, edges |-> Related(r)]} :
           r \in {ResourcesWith(product, term) :
                    product \in Form \union {Absent}, term \in Form \union {Absent}}}

-----------------------------------------------------------------------------
NoListing ==
  /\ book = CHOOSE b \in Books : TRUE
  /\ changes = 0 /\ url = Initial /\ seenLinks = {} /\ aggregated = <<>> /\ requested = <<>>
  /\ pc = "idle" /\ pages = 0

NoCapture ==
  /\ include = {} /\ resources = [id \in Id |-> Absent] /\ edges = {} /\ edits = 0
  /\ capturePc = "idle" /\ captured = resources /\ todo = {} /\ listed = {}
  /\ repeated = FALSE /\ currentOffset = 0 /\ columnPages = 0
  /\ ever = {} /\ throughout = {} /\ finished = {} /\ shifts = 0

ReadInit == (Init /\ NoCapture) \/ (NoListing /\ CaptureInit)

ReadNext ==
  \/ pc # "idle" /\ Next /\ UNCHANGED captureVars
  \/ capturePc # "idle" /\ CaptureNext /\ UNCHANGED vars

(* Every request ends, by an answer or by the client's timeout. *)
Reads ==
  /\ ReadInit /\ [][ReadNext]_<<vars, captureVars>>
  /\ WF_vars(Client) /\ WF_captureVars(Capture)

-----------------------------------------------------------------------------
(* A property of both. *)

(* No service, not even one that always has another link or keeps laying out its *)
(* pages anew, and no edits of others keep a listing or a capture from ending.   *)
ReadsEnd == <>(pc \in Ended \/ capturePc \in CaptureEnded)
=============================================================================
