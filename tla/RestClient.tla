------------------------------ MODULE RestClient ------------------------------
(***************************************************************************)
(* What the private REST client tells its callers: whether an order was    *)
(* placed (_mutate), whether an order exists (get_order_by_link_id), and   *)
(* what an account list holds (_get_all_pages).  Each answer is put        *)
(* together from requests between which the exchange moves on.             *)
(*                                                                         *)
(* One order and one list are enough: the calls share nothing.  Signing,   *)
(* parsing of fields and the codes of each error class are left out; a     *)
(* field that does not parse is the malformed reply.                       *)
(***************************************************************************)
EXTENDS Integers, FiniteSetsExt

CONSTANTS MaxItems, PageSize \* bounds: items of the list, items per page

ASSUME RestConstants == MaxItems \in Nat \ {0} /\ PageSize \in Nat \ {0}

VARIABLES
  \* the exchange (external)
  request,    \* the order request: "none", "flying", "accepted", "refused" or "lost"
  reply,      \* its reply: "none", "success", "error" or "malformed"
  live,       \* the order works
  inRealtime, inHistory, \* the lists that show it
  items,      \* IDs now in the paged list, the newest largest
  \* the client
  mutation,   \* place_order: "idle", "waiting", "ack", "api_error", "uncertain", "value_error"
  lookup,     \* get_order_by_link_id: "idle", "realtime", "history", "found", "none", "raised"
  read,       \* _get_all_pages: [pc, cursor, seen, got]
  \* history
  listedSince, \* the order has been listed ever since the lookup began
  stayed       \* items that have been in the list ever since the read began

exchangeState == <<request, reply, live, inRealtime, inHistory, items>>
clientState == <<mutation, lookup, read>>
restVars == <<exchangeState, clientState, listedSince, stayed>>

FirstPage == MaxItems + 1 \* the cursor of a request without one
Reading == [pc |-> "idle", cursor |-> FirstPage, seen |-> {}, got |-> {}]

RestInit ==
  /\ request = "none" /\ reply = "none" /\ live = FALSE
  /\ inRealtime = FALSE /\ inHistory = FALSE
  /\ items \in {1 .. n : n \in 0 .. MaxItems - 1}
  /\ mutation = "idle" /\ lookup = "idle" /\ read = Reading
  /\ listedSince = FALSE /\ stayed = {}

-----------------------------------------------------------------------------
(* The exchange (external) *)

Listed == inRealtime \/ inHistory

\* A request is handled once or never, perhaps after the client has given up.
HandleRequest ==
  /\ request = "flying"
  /\ \/ request' = "accepted" /\ live' = TRUE /\ reply' \in {"success", "malformed", "none"}
     \/ request' = "refused" /\ live' = FALSE /\ reply' \in {"error", "malformed", "none"}
     \/ request' = "lost" /\ UNCHANGED <<live, reply>>
  /\ UNCHANGED <<inRealtime, inHistory, items, clientState, listedSince, stayed>>

\* An accepted order is listed with a delay; one that ends enters the history
\* before it leaves the realtime list.
ListOrder ==
  /\ request = "accepted" /\ live /\ ~Listed
  /\ inRealtime' = TRUE
  /\ UNCHANGED <<request, reply, live, inHistory, items, clientState, listedSince, stayed>>
EndOrder ==
  /\ live /\ inRealtime
  /\ live' = FALSE
  /\ UNCHANGED <<request, reply, inRealtime, inHistory, items, clientState, listedSince, stayed>>
ArchiveOrder ==
  /\ inRealtime /\ ~live
  /\ \/ ~inHistory /\ inHistory' = TRUE /\ UNCHANGED inRealtime
     \/ inHistory /\ inRealtime' = FALSE /\ UNCHANGED inHistory
  /\ UNCHANGED <<request, reply, live, items, clientState, listedSince, stayed>>

ChangeList ==
  /\ \/ /\ items # {} => Max(items) < MaxItems
        /\ items' = items \cup {IF items = {} THEN 1 ELSE Max(items) + 1}
     \/ \E i \in items : items' = items \ {i}
  /\ stayed' = stayed \cap items'
  /\ UNCHANGED <<request, reply, live, inRealtime, inHistory, clientState, listedSince>>

\* The page below a cursor, newest first, and the cursor that goes with it.  A
\* cursor names the last item served, so that arrivals do not shift the pages.
Below(c) == {i \in items : i < c}
PageAt(c) == {i \in Below(c) : Cardinality({j \in Below(c) : j >= i}) <= PageSize}
NoCursor == 0
CursorAfter(c) == IF Below(c) = PageAt(c) THEN NoCursor ELSE Min(PageAt(c))

-----------------------------------------------------------------------------
(* place_order through _mutate, _send and _validate_response *)

PlaceOrder ==
  /\ mutation = "idle"
  /\ mutation' = "waiting" /\ request' = "flying"
  /\ UNCHANGED <<reply, live, inRealtime, inHistory, items, lookup, read, listedSince, stayed>>

\* raise_for_bybit_error: a code other than 0 becomes an error of its own type.
RaisesTyped(r) == r = "error"

\* _mutate passes a typed error on; everything that leaves the outcome open is
\* uncertain.  A success whose result does not parse as an acknowledgement raises
\* after _mutate has returned.
Outcomes(r) ==
  IF RaisesTyped(r) THEN {"api_error"}
  ELSE IF r = "success" THEN {"ack"} ELSE {"uncertain", "value_error"}

ReceiveReply ==
  /\ mutation = "waiting" /\ reply # "none"
  /\ mutation' \in Outcomes(reply)
  /\ UNCHANGED <<exchangeState, lookup, read, listedSince, stayed>>

RequestTimesOut ==
  /\ mutation = "waiting"
  /\ mutation' = "uncertain"
  /\ UNCHANGED <<exchangeState, lookup, read, listedSince, stayed>>

-----------------------------------------------------------------------------
(* get_order_by_link_id *)

BeginLookup ==
  /\ lookup = "idle" /\ mutation # "idle"
  /\ lookup' = "realtime" /\ listedSince' = Listed
  /\ UNCHANGED <<exchangeState, mutation, read, stayed>>

HistoryFirst == <<"history", "realtime">> \* fault: the two lists are asked in the wrong order
QueryOrder == <<"realtime", "history">>

Shows(list) == IF list = "realtime" THEN inRealtime ELSE inHistory
QueryOrderList ==
  /\ lookup \in {"realtime", "history"}
  /\ LET i == IF lookup = "realtime" THEN 1 ELSE 2
     IN  lookup' = IF Shows(QueryOrder[i]) THEN "found" ELSE IF i = 1 THEN "history" ELSE "none"
  /\ UNCHANGED <<exchangeState, mutation, read, listedSince, stayed>>

\* An error that is not "unknown order", or several orders under one ID.
LookupRaises ==
  /\ lookup \in {"realtime", "history"}
  /\ lookup' = "raised"
  /\ UNCHANGED <<exchangeState, mutation, read, listedSince, stayed>>

LookupReturns ==
  /\ lookup \in {"found", "none", "raised"}
  /\ lookup' = "idle" /\ listedSince' = FALSE
  /\ UNCHANGED <<exchangeState, mutation, read, stayed>>

-----------------------------------------------------------------------------
(* _get_all_pages: open orders, executions, positions *)

BeginRead ==
  /\ read.pc = "idle"
  /\ read' = [Reading EXCEPT !.pc = "page"] /\ stayed' = items
  /\ UNCHANGED <<exchangeState, mutation, lookup, listedSince>>

\* The exchange may serve a cursor it has served before; a repeated one raises.
ReadPage ==
  /\ read.pc = "page"
  /\ \E next \in {CursorAfter(read.cursor)} \cup read.seen :
       read' = [pc |-> IF next = NoCursor THEN "complete"
                       ELSE IF next \in read.seen THEN "raised" ELSE "page",
                cursor |-> next,
                seen |-> read.seen \cup ({next} \ {NoCursor}),
                got |-> read.got \cup PageAt(read.cursor)]
  /\ UNCHANGED <<exchangeState, mutation, lookup, listedSince, stayed>>

ReadReturns ==
  /\ read.pc \in {"complete", "raised"}
  /\ read' = Reading /\ stayed' = {}
  /\ UNCHANGED <<exchangeState, mutation, lookup, listedSince>>

-----------------------------------------------------------------------------
OrderNext ==
  \/ HandleRequest \/ ListOrder \/ EndOrder \/ ArchiveOrder
  \/ PlaceOrder \/ ReceiveReply \/ RequestTimesOut
  \/ BeginLookup \/ QueryOrderList \/ LookupRaises \/ LookupReturns
ListNext == ChangeList \/ BeginRead \/ ReadPage \/ ReadReturns
RestNext == OrderNext \/ ListNext
RestSpec == RestInit /\ [][RestNext]_restVars

-----------------------------------------------------------------------------
(* Property *)

RefusedIsNotPlaced == mutation = "api_error" => ~live /\ request = "refused"
NoneMeansUnlisted == lookup = "none" => ~listedSince
PagesAreComplete == read.pc = "complete" => stayed \subseteq read.got

\* The callers decide on these answers whether to resend, to wait or to go on, so they may
\* be incomplete only where they say so.  A typed error means that the order is not and
\* will not be on the exchange; "no such order" is never said of an order that was listed
\* all along, though it may move from one list to the other between the two queries; and a
\* list read in pages holds every item that was in it from the first page to the last.
AnswersCanBeTrusted == RefusedIsNotPlaced /\ NoneMeansUnlisted /\ PagesAreComplete
=============================================================================
