---------------------------- MODULE PaymentViews ----------------------------
(***************************************************************************)
(* The transaction pages.  The detail page reads a payment and then its    *)
(* history, the list counts the payments of a query and then reads one     *)
(* page of them: two statements each, in no transaction.                   *)
(***************************************************************************)
EXTENDS PaymentRepository, FiniteSets

CONSTANTS
  Reader,     \* concurrent page requests
  Query,      \* the queries they may make
  MaxLimit    \* MAX_LIMIT of the route, MAX_LIST_LIMIT of the adapter

\* A filter on the status (Absent: none), the payments within the bounds on
\* created_at, which never changes, and where the page begins and ends.
PaymentQuery == [status : Status \cup {Absent}, created : SUBSET Payment, limit : Nat, offset : Nat]

ASSUME ViewsAssumption ==
  /\ IsFiniteSet(Payment)
  /\ MaxLimit \in Nat \ {0} /\ Query \subseteq PaymentQuery

VARIABLES
  detail,     \* [Reader -> what a detail request has read, while it is half done]
  listing     \* [Reader -> the query of a list request, and its total]

views == <<detail, listing>>

NoDetail == [pc |-> "idle", payment |-> Null, status |-> Absent]
NoListing == [pc |-> "idle", query |-> Null, total |-> 0]

ViewsTypeOK ==
  /\ detail \in [Reader -> [pc : {"idle", "half"}, payment : Payment \cup {Null},
                            status : Status \cup {Absent}]]
  /\ \A v \in Reader : detail[v].pc = "half" => detail[v].payment \in Payment
  /\ listing \in [Reader -> [pc : {"idle", "half"}, query : Query \cup {Null}, total : Nat]]

ViewsInit ==
  /\ detail = [v \in Reader |-> NoDetail]
  /\ listing = [v \in Reader |-> NoListing]

Free(v) == detail[v].pc = "idle" /\ listing[v].pc = "idle"

ReadPayment(v, p) ==
  /\ Free(v) /\ status[p] # Absent
  /\ detail' = [detail EXCEPT ![v] = [pc |-> "half", payment |-> p, status |-> status[p]]]
  /\ UNCHANGED listing

\* The history the page is completed with.
Shown(v) == history[detail[v].payment]

\* The page is answered, with the status read first and the history read now.
ReadHistory(v) ==
  /\ detail[v].pc = "half"
  /\ detail' = [detail EXCEPT ![v] = NoDetail]
  /\ UNCHANGED listing

\* Which rows match: one WHERE clause for both statements.
Matching(q) ==
  {p \in q.created : status[p] # Absent /\ (q.status = Absent \/ status[p] = q.status)}

\* Mutant: the total is taken of the whole table.
Total_Unfiltered(q) == Cardinality({p \in Payment : status[p] # Absent})

Total(q) == Cardinality(Matching(q))

CountPayments(v, q) ==
  /\ Free(v)
  /\ listing' = [listing EXCEPT ![v] = [pc |-> "half", query |-> q, total |-> Total(q)]]
  /\ UNCHANGED detail

\* clamp(1, MAX_LIMIT), by the route and again by the adapter.
Limit(q) == CASE q.limit = 0 -> 1 [] q.limit > MaxLimit -> MaxLimit [] OTHER -> q.limit

\* LIMIT and OFFSET: how many rows the page has.
PageSize(q) ==
  LET left == Cardinality(Matching(q)) - q.offset
  IN  CASE left < 0 -> 0 [] left > Limit(q) -> Limit(q) [] OTHER -> left

\* The page is answered, with the total read first and the rows read now.
ListPayments(v) ==
  /\ listing[v].pc = "half"
  /\ listing' = [listing EXCEPT ![v] = NoListing]
  /\ UNCHANGED detail
=============================================================================
