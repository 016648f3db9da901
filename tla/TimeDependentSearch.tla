-------------------------- MODULE TimeDependentSearch --------------------------
(***************************************************************************)
(* TimeDependentAStar.plan(): the label-setting search of one planner,     *)
(* called any number of times.                                             *)
(*                                                                         *)
(* What an edge does (its verdict, arrival and cost) and how far a node is *)
(* from another are parameters: this module is the search itself.  A label *)
(* is kept for each state, which is a node, a bucket of the time since the *)
(* departure and the heading of the last edge.  The queue holds an entry   *)
(* for each time a label was set; one whose cost is no longer its label's  *)
(* is stale.  Entries that tie on priority and cost leave in any order,    *)
(* where the code takes the older.                                         *)
(***************************************************************************)
EXTENDS Integers, Sequences, FiniteSets

CONSTANTS
  Nodes, Windows, Objectives,
  Times,            \* the departures and arrivals that occur
  LastTime,         \* none of them is later
  Unturned,         \* the heading of the start
  Requests,         \* the requests that are asked
  MaxCalls,         \* bound: plan() calls
  NoRequest,
  Neighbors(_),               \* grid.neighbors
  Heading(_, _),              \* heading_code
  Remaining(_, _),            \* grid.distance_km
  LowerBound(_, _),           \* cost_model.lower_bound, of an objective
  Traverse(_, _, _, _, _, _), \* _evaluate_edge
  Inspect(_, _, _)            \* the sample of the start node

Headings ==
  {Unturned} \cup UNION {{Heading(a, b) : b \in Neighbors(a)} : a \in Nodes}

(* bucket = time_bucket_size, ceiling = maximum_elapsed (-1 is None),      *)
(* limit = max_expansions.                                                 *)
IsRequest(r) ==
  /\ DOMAIN r = {"start", "goal", "departure", "objective", "bucket",
                 "ceiling", "limit"}
  /\ r.objective \in Objectives /\ r.departure \in Times
  /\ r.bucket \in Nat \ {0} /\ r.ceiling \in Int /\ r.limit \in Nat

Goals == {r.goal : r \in Requests} \cap Nodes

ASSUME SearchAssumption ==
  /\ MaxCalls \in Nat /\ LastTime \in Nat /\ Times \subseteq 0..LastTime
  /\ \A a \in Nodes : Neighbors(a) \subseteq Nodes
  /\ \A r \in Requests : IsRequest(r)
  /\ NoRequest \notin Requests
  /\ \A a, b \in Nodes, o \in Objectives :
       LowerBound(o, Remaining(a, b)) \in Nat

(* An edge takes time, and costs no less than it lowers the bound.         *)
ASSUME EdgeBoundAssumption ==
  \A w \in Windows, a \in Nodes, t \in Times, h \in Headings, o \in Objectives :
    \A b \in Neighbors(a) :
      LET edge == Traverse(w, a, b, t, h, o)
      IN  edge.verdict = "ok" =>
            /\ edge.arrival \in Times /\ edge.arrival > t
            /\ edge.cost \in Nat
            /\ \A goal \in Goals :
                 LowerBound(o, Remaining(a, goal))
                   <= edge.cost + LowerBound(o, Remaining(b, goal))

(* The first sample of an edge is the node it leaves, at its departure.    *)
ASSUME InspectionAssumption ==
  /\ \A w \in Windows, a \in Nodes, r \in Requests :
       Inspect(w, a, r.departure) \in {"ok", "hard", "uncovered", "unknown"}
  /\ \A w \in Windows, a \in Nodes, t \in Times, h \in Headings, o \in Objectives :
       \A b \in Neighbors(a) :
         Traverse(w, a, b, t, h, o).verdict = "ok" => Inspect(w, a, t) = "ok"

State == [node : Nodes, bucket : Nat, heading : Headings]

VARIABLES
  window,        \* the frames of the planner's sampler
  request,       \* the request of the last call
  distances,     \* _heur_dist
  labels,        \* labels
  predecessor,   \* predecessor
  queue,         \* queue
  expanded,      \* counters.expanded
  uncovered,     \* counters.coverage > 0
  answer,        \* what the last call returned or raised
  calls

locals == <<distances, labels, predecessor, queue, expanded, uncovered>>

vars == <<window, request, locals, answer, calls>>

-------------------------------------------------------------------------------

Nothing == [outcome |-> "none", route |-> <<>>, cost |-> 0]

Pending == [Nothing EXCEPT !.outcome = "pending"]

Raised(error) == [Nothing EXCEPT !.outcome = error]

Searching == answer = Pending

Empty == [x \in {} |-> 0]

Init ==
  /\ window \in Windows
  /\ request = NoRequest
  /\ distances = Empty /\ labels = Empty /\ predecessor = Empty
  /\ queue = {} /\ expanded = 0 /\ uncovered = FALSE
  /\ answer = Nothing
  /\ calls = 0

Done(result) ==
  /\ answer' = result
  /\ UNCHANGED <<window, request, locals, calls>>

-------------------------------------------------------------------------------
(* The heuristic: the distances to the goal are kept for one call.         *)

Bound(r, known, node) == LowerBound(r.objective, known[node])

FreshDistances(r) == [n \in {r.start} |-> Remaining(n, r.goal)]

Learned(nodes) ==
  [n \in DOMAIN distances \cup nodes |->
     IF n \in DOMAIN distances THEN distances[n] ELSE Remaining(n, request.goal)]

-------------------------------------------------------------------------------
(* The start of a call                                                     *)

StartState(r) == [node |-> r.start, bucket |-> 0, heading |-> Unturned]

ZeroLength(r) ==
  [outcome |-> "route", cost |-> 0,
   route |-> <<[node |-> r.start, eta |-> r.departure, cost |-> 0]>>]

(* The answer that is given without a search.                              *)
AtOnce(r) ==
  LET inspection == Inspect(window, r.start, r.departure)
  IN  IF ~({r.start, r.goal} \subseteq Nodes) THEN Raised("invalid")
      ELSE IF inspection = "hard" THEN Raised("blocked")
      ELSE IF inspection # "ok" THEN Raised(inspection)
      ELSE IF r.start = r.goal THEN ZeroLength(r)
      ELSE Pending

Begin(r) ==
  /\ ~Searching
  /\ calls < MaxCalls
  /\ calls' = calls + 1
  /\ request' = r
  /\ answer' = AtOnce(r)
  /\ IF answer' = Pending
       THEN LET known == FreshDistances(r)
                start == StartState(r)
            IN  /\ distances' = known
                /\ labels' = [s \in {start} |->
                                [cost |-> 0, arrival |-> r.departure]]
                /\ queue' = {[priority |-> Bound(r, known, r.start),
                              cost |-> 0, state |-> start]}
       ELSE distances' = Empty /\ labels' = Empty /\ queue' = {}
  /\ predecessor' = Empty /\ expanded' = 0 /\ uncovered' = FALSE
  /\ UNCHANGED window

(* _check_cancelled() before anything else, and at each turn of the search.*)
Refuse(r) ==
  /\ ~Searching
  /\ calls < MaxCalls
  /\ calls' = calls + 1
  /\ request' = r
  /\ answer' = Raised("cancelled")
  /\ distances' = Empty /\ labels' = Empty /\ predecessor' = Empty
  /\ queue' = {} /\ expanded' = 0 /\ uncovered' = FALSE
  /\ UNCHANGED window

Cancel == Searching /\ Done(Raised("cancelled"))

-------------------------------------------------------------------------------
(* The queue                                                               *)

Before(e, f) == \/ e.priority < f.priority
                \/ e.priority = f.priority /\ e.cost <= f.cost

Least(e) == e \in queue /\ \A f \in queue : Before(e, f)

Stale(e) == e.cost # labels[e.state].cost

(* Faulty variant: a stale entry is left in the queue.                     *)
Retained(e) == IF Stale(e) THEN queue ELSE queue \ {e}

Popped(e) == queue \ {e}

(* A label was improved since: the entry is dropped.                       *)
Discard(e) ==
  /\ Searching /\ Least(e) /\ Stale(e)
  /\ queue' = Popped(e)
  /\ UNCHANGED <<window, request, distances, labels, predecessor, expanded,
                 uncovered, answer, calls>>

Current(e) == Searching /\ Least(e) /\ ~Stale(e)

-------------------------------------------------------------------------------
(* The expansion of a state                                                *)

Edges(s) ==
  {[to |-> b, is |-> Traverse(window, s.node, b, labels[s].arrival, s.heading,
                              request.objective)] : b \in Neighbors(s.node)}

(* Faulty variant: what arrives on the last moment is too late.            *)
ReachesCeiling(edge) ==
  request.ceiling >= 0 /\ edge.arrival - request.departure >= request.ceiling

(* maximum_elapsed                                                         *)
TooLate(edge) ==
  request.ceiling >= 0 /\ edge.arrival - request.departure > request.ceiling

(* Faulty variant: the time since the departure has the wrong sign.        *)
NextAtTime(s, b, arrival) ==
  [node |-> b, heading |-> Heading(s.node, b),
   bucket |-> (request.departure - arrival) \div request.bucket]

NextState(s, b, arrival) ==
  [node |-> b, heading |-> Heading(s.node, b),
   bucket |-> (arrival - request.departure) \div request.bucket]

(* The labels that the sailable edges of s would set.                      *)
Moves(s) ==
  {[to |-> NextState(s, e.to, e.is.arrival), edge |-> e.is.cost,
    arrival |-> e.is.arrival, cost |-> labels[s].cost + e.is.cost] :
     e \in {f \in Edges(s) : f.is.verdict = "ok" /\ ~TooLate(f.is)}}

(* Strictly cheaper than the label there is.                               *)
Better(move) ==
  move.to \in DOMAIN labels => move.cost < labels[move.to].cost

Improvements(s) == {move \in Moves(s) : Better(move)}

States(moves) == {move.to : move \in moves}

MoveTo(moves, s) == CHOOSE move \in moves : move.to = s

Relabelled(moves) ==
  [s \in DOMAIN labels \cup States(moves) |->
     IF s \in States(moves)
       THEN [cost |-> MoveTo(moves, s).cost, arrival |-> MoveTo(moves, s).arrival]
       ELSE labels[s]]

(* Faulty variant: a state that is reached again keeps its predecessor.    *)
FirstPreceded(from, moves) ==
  [s \in DOMAIN predecessor \cup States(moves) |->
     IF s \in DOMAIN predecessor
       THEN predecessor[s]
       ELSE [from |-> from, arrival |-> MoveTo(moves, s).arrival,
             cost |-> MoveTo(moves, s).edge]]

Preceded(from, moves) ==
  [s \in DOMAIN predecessor \cup States(moves) |->
     IF s \in States(moves)
       THEN [from |-> from, arrival |-> MoveTo(moves, s).arrival,
             cost |-> MoveTo(moves, s).edge]
       ELSE predecessor[s]]

(* Faulty variant: the queue is ordered by the distance that is left.      *)
GreedyEntries(moves) ==
  {[priority |-> Bound(request, Learned({move.to.node}), move.to.node),
    cost |-> move.cost, state |-> move.to] : move \in moves}

Entries(moves) ==
  {[priority |-> move.cost + Bound(request, Learned({move.to.node}), move.to.node),
    cost |-> move.cost, state |-> move.to] : move \in moves}

(* An edge whose risk is unknown ends the call.                            *)
Undone(s) == \E e \in Edges(s) : e.is.verdict = "unknown"

(* An edge leaves the window, or comes after maximum_elapsed.              *)
LeavesWindow(s) ==
  \E e \in Edges(s) : \/ e.is.verdict = "uncovered"
                      \/ e.is.verdict = "ok" /\ TooLate(e.is)

Abort(e) ==
  /\ Current(e)
  /\ expanded < request.limit /\ e.state.node # request.goal
  /\ Undone(e.state)
  /\ Done(Raised("unknown"))

Expand(e) ==
  /\ Current(e)
  /\ expanded < request.limit /\ e.state.node # request.goal
  /\ ~Undone(e.state)
  /\ \E moves \in {Improvements(e.state)} :
       /\ labels' = Relabelled(moves)
       /\ predecessor' = Preceded(e.state, moves)
       /\ queue' = Popped(e) \cup Entries(moves)
       /\ distances' = Learned({s.node : s \in States(moves)})
  /\ uncovered' = (uncovered \/ LeavesWindow(e.state))
  /\ expanded' = expanded + 1
  /\ UNCHANGED <<window, request, answer, calls>>

-------------------------------------------------------------------------------
(* The end of a call                                                       *)

(* Faulty variant: a waypoint has the time when the vessel sets out for it.*)
LeftFor(s) ==
  [node |-> s.node, eta |-> labels[predecessor[s].from].arrival,
   cost |-> predecessor[s].cost]

Waypoint(s) ==
  [node |-> s.node, eta |-> predecessor[s].arrival, cost |-> predecessor[s].cost]

(* _build_result(): back along the predecessors.                           *)
RouteTo(goal) ==
  LET route[s \in DOMAIN labels] ==
        IF s \in DOMAIN predecessor
          THEN Append(route[predecessor[s].from], Waypoint(s))
          ELSE <<[node |-> s.node, eta |-> request.departure, cost |-> 0]>>
  IN  route[goal]

Arrive(e) ==
  /\ Current(e)
  /\ expanded < request.limit /\ e.state.node = request.goal
  /\ Done([outcome |-> "route", route |-> RouteTo(e.state),
           cost |-> labels[e.state].cost])

Overrun(e) ==
  /\ Current(e)
  /\ expanded >= request.limit
  /\ Done(Raised("overrun"))

GiveUp ==
  /\ Searching /\ queue = {}
  /\ Done(Raised(IF uncovered THEN "horizon" ELSE "no_route"))

Step ==
  \/ GiveUp
  \/ \E e \in queue : Discard(e) \/ Abort(e) \/ Expand(e) \/ Arrive(e) \/ Overrun(e)

Finished == ~Searching /\ calls = MaxCalls /\ UNCHANGED vars

Next ==
  \/ \E r \in Requests : Begin(r) \/ Refuse(r)
  \/ Step
  \/ Cancel
  \/ Finished

Spec == Init /\ [][Next]_vars

-------------------------------------------------------------------------------
(* The reference: what a voyage is, whoever finds it.                      *)

HeadingAt(route, i) ==
  IF i = 1 THEN Unturned ELSE Heading(route[i - 1].node, route[i].node)

(* A route through the waters w that begins as r asks and follows sailable *)
(* edges, each in time.                                                    *)
IsVoyage(w, r, route) ==
  /\ route # <<>>
  /\ route[1] = [node |-> r.start, eta |-> r.departure, cost |-> 0]
  /\ \A i \in 1 .. Len(route) - 1 :
       LET leg  == route[i + 1]
           edge == Traverse(w, route[i].node, leg.node, route[i].eta,
                            HeadingAt(route, i), r.objective)
       IN  /\ leg.node \in Neighbors(route[i].node)
           /\ edge.verdict = "ok"
           /\ r.ceiling >= 0 => edge.arrival - r.departure <= r.ceiling
           /\ leg.eta = edge.arrival /\ leg.cost = edge.cost

Total(route) ==
  LET total[i \in 0 .. Len(route)] ==
        IF i = 0 THEN 0 ELSE total[i - 1] + route[i].cost
  IN  total[Len(route)]

(* Where a voyage that is at v may be next.                                *)
Extensions(w, r, v) ==
  LET edges == {[to |-> b, is |-> Traverse(w, v.node, b, v.arrival,
                                           v.heading, r.objective)] :
                  b \in Neighbors(v.node)}
  IN  {[node |-> e.to, heading |-> Heading(v.node, e.to),
        arrival |-> e.is.arrival, cost |-> v.cost + e.is.cost] :
         e \in {f \in edges :
                  /\ f.is.verdict = "ok"
                  /\ r.ceiling >= 0 =>
                       f.is.arrival - r.departure <= r.ceiling}}

CheapestOf(voyages) ==
  {v \in voyages : \A u \in voyages :
     u.node = v.node /\ u.heading = v.heading => v.cost <= u.cost}

(* All voyages in the order of their arrival; of those that are at one     *)
(* node with one heading at one time the cheapest go on.                   *)
Sailed(w, r) ==
  LET sailed[t \in 0 .. LastTime + 1] ==
        IF t = 0
          THEN {[node |-> r.start, heading |-> Unturned,
                 arrival |-> r.departure, cost |-> 0]}
          ELSE LET before == sailed[t - 1]
               IN  before \cup UNION {Extensions(w, r, v) :
                     v \in CheapestOf({u \in before : u.arrival = t - 1})}
  IN  sailed

CostsToGoal(w, r) ==
  {v.cost : v \in {u \in Sailed(w, r)[LastTime + 1] : u.node = r.goal}}

-------------------------------------------------------------------------------
(* Properties                                                              *)

(* Types: a label for each predecessor, an entry only for a label.         *)
SearchTypeOK ==
  /\ window \in Windows
  /\ request \in Requests \cup {NoRequest}
  /\ calls \in 0..MaxCalls /\ expanded \in Nat /\ uncovered \in BOOLEAN
  /\ DOMAIN distances \subseteq Nodes
  /\ DOMAIN labels \subseteq State
  /\ labels \in [DOMAIN labels -> [cost : Nat, arrival : Times]]
  /\ DOMAIN predecessor \subseteq DOMAIN labels
  /\ predecessor \in [DOMAIN predecessor ->
                        [from : DOMAIN labels, arrival : Times, cost : Nat]]
  /\ queue \subseteq [priority : Nat, cost : Nat, state : DOMAIN labels]
  /\ Searching => request \in Requests /\ {request.start, request.goal} \subseteq Nodes

(* The label of a state is what its predecessor's label gives along the    *)
(* edge between them: a route read back from the goal has the arrival      *)
(* times and the cost that the search judged it by, although labels are    *)
(* replaced while the search goes on and a predecessor is never revisited. *)
ChainConsistent ==
  Searching =>
    \A s \in DOMAIN predecessor :
      LET p    == predecessor[s]
          edge == Traverse(window, p.from.node, s.node, labels[p.from].arrival,
                           p.from.heading, request.objective)
      IN  /\ edge.verdict = "ok" /\ ~TooLate(edge)
          /\ s = NextState(p.from, s.node, edge.arrival)
          /\ p.arrival = edge.arrival /\ p.cost = edge.cost
          /\ labels[s] = [cost |-> labels[p.from].cost + edge.cost,
                          arrival |-> edge.arrival]

(* What is answered is a voyage that was asked for, at the cost of its     *)
(* edges, although _build_result() reads it back through tables that were  *)
(* written over; and no voyage costs less: pruning by label and by bound   *)
(* loses nothing when a bucket holds one time.                             *)
CheapestRoute ==
  answer.outcome = "route" =>
    /\ IsVoyage(window, request, answer.route)
    /\ answer.route[Len(answer.route)].node = request.goal
    /\ answer.cost = Total(answer.route)
    /\ request.bucket = 1 =>
         \A cost \in CostsToGoal(window, request) : answer.cost <= cost

(* "no route satisfies hard, risk, and vessel constraints" and "no complete*)
(* route fits inside the available risk time window": there is none.       *)
NoRouteMeansNone ==
  answer.outcome \in {"no_route", "horizon"} => CostsToGoal(window, request) = {}

(* So it is for a request whose buckets hold one time each.                *)
NoRouteIsMissed ==
  request # NoRequest /\ request.bucket = 1 => NoRouteMeansNone

(* Every waypoint before the last is open water when the route is there:   *)
(* the edge that leaves it looks at it again, at its own departure.        *)
WaypointsNavigable ==
  \A i \in 1 .. Len(answer.route) - 1 :
    Inspect(window, answer.route[i].node, answer.route[i].eta) = "ok"

Settled(s) ==
  ~\E e \in queue : e.state = s /\ e.cost = labels[s].cost

(* A state that was expanded keeps its label to the end of the call: its   *)
(* edges need no second look, and what was built on it stays true.         *)
SettledForGood ==
  [][Searching =>
       \A s \in DOMAIN labels :
         Settled(s) => s \in DOMAIN labels' /\ labels'[s] = labels[s]]_vars

===============================================================================
