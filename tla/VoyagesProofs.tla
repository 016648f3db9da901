----------------------------- MODULE VoyagesProofs -----------------------------
(***************************************************************************)
(* Theorems about TimeDependentSearch, for all grids, windows and requests *)
(* whose edges cost no less than they lower the bound, and about           *)
(* LayeredVoyages, what the services make of such a search.                *)
(*                                                                         *)
(* The search.  A state is settled when no entry of the queue is for its   *)
(* label: it was expanded.  The bound makes the priorities of the entries  *)
(* that leave the queue grow, so that a settled label is as low as any     *)
(* there can be, is never replaced, and what was built on it stays true.   *)
(* Every voyage that was asked for is therefore under way at a settled     *)
(* state or waits in the queue, until there is an answer.                  *)
(*                                                                         *)
(* The services.  Every result is the answer to the voyage its call asked  *)
(* for.  The service and the contract look for an anchor in different      *)
(* ways and find the same, and what leads to it is a voyage of its own.    *)
(***************************************************************************)
EXTENDS LayeredVoyages, Recursion, TLAPS

-------------------------------------------------------------------------------
(* The search                                                              *)

(* The bound of a node, whatever is kept of it.                            *)
Low(n) == LowerBound(request.objective, Remaining(n, request.goal))

CacheExact ==
  \A n \in DOMAIN distances : distances[n] = Remaining(n, request.goal)

NotBeforeDeparture ==
  \A s \in DOMAIN labels : labels[s].arrival >= request.departure

QueueSound ==
  \A e \in queue : /\ labels[e.state].cost <= e.cost
                   /\ e.priority = e.cost + Low(e.state.node)

SettledIsLow ==
  \A s \in DOMAIN labels : Settled(s) =>
    \A e \in queue : labels[s].cost + Low(s.node) <= e.priority

PredecessorsSettled ==
  \A s \in DOMAIN predecessor : Settled(predecessor[s].from)

SearchInv ==
  /\ SearchTypeOK
  /\ Searching => /\ CacheExact /\ NotBeforeDeparture
                  /\ QueueSound /\ SettledIsLow /\ PredecessorsSettled
  /\ ChainConsistent

-------------------------------------------------------------------------------
LEMMA TimesAreNat == Times \subseteq Nat
BY SearchAssumption

LEMMA RequestIs ==
  ASSUME NEW r \in Requests
  PROVE  r.objective \in Objectives /\ r.departure \in Times
BY SearchAssumption DEF IsRequest

(* The bound of a search is a natural number.                              *)
LEMMA LowIsNat ==
  ASSUME SearchTypeOK, Searching, NEW n \in Nodes
  PROVE  Low(n) \in Nat
<1>1. request \in Requests /\ request.goal \in Nodes
  BY DEF SearchTypeOK
<1>2. request.objective \in Objectives
  BY <1>1, SearchAssumption DEF IsRequest
<1> QED  BY <1>1, <1>2, SearchAssumption DEF Low

(* The bucket of an arrival is a natural number.                           *)
LEMMA BucketIsNat ==
  ASSUME NEW a \in Nat, NEW d \in Nat, a >= d, NEW b \in Nat \ {0}
  PROVE  (a - d) \div b \in Nat
OBVIOUS

(* What an improvement is: a step along a sailable edge, to a label that   *)
(* is cheaper than the one there was, and no nearer to the goal than it    *)
(* costs.                                                                  *)
LEMMA ImprovementSound ==
  ASSUME SearchTypeOK, Searching, NotBeforeDeparture,
         NEW s \in DOMAIN labels, NEW m \in Improvements(s)
  PROVE  LET edge == Traverse(window, s.node, m.to.node, labels[s].arrival,
                              s.heading, request.objective)
         IN  /\ edge.verdict = "ok" /\ ~TooLate(edge)
             /\ m.to = NextState(s, m.to.node, edge.arrival)
             /\ m.arrival = edge.arrival /\ m.edge = edge.cost
             /\ m.cost = labels[s].cost + edge.cost
             /\ m.to \in State /\ m.cost \in Nat /\ m.edge \in Nat
             /\ m.arrival \in Times /\ m.arrival >= request.departure
             /\ Low(s.node) <= m.edge + Low(m.to.node)
             /\ m.to \in DOMAIN labels => m.cost < labels[m.to].cost
<1>1. PICK f \in Edges(s) :
        /\ f.is.verdict = "ok" /\ ~TooLate(f.is)
        /\ m = [to |-> NextState(s, f.to, f.is.arrival), edge |-> f.is.cost,
                arrival |-> f.is.arrival, cost |-> labels[s].cost + f.is.cost]
  BY DEF Improvements, Moves
<1>2. PICK b \in Neighbors(s.node) :
        f = [to |-> b, is |-> Traverse(window, s.node, b, labels[s].arrival,
                                       s.heading, request.objective)]
  BY <1>1 DEF Edges
<1>3. m.to = NextState(s, b, f.is.arrival) /\ m.to.node = b
  BY <1>1, <1>2 DEF NextState
<1>4. /\ s \in State /\ s.node \in Nodes /\ s.heading \in Headings
      /\ labels[s].arrival \in Times /\ labels[s].cost \in Nat
      /\ window \in Windows /\ request \in Requests
      /\ request.goal \in Nodes
  BY DEF SearchTypeOK, State
<1>5. /\ b \in Nodes
      /\ request.objective \in Objectives /\ request.goal \in Goals
      /\ request.bucket \in Nat \ {0} /\ request.departure \in Nat
  BY <1>2, <1>4, SearchAssumption, TimesAreNat DEF IsRequest, Goals
<1>6. /\ f.is.arrival \in Times /\ f.is.arrival > labels[s].arrival
      /\ f.is.cost \in Nat
      /\ Low(s.node) <= f.is.cost + Low(b)
  BY <1>1, <1>2, <1>4, <1>5, EdgeBoundAssumption DEF Low
<1>7. f.is.arrival \in Nat /\ f.is.arrival >= request.departure
  <2>1. f.is.arrival \in Nat /\ labels[s].arrival \in Nat
    BY <1>4, <1>6, TimesAreNat
  <2> QED  BY <1>5, <1>6, <2>1 DEF NotBeforeDeparture
<1>8. m.to \in State
  <2>1. (f.is.arrival - request.departure) \div request.bucket \in Nat
    BY <1>5, <1>7, BucketIsNat
  <2>2. Heading(s.node, b) \in Headings
    BY <1>2, <1>4 DEF Headings
  <2> QED  BY <1>3, <1>5, <2>1, <2>2 DEF NextState, State
<1>9. Better(m)
  BY DEF Improvements
<1> QED
  BY <1>1, <1>2, <1>3, <1>4, <1>6, <1>7, <1>8, <1>9 DEF Better

-------------------------------------------------------------------------------
(* The steps that do not expand a state                                    *)

(* Where nothing is kept, its types are right.                             *)
LEMMA NothingTyped ==
  ASSUME labels = Empty, predecessor = Empty, distances = Empty, queue = {}
  PROVE  /\ DOMAIN distances \subseteq Nodes
         /\ DOMAIN labels \subseteq State
         /\ labels \in [DOMAIN labels -> [cost : Nat, arrival : Times]]
         /\ DOMAIN predecessor \subseteq DOMAIN labels
         /\ predecessor \in [DOMAIN predecessor ->
                        [from : DOMAIN labels, arrival : Times, cost : Nat]]
         /\ queue \subseteq [priority : Nat, cost : Nat, state : DOMAIN labels]
BY DEF Empty

LEMMA InitSearchInv ==
  Init => SearchInv
<1> SUFFICES ASSUME Init PROVE SearchInv
  OBVIOUS
<1>1. ~Searching
  BY DEF Init, Searching, Pending, Nothing
<1>2. SearchTypeOK
  <2>1. /\ window \in Windows /\ request = NoRequest /\ calls = 0
        /\ expanded = 0 /\ uncovered = FALSE
        /\ labels = Empty /\ predecessor = Empty /\ distances = Empty
        /\ queue = {}
    BY DEF Init
  <2>2. calls \in 0..MaxCalls
    BY <2>1, SearchAssumption
  <2> QED  BY <1>1, <2>1, <2>2, NothingTyped DEF SearchTypeOK
<1> QED  BY <1>1, <1>2 DEF SearchInv, ChainConsistent

(* A call that is over leaves nothing to keep but the types.               *)
LEMMA OverInv ==
  ASSUME SearchTypeOK', ~Searching'
  PROVE  SearchInv'
BY DEF SearchInv, ChainConsistent

LEMMA DoneInv ==
  ASSUME SearchInv, NEW result, Done(result), result # Pending
  PROVE  SearchInv'
<1>1. ~Searching'
  BY DEF Done, Searching, Pending, Nothing
<1>2. UNCHANGED <<window, request, distances, labels, predecessor, queue,
                  expanded, uncovered, calls>>
  BY DEF Done, locals
<1>3. SearchTypeOK'
  BY <1>1, <1>2 DEF SearchInv, SearchTypeOK
<1> QED  BY <1>1, <1>3, OverInv

LEMMA BeginInv ==
  ASSUME SearchInv, NEW r \in Requests, Begin(r) \/ Refuse(r)
  PROVE  SearchInv'
<1> USE DEF SearchInv
<1>1. CASE Searching'
  <2>1. Begin(r) /\ answer' = Pending
    BY <1>1 DEF Begin, Refuse, Searching, Raised, Pending, Nothing
  <2>2. {r.start, r.goal} \subseteq Nodes
    <3>1. Raised("invalid") # Pending
      BY DEF Raised, Pending, Nothing
    <3> QED  BY <2>1, <3>1 DEF Begin, AtOnce
  <2>3. /\ request' = r /\ predecessor' = Empty /\ expanded' = 0
        /\ uncovered' = FALSE /\ window' = window
        /\ calls' = calls + 1 /\ calls < MaxCalls
    BY <2>1 DEF Begin
  <2> DEFINE start == StartState(r)
             low   == LowerBound(r.objective, Remaining(r.start, r.goal))
  <2>4. /\ distances' = [n \in {r.start} |-> Remaining(n, r.goal)]
        /\ labels' = [s \in {start} |-> [cost |-> 0, arrival |-> r.departure]]
        /\ queue' = {[priority |-> low, cost |-> 0, state |-> start]}
    BY <2>1 DEF Begin, FreshDistances, Bound
  <2>5. r.objective \in Objectives /\ r.departure \in Times /\ r.departure \in Nat
    BY SearchAssumption, TimesAreNat DEF IsRequest
  <2>6. low \in Nat
    BY <2>2, <2>5, SearchAssumption
  <2>7. start \in State /\ start.node = r.start
    BY <2>2 DEF StartState, State, Headings
  <2>8. SearchTypeOK'
    <3>1. DOMAIN labels' = {start} /\ DOMAIN predecessor' = {}
      BY <2>3, <2>4 DEF Empty
    <3>2. labels' \in [DOMAIN labels' -> [cost : Nat, arrival : Times]]
      BY <2>4, <2>5, <3>1
    <3>3. predecessor' \in [DOMAIN predecessor' ->
                    [from : DOMAIN labels', arrival : Times, cost : Nat]]
      BY <2>3 DEF Empty
    <3>4. queue' \subseteq [priority : Nat, cost : Nat, state : DOMAIN labels']
      BY <2>4, <2>6, <3>1
    <3>5. DOMAIN distances' \subseteq Nodes
      BY <2>2, <2>4
    <3>6. window' \in Windows /\ calls' \in 0..MaxCalls
      BY <2>3, SearchAssumption DEF SearchTypeOK
    <3> QED  BY <2>2, <2>3, <2>7, <3>1, <3>2, <3>3, <3>4, <3>5, <3>6
             DEF SearchTypeOK
  <2>9. CacheExact' /\ NotBeforeDeparture'
    BY <2>3, <2>4, <2>5 DEF CacheExact, NotBeforeDeparture
  <2>10. QueueSound' /\ SettledIsLow'
    <3>1. Low(start.node)' = low
      BY <2>3, <2>7 DEF Low
    <3> QED  BY <2>3, <2>4, <2>6, <2>7, <3>1 DEF QueueSound, SettledIsLow, Settled
  <2>11. PredecessorsSettled' /\ ChainConsistent'
    BY <2>3 DEF PredecessorsSettled, ChainConsistent, Empty
  <2> QED  BY <2>8, <2>9, <2>10, <2>11
<1>2. CASE ~Searching'
  <2>1. /\ request' = r /\ calls' = calls + 1 /\ calls < MaxCalls
        /\ distances' = Empty /\ labels' = Empty /\ queue' = {}
        /\ predecessor' = Empty /\ expanded' = 0 /\ uncovered' = FALSE
        /\ window' = window
    BY <1>2 DEF Begin, Refuse, Searching, Pending, Nothing
  <2>2. /\ DOMAIN distances' \subseteq Nodes
        /\ DOMAIN labels' \subseteq State
        /\ labels' \in [DOMAIN labels' -> [cost : Nat, arrival : Times]]
        /\ DOMAIN predecessor' \subseteq DOMAIN labels'
        /\ predecessor' \in [DOMAIN predecessor' ->
                        [from : DOMAIN labels', arrival : Times, cost : Nat]]
        /\ queue' \subseteq [priority : Nat, cost : Nat, state : DOMAIN labels']
    BY <2>1 DEF Empty
  <2>3. window' \in Windows /\ calls' \in 0..MaxCalls
    BY <2>1, SearchAssumption DEF SearchTypeOK
  <2>4. SearchTypeOK'
    BY <1>2, <2>1, <2>2, <2>3 DEF SearchTypeOK
  <2> QED  BY <1>2, <2>4, OverInv
<1> QED  BY <1>1, <1>2

(* What is settled stays so when a stale entry leaves.                     *)
LEMMA DiscardInv ==
  ASSUME SearchInv, NEW e \in queue, Discard(e)
  PROVE  SearchInv'
<1> USE DEF SearchInv
<1>1. /\ Searching /\ Searching' /\ queue' = queue \ {e}
      /\ UNCHANGED <<window, request, distances, labels, predecessor, expanded,
                     uncovered, answer, calls>>
      /\ e.cost # labels[e.state].cost
  BY DEF Discard, Popped, Stale, Searching, Pending, Nothing
<1>2. SearchTypeOK'
  BY <1>1 DEF SearchTypeOK
<1>3. CacheExact' /\ NotBeforeDeparture' /\ QueueSound' /\ ChainConsistent'
  BY <1>1 DEF CacheExact, NotBeforeDeparture, QueueSound, ChainConsistent, Low,
     NextState, TooLate
<1>4. \A s : Settled(s)' <=> Settled(s)
  BY <1>1 DEF Settled
<1>5. SettledIsLow' /\ PredecessorsSettled'
  BY <1>1, <1>4 DEF SettledIsLow, PredecessorsSettled, Low
<1> QED  BY <1>2, <1>3, <1>5

-------------------------------------------------------------------------------
(* The step that does                                                      *)

(* The order of the queue.                                                 *)
LEMMA LeastIsLow ==
  ASSUME SearchInv, Searching, NEW e \in queue, Least(e), ~Stale(e)
  PROVE  /\ e.state \in DOMAIN labels /\ e.cost = labels[e.state].cost
         /\ e.cost \in Nat /\ e.priority = e.cost + Low(e.state.node)
         /\ \A f \in queue : e.priority <= f.priority
BY DEF SearchInv, SearchTypeOK, QueueSound, Least, Before, Stale

(* An improvement is for a state that is not settled, nor the one expanded.*)
LEMMA ImprovedUnsettled ==
  ASSUME SearchInv, Searching, NEW e \in queue, Least(e), ~Stale(e),
         NEW m \in Improvements(e.state)
  PROVE  /\ e.priority <= m.cost + Low(m.to.node)
         /\ m.to # e.state
         /\ m.to \in DOMAIN labels => ~Settled(m.to)
<1>1. /\ e.state \in DOMAIN labels /\ e.cost = labels[e.state].cost
      /\ e.cost \in Nat /\ e.priority = e.cost + Low(e.state.node)
  BY LeastIsLow
<1>2. /\ m.cost = labels[e.state].cost + m.edge
      /\ m.to \in State /\ m.cost \in Nat /\ m.edge \in Nat
      /\ Low(e.state.node) <= m.edge + Low(m.to.node)
      /\ m.to \in DOMAIN labels => m.cost < labels[m.to].cost
  BY <1>1, ImprovementSound DEF SearchInv
<1>3. Low(m.to.node) \in Nat /\ Low(e.state.node) \in Nat
  BY <1>1, <1>2, LowIsNat DEF SearchInv, SearchTypeOK, State
<1>4. e.priority <= m.cost + Low(m.to.node)
  BY <1>1, <1>2, <1>3
<1>5. m.to # e.state
  BY <1>1, <1>2, <1>3, <1>4
<1>6. ASSUME m.to \in DOMAIN labels, Settled(m.to) PROVE FALSE
  <2>1. labels[m.to].cost + Low(m.to.node) <= e.priority
    BY <1>6 DEF SearchInv, SettledIsLow
  <2>2. labels[m.to].cost \in Nat
    BY <1>6 DEF SearchInv, SearchTypeOK
  <2> QED  BY <1>1, <1>2, <1>3, <1>4, <1>6, <2>1, <2>2
<1> QED  BY <1>4, <1>5, <1>6

LEMMA MoveToSound ==
  ASSUME NEW moves, NEW s \in States(moves)
  PROVE  MoveTo(moves, s) \in moves /\ MoveTo(moves, s).to = s
BY DEF States, MoveTo

(* One edge leads to a state from another.                                 *)
LEMMA MoveIsUnique ==
  ASSUME SearchTypeOK, Searching, NotBeforeDeparture,
         NEW s \in DOMAIN labels,
         NEW m \in Improvements(s), NEW n \in Improvements(s), m.to = n.to
  PROVE  m.cost = n.cost
BY ImprovementSound

(* What is kept of a node is its distance.                                 *)
LEMMA LearnedExact ==
  ASSUME CacheExact, NEW nodes
  PROVE  /\ DOMAIN Learned(nodes) = DOMAIN distances \cup nodes
         /\ \A n \in DOMAIN Learned(nodes) :
              Learned(nodes)[n] = Remaining(n, request.goal)
BY DEF CacheExact, Learned

(* The labels, predecessors and queue after an expansion.                  *)
LEMMA ExpandedTables ==
  ASSUME SearchInv, NEW e \in queue, Expand(e)
  PROVE  LET M == Improvements(e.state)
         IN  /\ \A s \in States(M) :
                  /\ MoveTo(M, s) \in M /\ MoveTo(M, s).to = s
                  /\ labels'[s] = [cost |-> MoveTo(M, s).cost,
                                   arrival |-> MoveTo(M, s).arrival]
                  /\ predecessor'[s] = [from |-> e.state,
                                        arrival |-> MoveTo(M, s).arrival,
                                        cost |-> MoveTo(M, s).edge]
             /\ \A s \in DOMAIN labels \ States(M) : labels'[s] = labels[s]
             /\ \A s \in DOMAIN predecessor \ States(M) :
                  predecessor'[s] = predecessor[s]
             /\ DOMAIN labels' = DOMAIN labels \cup States(M)
             /\ DOMAIN predecessor' = DOMAIN predecessor \cup States(M)
             /\ labels' = [s \in DOMAIN labels' |-> labels'[s]]
             /\ predecessor' = [s \in DOMAIN predecessor' |-> predecessor'[s]]
             /\ queue' = (queue \ {e}) \cup
                  {[priority |-> m.cost + Low(m.to.node), cost |-> m.cost,
                    state |-> m.to] : m \in M}
             /\ DOMAIN distances' =
                  DOMAIN distances \cup {s.node : s \in States(M)}
             /\ CacheExact'
<1> DEFINE M == Improvements(e.state)
<1>1. /\ labels' = Relabelled(M) /\ predecessor' = Preceded(e.state, M)
      /\ queue' = (queue \ {e}) \cup Entries(M)
      /\ distances' = Learned({s.node : s \in States(M)})
      /\ request' = request /\ Searching
  BY DEF Expand, Popped, Current
<1>2. CacheExact
  BY <1>1 DEF SearchInv
<1>3. \A m \in M :
        Bound(request, Learned({m.to.node}), m.to.node) = Low(m.to.node)
  BY <1>2, LearnedExact DEF Bound, Low
<1>4. Entries(M) = {[priority |-> m.cost + Low(m.to.node), cost |-> m.cost,
                     state |-> m.to] : m \in M}
  BY <1>3 DEF Entries
<1>5. CacheExact' /\ DOMAIN distances' =
                       DOMAIN distances \cup {s.node : s \in States(M)}
  BY <1>1, <1>2, LearnedExact DEF CacheExact
<1>6. \A s \in States(M) : MoveTo(M, s) \in M /\ MoveTo(M, s).to = s
  BY MoveToSound
<1>7. /\ DOMAIN labels' = DOMAIN labels \cup States(M)
      /\ labels' = [s \in DOMAIN labels' |-> labels'[s]]
      /\ \A s \in States(M) : labels'[s] = [cost |-> MoveTo(M, s).cost,
                                            arrival |-> MoveTo(M, s).arrival]
      /\ \A s \in DOMAIN labels \ States(M) : labels'[s] = labels[s]
  BY <1>1 DEF Relabelled
<1>8. /\ DOMAIN predecessor' = DOMAIN predecessor \cup States(M)
      /\ predecessor' = [s \in DOMAIN predecessor' |-> predecessor'[s]]
      /\ \A s \in States(M) : predecessor'[s] = [from |-> e.state,
                                        arrival |-> MoveTo(M, s).arrival,
                                        cost |-> MoveTo(M, s).edge]
      /\ \A s \in DOMAIN predecessor \ States(M) :
           predecessor'[s] = predecessor[s]
  BY <1>1 DEF Preceded
<1> HIDE DEF M
<1>9. QED
  BY <1>1, <1>4, <1>5, <1>6, <1>7, <1>8 DEF M

(* Settled after the expansion is what was before, and the state expanded; *)
(* nothing of that was relabelled.                                         *)
LEMMA SettledAfter ==
  ASSUME SearchInv, NEW e \in queue, Expand(e)
  PROVE  /\ \A s \in DOMAIN labels : Settled(s) \/ s = e.state =>
              /\ s \notin States(Improvements(e.state))
              /\ Settled(s)'
         /\ \A s \in DOMAIN labels' : Settled(s)' =>
              /\ s \in DOMAIN labels \ States(Improvements(e.state))
              /\ Settled(s) \/ s = e.state
<1> DEFINE M == Improvements(e.state)
<1>0. Searching /\ Least(e) /\ ~Stale(e)
  BY DEF Expand, Current
<1>1. /\ DOMAIN labels' = DOMAIN labels \cup States(M)
      /\ \A s \in DOMAIN labels \ States(M) : labels'[s] = labels[s]
      /\ \A s \in States(M) : /\ MoveTo(M, s) \in M /\ MoveTo(M, s).to = s
                              /\ labels'[s].cost = MoveTo(M, s).cost
      /\ queue' = (queue \ {e}) \cup
           {[priority |-> m.cost + Low(m.to.node), cost |-> m.cost,
             state |-> m.to] : m \in M}
  <2>1. /\ DOMAIN labels' = DOMAIN labels \cup States(M)
        /\ \A s \in DOMAIN labels \ States(M) : labels'[s] = labels[s]
    BY ExpandedTables
  <2>2. \A s \in States(M) :
          /\ MoveTo(M, s) \in M /\ MoveTo(M, s).to = s
          /\ labels'[s] = [cost |-> MoveTo(M, s).cost,
                           arrival |-> MoveTo(M, s).arrival]
    BY ExpandedTables
  <2>3. queue' = (queue \ {e}) \cup
          {[priority |-> m.cost + Low(m.to.node), cost |-> m.cost,
            state |-> m.to] : m \in M}
    BY ExpandedTables
  <2> QED  BY <2>1, <2>2, <2>3
<1>2. \A m \in M : m.to # e.state /\ (m.to \in DOMAIN labels => ~Settled(m.to))
  BY <1>0, ImprovedUnsettled
<1>3. /\ e.cost = labels[e.state].cost /\ e.state \in DOMAIN labels
      /\ e.priority = e.cost + Low(e.state.node)
  BY <1>0, LeastIsLow
<1>4. ASSUME NEW s \in DOMAIN labels, Settled(s) \/ s = e.state
      PROVE  s \notin States(M) /\ Settled(s)'
  <2>1. s \notin States(M)
    BY <1>2, <1>4 DEF States
  <2>2. labels'[s] = labels[s]
    BY <1>1, <2>1
  <2>3. ASSUME NEW f \in queue', f.state = s, f.cost = labels[s].cost
        PROVE  FALSE
    <3>1. f \in queue \ {e}
      BY <1>1, <2>1, <2>3 DEF States
    <3>2. s = e.state
      BY <1>4, <2>3, <3>1 DEF Settled
    <3>3. f.priority = e.priority /\ f.cost = e.cost /\ f.state = e.state
      BY <1>0, <1>3, <2>3, <3>1, <3>2 DEF SearchInv, QueueSound
    <3>4. f = e
      BY <3>1, <3>3 DEF SearchInv, SearchTypeOK
    <3> QED  BY <3>1, <3>4
  <2> QED  BY <2>1, <2>2, <2>3 DEF Settled
<1>5. ASSUME NEW s \in DOMAIN labels', Settled(s)'
      PROVE  s \in DOMAIN labels \ States(M) /\ (Settled(s) \/ s = e.state)
  <2>1. s \notin States(M)
    <3> SUFFICES ASSUME s \in States(M) PROVE FALSE
      OBVIOUS
    <3> DEFINE m == MoveTo(M, s)
               f == [priority |-> m.cost + Low(m.to.node), cost |-> m.cost,
                     state |-> m.to]
    <3>1. m \in M /\ m.to = s /\ labels'[s].cost = m.cost
      BY <1>1
    <3>2. f \in queue' /\ f.state = s /\ f.cost = labels'[s].cost
      BY <1>1, <3>1
    <3> QED  BY <1>5, <3>2 DEF Settled
  <2>2. s \in DOMAIN labels /\ labels'[s] = labels[s]
    BY <1>1, <2>1
  <2>3. \A f \in queue : f = e \/ f \in queue'
    BY <1>1
  <2>4. Settled(s) \/ s = e.state
    BY <1>5, <2>2, <2>3 DEF Settled
  <2> QED  BY <2>1, <2>2, <2>4
<1> HIDE DEF M
<1>6. QED
  BY <1>4, <1>5 DEF M

LEMMA ExpandInv ==
  ASSUME SearchInv, NEW e \in queue, Expand(e)
  PROVE  SearchInv'
<1> DEFINE M == Improvements(e.state)
<1>0. /\ Searching /\ Least(e) /\ ~Stale(e)
      /\ UNCHANGED <<window, request, answer, calls>>
      /\ expanded' = expanded + 1
      /\ uncovered' \in BOOLEAN
  BY DEF Expand, Current
<1>1. Searching'
  BY <1>0 DEF Searching, Pending, Nothing
<1>2. /\ e.state \in DOMAIN labels /\ e.cost = labels[e.state].cost
      /\ e.cost \in Nat /\ e.priority = e.cost + Low(e.state.node)
      /\ \A f \in queue : e.priority <= f.priority
  BY <1>0, LeastIsLow
<1>3. /\ \A s \in States(M) : MoveTo(M, s) \in M /\ MoveTo(M, s).to = s
      /\ \A s \in States(M) :
           labels'[s] = [cost |-> MoveTo(M, s).cost,
                         arrival |-> MoveTo(M, s).arrival]
      /\ \A s \in States(M) :
           predecessor'[s] = [from |-> e.state,
                              arrival |-> MoveTo(M, s).arrival,
                              cost |-> MoveTo(M, s).edge]
  BY ExpandedTables
<1>31. \A s \in States(M) : \E m \in M :
         m.to = s /\ labels'[s].cost = m.cost /\ predecessor'[s].from = e.state
  <2> SUFFICES ASSUME NEW s \in States(M)
               PROVE  \E m \in M : /\ m.to = s /\ labels'[s].cost = m.cost
                                   /\ predecessor'[s].from = e.state
    OBVIOUS
  <2>1. MoveTo(M, s) \in M /\ MoveTo(M, s).to = s
    BY <1>3
  <2> HIDE DEF M
  <2>2. labels'[s].cost = MoveTo(M, s).cost
    <3>1. labels'[s] = [cost |-> MoveTo(M, s).cost,
                        arrival |-> MoveTo(M, s).arrival]
      BY <1>3
    <3> QED  BY <3>1
  <2>3. predecessor'[s].from = e.state
    <3>1. predecessor'[s] = [from |-> e.state,
                             arrival |-> MoveTo(M, s).arrival,
                             cost |-> MoveTo(M, s).edge]
      BY <1>3
    <3> QED  BY <3>1
  <2> QED  BY <2>1, <2>2, <2>3
<1>4. /\ \A s \in DOMAIN labels \ States(M) : labels'[s] = labels[s]
      /\ \A s \in DOMAIN predecessor \ States(M) :
           predecessor'[s] = predecessor[s]
  BY ExpandedTables
<1>5. /\ DOMAIN labels' = DOMAIN labels \cup States(M)
      /\ DOMAIN predecessor' = DOMAIN predecessor \cup States(M)
      /\ labels' = [s \in DOMAIN labels' |-> labels'[s]]
      /\ predecessor' = [s \in DOMAIN predecessor' |-> predecessor'[s]]
      /\ DOMAIN distances' = DOMAIN distances \cup {s.node : s \in States(M)}
      /\ CacheExact'
  BY ExpandedTables
<1>6. queue' = (queue \ {e}) \cup
        {[priority |-> m.cost + Low(m.to.node), cost |-> m.cost,
          state |-> m.to] : m \in M}
  BY ExpandedTables
<1>7. \A m \in M :
        /\ m.to \in State /\ m.cost \in Nat /\ m.edge \in Nat
        /\ m.arrival \in Times /\ m.arrival >= request.departure
        /\ m.to \in DOMAIN labels => m.cost < labels[m.to].cost
  BY <1>0, <1>2, ImprovementSound DEF SearchInv
<1>8. \A m \in M : /\ Low(m.to.node) \in Nat
                   /\ e.priority <= m.cost + Low(m.to.node)
  BY <1>0, <1>7, LowIsNat, ImprovedUnsettled DEF SearchInv, State
<1>9. \A n : Low(n)' = Low(n)
  BY <1>0 DEF Low
<1>10. \A m \in M : m.to \in States(M)
  BY DEF States
<1>11. \A s \in States(M) :
         /\ s \in State /\ labels'[s] \in [cost : Nat, arrival : Times]
         /\ labels'[s].arrival >= request.departure
  <2> SUFFICES ASSUME NEW s \in States(M)
               PROVE  /\ s \in State
                      /\ labels'[s] \in [cost : Nat, arrival : Times]
                      /\ labels'[s].arrival >= request.departure
    OBVIOUS
  <2>1. PICK m \in M : /\ m.to = s
                       /\ labels'[s] = [cost |-> m.cost, arrival |-> m.arrival]
    BY <1>3
  <2> QED  BY <1>7, <2>1
<1> HIDE DEF M
<1>12. SearchTypeOK'
  <2>1. labels' \in [DOMAIN labels' -> [cost : Nat, arrival : Times]]
    <3>1. \A s \in DOMAIN labels' : labels'[s] \in [cost : Nat, arrival : Times]
      BY <1>4, <1>5, <1>11 DEF SearchInv, SearchTypeOK
    <3> QED  BY <1>5, <3>1
  <2>2. DOMAIN labels' \subseteq State
    BY <1>5, <1>11 DEF SearchInv, SearchTypeOK
  <2>3. DOMAIN predecessor' \subseteq DOMAIN labels'
    BY <1>5 DEF SearchInv, SearchTypeOK
  <2>4. predecessor' \in [DOMAIN predecessor' ->
                    [from : DOMAIN labels', arrival : Times, cost : Nat]]
    <3>1. \A s \in DOMAIN predecessor' : predecessor'[s] \in
                    [from : DOMAIN labels', arrival : Times, cost : Nat]
      <4> TAKE s \in DOMAIN predecessor'
      <4>1. CASE s \in States(M)
        BY <4>1, <1>2, <1>3, <1>5, <1>7
      <4>2. CASE s \notin States(M)
        BY <4>2, <1>4, <1>5 DEF SearchInv, SearchTypeOK
      <4> QED  BY <4>1, <4>2
    <3> QED  BY <1>5, <3>1
  <2>5. queue' \subseteq [priority : Nat, cost : Nat, state : DOMAIN labels']
    BY <1>5, <1>6, <1>7, <1>8, <1>10 DEF SearchInv, SearchTypeOK
  <2>6. DOMAIN distances' \subseteq Nodes
    BY <1>5, <1>11 DEF SearchInv, SearchTypeOK, State
  <2>7. expanded' \in Nat
    BY <1>0 DEF SearchInv, SearchTypeOK
  <2> QED  BY <1>0, <2>1, <2>2, <2>3, <2>4, <2>5, <2>6, <2>7
           DEF SearchInv, SearchTypeOK, Searching, Pending, Nothing
<1>13. NotBeforeDeparture'
  BY <1>0, <1>4, <1>5, <1>11 DEF SearchInv, NotBeforeDeparture
<1>14. QueueSound'
  <2> SUFFICES ASSUME NEW f \in queue'
               PROVE  /\ labels'[f.state].cost <= f.cost
                      /\ f.priority = f.cost + Low(f.state.node)
    BY <1>9 DEF QueueSound
  <2>1. CASE f \in queue
    <3>1. /\ labels[f.state].cost <= f.cost /\ f.state \in DOMAIN labels
          /\ f.priority = f.cost + Low(f.state.node)
          /\ f.cost \in Nat /\ labels[f.state].cost \in Nat
      BY <1>0, <2>1 DEF SearchInv, QueueSound, SearchTypeOK
    <3>2. CASE f.state \in States(M)
      <4>1. PICK m \in M : m.to = f.state /\ labels'[f.state].cost = m.cost
        BY <1>31, <3>2
      <4> QED  BY <1>7, <3>1, <4>1
    <3>3. CASE f.state \notin States(M)
      BY <1>4, <3>1, <3>3
    <3> QED  BY <3>1, <3>2, <3>3
  <2>2. CASE f \notin queue
    <3>1. PICK m \in M : f = [priority |-> m.cost + Low(m.to.node),
                              cost |-> m.cost, state |-> m.to]
      BY <1>6, <2>2
    <3>2. PICK n \in M : n.to = m.to /\ labels'[m.to].cost = n.cost
      BY <1>31, <1>10
    <3>3. SearchTypeOK /\ NotBeforeDeparture
      BY <1>0 DEF SearchInv
    <3>4. n.cost = m.cost
      BY <1>0, <1>2, <3>2, <3>3, MoveIsUnique DEF M
    <3> QED  BY <1>7, <3>1, <3>2, <3>4
  <2> QED  BY <2>1, <2>2
<1>15. SettledIsLow'
  <2> SUFFICES ASSUME NEW s \in DOMAIN labels', Settled(s)', NEW f \in queue'
               PROVE  labels'[s].cost + Low(s.node) <= f.priority
    BY <1>9 DEF SettledIsLow
  <2>1. /\ s \in DOMAIN labels \ States(M) /\ labels'[s] = labels[s]
        /\ Settled(s) \/ s = e.state
    BY <1>4, SettledAfter DEF M
  <2>2. \A g \in queue : labels[s].cost + Low(s.node) <= g.priority
    BY <1>0, <1>2, <2>1 DEF SearchInv, SettledIsLow
  <2>3. CASE f \in queue
    BY <2>1, <2>2, <2>3
  <2>4. CASE f \notin queue
    <3>1. PICK m \in M : f.priority = m.cost + Low(m.to.node)
      BY <1>6, <2>4
    <3>2. labels[s].cost \in Nat /\ Low(s.node) \in Nat /\ e.priority \in Nat
      BY <1>0, <2>1, LowIsNat DEF SearchInv, SearchTypeOK, State
    <3> QED  BY <1>7, <1>8, <2>1, <2>2, <3>1, <3>2
  <2> QED  BY <2>3, <2>4
<1>16. PredecessorsSettled'
  <2> SUFFICES ASSUME NEW s \in DOMAIN predecessor', NEW p,
                      p = predecessor'[s].from
               PROVE  Settled(p)'
    BY DEF PredecessorsSettled
  <2>1. CASE s \in States(M)
    <3>1. p = e.state /\ p \in DOMAIN labels
      BY <1>2, <1>31, <2>1
    <3> QED  BY <3>1, SettledAfter
  <2>2. CASE s \notin States(M)
    <3>1. s \in DOMAIN predecessor /\ p = predecessor[s].from
      BY <1>4, <1>5, <2>2
    <3>2. p \in DOMAIN labels /\ Settled(p)
      BY <1>0, <3>1 DEF SearchInv, SearchTypeOK, PredecessorsSettled
    <3> QED  BY <3>2, SettledAfter
  <2> QED  BY <2>1, <2>2
<1>17. ChainConsistent'
  <2> DEFINE Kept(s, p, mark, l) ==
        LET edge == Traverse(window, p.from.node, s.node, mark.arrival,
                             p.from.heading, request.objective)
        IN  /\ edge.verdict = "ok" /\ ~TooLate(edge)
            /\ s = NextState(p.from, s.node, edge.arrival)
            /\ p.arrival = edge.arrival /\ p.cost = edge.cost
            /\ l = [cost |-> mark.cost + edge.cost, arrival |-> edge.arrival]
  <2>1. SUFFICES ASSUME NEW s \in DOMAIN predecessor'
               PROVE  Kept(s, predecessor'[s], labels'[predecessor'[s].from],
                           labels'[s])
    BY <1>0 DEF ChainConsistent, TooLate, NextState
  <2>2. CASE s \in States(M)
    <3>1. /\ predecessor'[s] = [from |-> e.state,
                                arrival |-> MoveTo(M, s).arrival,
                                cost |-> MoveTo(M, s).edge]
          /\ labels'[s] = [cost |-> MoveTo(M, s).cost,
                           arrival |-> MoveTo(M, s).arrival]
          /\ MoveTo(M, s) \in M /\ MoveTo(M, s).to = s
      BY <1>3, <2>2
    <3>2. labels'[e.state] = labels[e.state]
      BY <1>2, <1>4, SettledAfter DEF M
    <3>3. Kept(s, predecessor'[s], labels[e.state], labels'[s])
      BY <1>0, <1>2, <3>1, ImprovementSound DEF SearchInv, M
    <3> QED  BY <3>1, <3>2, <3>3
  <2>3. CASE s \notin States(M)
    <3>1. /\ s \in DOMAIN predecessor /\ predecessor'[s] = predecessor[s]
          /\ s \in DOMAIN labels /\ labels'[s] = labels[s]
          /\ predecessor[s].from \in DOMAIN labels
      BY <1>4, <1>5, <2>3 DEF SearchInv, SearchTypeOK
    <3>2. Settled(predecessor[s].from)
      BY <1>0, <3>1 DEF SearchInv, PredecessorsSettled
    <3>3. labels'[predecessor[s].from] = labels[predecessor[s].from]
      BY <1>4, <3>1, <3>2, SettledAfter DEF M
    <3>4. Kept(s, predecessor[s], labels[predecessor[s].from], labels[s])
      BY <1>0, <3>1 DEF SearchInv, ChainConsistent
    <3> QED  BY <3>1, <3>3, <3>4
  <2> QED  BY <2>2, <2>3
<1> QED
  BY <1>5, <1>12, <1>13, <1>14, <1>15, <1>16, <1>17 DEF SearchInv

-------------------------------------------------------------------------------
(* The theorems                                                            *)

LEMMA StutterInv ==
  ASSUME SearchInv, UNCHANGED vars
  PROVE  SearchInv'
BY DEF SearchInv, vars, locals, SearchTypeOK, Searching, CacheExact,
   NotBeforeDeparture, QueueSound, SettledIsLow, PredecessorsSettled, Settled,
   Low, ChainConsistent, TooLate, NextState

(* An answer that ends a search is not the one of a search that goes on.   *)
LEMMA AnswersEnd ==
  /\ \A error \in {"unknown", "overrun", "horizon", "no_route", "cancelled"} :
       Raised(error) # Pending
  /\ \A route, cost :
       [outcome |-> "route", route |-> route, cost |-> cost] # Pending
BY DEF Raised, Pending, Nothing

(* What a step of a search does to its tables.                             *)
LEMMA StepKinds ==
  ASSUME Step \/ Cancel
  PROVE  \/ \E result : Done(result) /\ result # Pending
         \/ \E e \in queue : Discard(e) \/ Expand(e)
<1>1. CASE GiveUp
  BY <1>1, AnswersEnd DEF GiveUp
<1>2. CASE Cancel
  BY <1>2, AnswersEnd DEF Cancel
<1>3. ASSUME NEW e \in queue, Abort(e) \/ Arrive(e) \/ Overrun(e)
      PROVE  \E result : Done(result) /\ result # Pending
  BY <1>3, AnswersEnd DEF Abort, Arrive, Overrun
<1> QED  BY <1>1, <1>2, <1>3 DEF Step

LEMMA NextSearchInv ==
  ASSUME SearchInv, [Next]_vars
  PROVE  SearchInv'
<1>1. ASSUME NEW r \in Requests, Begin(r) \/ Refuse(r) PROVE SearchInv'
  BY <1>1, BeginInv
<1>2. CASE Step \/ Cancel
  BY <1>2, StepKinds, DoneInv, DiscardInv, ExpandInv
<1>3. CASE Finished \/ UNCHANGED vars
  BY <1>3, StutterInv DEF Finished
<1> QED  BY <1>1, <1>2, <1>3 DEF Next

THEOREM SearchInvariant == Spec => []SearchInv
<1>1. SearchInv /\ [Next]_vars => SearchInv'
  BY NextSearchInv
<1> QED  BY InitSearchInv, <1>1, PTL DEF Spec

(* Every label has its predecessor's, and every entry a label.             *)
THEOREM SearchTypes == Spec => []SearchTypeOK
<1>1. SearchInv => SearchTypeOK
  BY DEF SearchInv
<1> QED  BY <1>1, SearchInvariant, PTL

(* plan(): a label is what its predecessor's label gives along the edge    *)
(* between them, so that _build_result() reads back the voyage the search  *)
(* judged.                                                                 *)
THEOREM ChainsConsistent == Spec => []ChainConsistent
<1>1. SearchInv => ChainConsistent
  BY DEF SearchInv
<1> QED  BY <1>1, SearchInvariant, PTL

(* plan(): a state that was expanded is never relabelled in that call.     *)
THEOREM NoReopening == Spec => SettledForGood
<1> DEFINE Kept == Searching => \A s \in DOMAIN labels :
                     Settled(s) => s \in DOMAIN labels' /\ labels'[s] = labels[s]
<1>1. ASSUME SearchInv, [Next]_vars PROVE [Kept]_vars
  <2>1. ASSUME NEW r \in Requests, Begin(r) \/ Refuse(r) PROVE Kept
    BY <2>1 DEF Begin, Refuse
  <2>2. ASSUME NEW result, Done(result) PROVE Kept
    BY <2>2 DEF Done, locals
  <2>3. ASSUME NEW e \in queue, Discard(e) PROVE Kept
    BY <2>3 DEF Discard
  <2>4. ASSUME NEW e \in queue, Expand(e) PROVE Kept
    <3>1. /\ DOMAIN labels' = DOMAIN labels \cup States(Improvements(e.state))
          /\ \A s \in DOMAIN labels \ States(Improvements(e.state)) :
               labels'[s] = labels[s]
      BY <1>1, <2>4, ExpandedTables
    <3>2. \A s \in DOMAIN labels :
            Settled(s) => s \notin States(Improvements(e.state))
      BY <1>1, <2>4, SettledAfter
    <3> QED  BY <3>1, <3>2
  <2>5. CASE Finished \/ UNCHANGED vars
    BY <2>5 DEF Finished
  <2> HIDE DEF Kept
  <2> QED  BY <1>1, <2>1, <2>2, <2>3, <2>4, <2>5, StepKinds DEF Next
<1>2. SearchInv /\ [Next]_vars => [Kept]_vars
  BY <1>1
<1> QED  BY <1>2, SearchInvariant, PTL DEF Spec, SettledForGood

-------------------------------------------------------------------------------
(* The tree of the labels                                                  *)

(* Every label but the start's has a predecessor.                          *)
Rooted ==
  /\ StartState(request) \in DOMAIN labels
  /\ StartState(request) \notin DOMAIN predecessor
  /\ labels[StartState(request)] = [cost |-> 0, arrival |-> request.departure]
  /\ DOMAIN labels = DOMAIN predecessor \cup {StartState(request)}

Adjacent ==
  \A s \in DOMAIN predecessor : s.node \in Neighbors(predecessor[s].from.node)

EdgeFrom(s, b) ==
  Traverse(window, s.node, b, labels[s].arrival, s.heading, request.objective)

(* The state that edge leads to has a label no dearer than by that edge.   *)
Followed(s, b) ==
  LET edge == EdgeFrom(s, b)
      next == NextState(s, b, edge.arrival)
  IN  edge.verdict = "ok" /\ ~TooLate(edge) =>
        /\ next \in DOMAIN labels
        /\ labels[next].cost <= labels[s].cost + edge.cost

Closed ==
  \A s \in DOMAIN labels : Settled(s) =>
    s.node # request.goal /\ \A b \in Neighbors(s.node) : Followed(s, b)

(* A bucket that holds one time tells it.                                  *)
Timed ==
  request.bucket = 1 =>
    \A s \in DOMAIN labels : labels[s].arrival = request.departure + s.bucket

TreeInv == Searching => Rooted /\ Adjacent /\ Closed /\ Timed

LEMMA ImprovementIsNear ==
  ASSUME NEW s, NEW m \in Improvements(s)
  PROVE  m.to.node \in Neighbors(s.node)
BY DEF Improvements, Moves, Edges, NextState

(* A sailable edge makes a move.                                           *)
LEMMA MoveMade ==
  ASSUME NEW s, NEW b \in Neighbors(s.node),
         EdgeFrom(s, b).verdict = "ok", ~TooLate(EdgeFrom(s, b))
  PROVE  \E m \in Moves(s) :
           /\ m.to = NextState(s, b, EdgeFrom(s, b).arrival)
           /\ m.cost = labels[s].cost + EdgeFrom(s, b).cost
<1> DEFINE f == [to |-> b, is |-> EdgeFrom(s, b)]
           m == [to |-> NextState(s, f.to, f.is.arrival), edge |-> f.is.cost,
                 arrival |-> f.is.arrival, cost |-> labels[s].cost + f.is.cost]
<1>1. f \in Edges(s) /\ f.is.verdict = "ok" /\ ~TooLate(f.is)
  BY DEF Edges, EdgeFrom
<1>2. m \in Moves(s)
  <2> HIDE DEF f
  <2> QED  BY <1>1 DEF Moves
<1>3. /\ m.to = NextState(s, b, EdgeFrom(s, b).arrival)
      /\ m.cost = labels[s].cost + EdgeFrom(s, b).cost
  OBVIOUS
<1> HIDE DEF m
<1> QED  BY <1>2, <1>3

LEMMA ExpandTree ==
  ASSUME SearchInv, TreeInv, NEW e \in queue, Expand(e)
  PROVE  TreeInv'
<1> DEFINE M == Improvements(e.state)
           start == StartState(request)
<1>0. /\ Searching /\ Least(e) /\ ~Stale(e)
      /\ e.state.node # request.goal
      /\ UNCHANGED <<window, request, answer, calls>>
  BY DEF Expand, Current
<1>1. SearchTypeOK /\ NotBeforeDeparture /\ Rooted /\ Adjacent /\ Closed /\ Timed
  BY <1>0 DEF SearchInv, TreeInv
<1>2. e.state \in DOMAIN labels
  BY <1>0, LeastIsLow
<1>3. \A m \in M :
        /\ m.to \in State /\ m.to.node \in Neighbors(e.state.node)
        /\ m.cost \in Nat /\ m.arrival \in Nat
        /\ m.to.bucket = (m.arrival - request.departure) \div request.bucket
        /\ m.to \in DOMAIN labels => m.cost < labels[m.to].cost
  <2> TAKE m \in M
  <2>1. /\ m.to \in State /\ m.cost \in Nat /\ m.arrival \in Nat
        /\ m.to \in DOMAIN labels => m.cost < labels[m.to].cost
    BY <1>0, <1>1, <1>2, ImprovementSound, TimesAreNat
  <2>2. m.to.bucket = (m.arrival - request.departure) \div request.bucket
    <3>1. PICK edge : /\ m.to = NextState(e.state, m.to.node, edge.arrival)
                      /\ m.arrival = edge.arrival
      BY <1>0, <1>1, <1>2, ImprovementSound
    <3> QED  BY <3>1 DEF NextState
  <2> QED  BY <2>1, <2>2, ImprovementIsNear
<1>4. /\ DOMAIN labels' = DOMAIN labels \cup States(M)
      /\ DOMAIN predecessor' = DOMAIN predecessor \cup States(M)
      /\ \A s \in DOMAIN labels \ States(M) : labels'[s] = labels[s]
      /\ \A s \in DOMAIN predecessor \ States(M) :
           predecessor'[s] = predecessor[s]
  BY ExpandedTables
<1>5. ASSUME NEW s \in States(M)
      PROVE  /\ MoveTo(M, s) \in M /\ MoveTo(M, s).to = s
             /\ labels'[s].cost = MoveTo(M, s).cost
             /\ labels'[s].arrival = MoveTo(M, s).arrival
             /\ predecessor'[s].from = e.state
  <2>1. /\ MoveTo(M, s) \in M /\ MoveTo(M, s).to = s
        /\ labels'[s] = [cost |-> MoveTo(M, s).cost,
                         arrival |-> MoveTo(M, s).arrival]
        /\ predecessor'[s] = [from |-> e.state,
                              arrival |-> MoveTo(M, s).arrival,
                              cost |-> MoveTo(M, s).edge]
    BY ExpandedTables
  <2> HIDE DEF M
  <2> QED  BY <2>1
<1>6. \A m, n \in M : m.to = n.to => m.cost = n.cost
  BY <1>0, <1>1, <1>2, MoveIsUnique
<1>7. \A m \in M : m.to \in States(M)
  BY DEF States
<1>8. \A m \in Moves(e.state) : ~Better(m) \/ m \in M
  BY DEF Improvements
<1>9. /\ \A s \in DOMAIN labels' : Settled(s)' =>
           /\ s \in DOMAIN labels \ States(M)
           /\ Settled(s) \/ s = e.state
  BY SettledAfter
<1> HIDE DEF M
<1>10. /\ \A s \in DOMAIN labels : labels[s].cost \in Nat
       /\ request.bucket \in Nat \ {0} /\ request.departure \in Nat
  BY <1>0, <1>1, SearchAssumption, TimesAreNat DEF SearchTypeOK, IsRequest
<1>11. ASSUME NEW s \in DOMAIN labels
       PROVE  /\ s \in DOMAIN labels' /\ labels'[s].cost <= labels[s].cost
              /\ labels'[s].cost \in Nat
  <2>1. CASE s \in States(M)
    BY <1>3, <1>4, <1>5, <1>10, <2>1
  <2>2. CASE s \notin States(M)
    BY <1>4, <1>10, <2>2
  <2> QED  BY <2>1, <2>2
<1>12. Rooted'
  <2>1. start \notin States(M)
    <3>1. ASSUME NEW m \in M, m.to = start PROVE FALSE
      <4>1. labels[start].cost = 0 /\ start \in DOMAIN labels
        BY <1>1 DEF Rooted
      <4> QED  BY <1>3, <3>1, <4>1
    <3> QED  BY <1>5, <3>1
  <2>2. StartState(request)' = start
    BY <1>0 DEF StartState
  <2> HIDE DEF start
  <2>3. /\ start \in DOMAIN labels /\ start \notin DOMAIN predecessor
        /\ labels[start] = [cost |-> 0, arrival |-> request.departure]
        /\ DOMAIN labels = DOMAIN predecessor \cup {start}
    BY <1>1 DEF Rooted, start
  <2>4. start \in DOMAIN labels' /\ start \notin DOMAIN predecessor'
    BY <1>4, <2>1, <2>3
  <2>5. labels'[start] = [cost |-> 0, arrival |-> request.departure]
    BY <1>4, <2>1, <2>3
  <2> QED  BY <1>0, <1>4, <2>2, <2>3, <2>4, <2>5 DEF Rooted
<1>13. Adjacent'
  BY <1>1, <1>3, <1>4, <1>5 DEF Adjacent
<1>14. Timed'
  <2> SUFFICES ASSUME request.bucket = 1, NEW s \in DOMAIN labels'
               PROVE  labels'[s].arrival = request.departure + s.bucket
    BY <1>0 DEF Timed
  <2>1. CASE s \in States(M)
    BY <1>3, <1>5, <1>10, <2>1
  <2>2. CASE s \notin States(M)
    BY <1>1, <1>4, <2>2 DEF Timed
  <2> QED  BY <2>1, <2>2
<1>15. Closed'
  <2> SUFFICES ASSUME NEW s \in DOMAIN labels', Settled(s)'
               PROVE  /\ s.node # request.goal
                      /\ \A b \in Neighbors(s.node) : Followed(s, b)'
    BY <1>0 DEF Closed
  <2>1. /\ s \in DOMAIN labels /\ labels'[s] = labels[s]
        /\ Settled(s) \/ s = e.state
    BY <1>4, <1>9
  <2>2. s.node # request.goal
    BY <1>0, <1>1, <2>1 DEF Closed
  <2>3. ASSUME NEW b \in Neighbors(s.node) PROVE Followed(s, b)'
    <3> DEFINE edge == EdgeFrom(s, b)
               next == NextState(s, b, edge.arrival)
    <3>1. EdgeFrom(s, b)' = edge
      BY <1>0, <2>1 DEF EdgeFrom
    <3>2. /\ \A x : TooLate(x)' <=> TooLate(x)
          /\ \A t : NextState(s, b, t)' = NextState(s, b, t)
      BY <1>0 DEF TooLate, NextState
    <3> SUFFICES ASSUME edge.verdict = "ok", ~TooLate(edge)
                 PROVE  /\ next \in DOMAIN labels'
                        /\ labels'[next].cost <= labels[s].cost + edge.cost
      <4> HIDE DEF edge
      <4> QED  BY <2>1, <3>1, <3>2 DEF Followed
    <3>3. edge.cost \in Nat
      <4>1. /\ s \in State /\ s.node \in Nodes /\ s.heading \in Headings
            /\ labels[s].arrival \in Times
            /\ window \in Windows /\ request.objective \in Objectives
        BY <1>0, <1>1, <2>1, SearchAssumption DEF SearchTypeOK, State, IsRequest
      <4> QED  BY <4>1, EdgeBoundAssumption DEF EdgeFrom
    <3> HIDE DEF edge, next
    <3>4. CASE Settled(s)
      <4>1. next \in DOMAIN labels /\ labels[next].cost <= labels[s].cost + edge.cost
        BY <1>1, <2>1, <3>4 DEF Closed, Followed, edge, next
      <4> QED  BY <1>10, <1>11, <2>1, <3>3, <4>1
    <3>5. CASE s = e.state
      <4>1. PICK m \in Moves(e.state) : /\ m.to = next
                                        /\ m.cost = labels[s].cost + edge.cost
        BY <3>5, MoveMade DEF edge, next
      <4>2. CASE m \in M
        <5>1. /\ next \in States(M) /\ MoveTo(M, next) \in M
              /\ MoveTo(M, next).to = next
              /\ labels'[next].cost = MoveTo(M, next).cost
          BY <1>5, <1>7, <4>1, <4>2
        <5>2. MoveTo(M, next).cost = m.cost
          BY <1>6, <4>1, <4>2, <5>1
        <5> QED  BY <1>3, <1>4, <4>1, <4>2, <5>1, <5>2
      <4>3. CASE ~Better(m)
        <5>1. next \in DOMAIN labels /\ ~(m.cost < labels[next].cost)
          BY <4>1, <4>3 DEF Better
        <5> QED  BY <1>10, <1>11, <2>1, <3>3, <4>1, <5>1
      <4> QED  BY <1>8, <4>2, <4>3
    <3> QED  BY <2>1, <3>4, <3>5
  <2> QED  BY <2>2, <2>3
<1> QED  BY <1>12, <1>13, <1>14, <1>15 DEF TreeInv

LEMMA BeginTree ==
  ASSUME NEW r \in Requests, Begin(r) \/ Refuse(r)
  PROVE  TreeInv'
<1> SUFFICES ASSUME Searching' PROVE (Rooted /\ Adjacent /\ Closed /\ Timed)'
  BY DEF TreeInv
<1>1. Begin(r) /\ answer' = Pending
  BY DEF Begin, Refuse, Searching, Raised, Pending, Nothing
<1> DEFINE start == StartState(r)
<1>2. /\ request' = r /\ predecessor' = Empty
      /\ labels' = [s \in {start} |-> [cost |-> 0, arrival |-> r.departure]]
      /\ \E low : queue' = {[priority |-> low, cost |-> 0, state |-> start]}
  BY <1>1 DEF Begin
<1>3. DOMAIN predecessor' = {} /\ DOMAIN labels' = {start}
  BY <1>2 DEF Empty
<1>4. StartState(request)' = start
  BY <1>2 DEF StartState
<1>5. Rooted' /\ Adjacent'
  BY <1>2, <1>3, <1>4 DEF Rooted, Adjacent
<1>6. Closed'
  <2>1. ~Settled(start)'
    BY <1>2 DEF Settled
  <2> QED  BY <1>3, <2>1 DEF Closed
<1>7. Timed'
  <2>1. r.departure \in Nat
    BY SearchAssumption, TimesAreNat DEF IsRequest
  <2> QED  BY <1>2, <1>3, <2>1 DEF Timed, StartState
<1> QED  BY <1>5, <1>6, <1>7

LEMMA DiscardTree ==
  ASSUME TreeInv, NEW e \in queue, Discard(e)
  PROVE  TreeInv'
<1>1. /\ Searching /\ Searching' /\ queue' = queue \ {e}
      /\ UNCHANGED <<window, request, labels, predecessor>>
      /\ e.cost # labels[e.state].cost
  BY DEF Discard, Popped, Stale, Searching, Pending, Nothing
<1>2. \A s : Settled(s)' <=> Settled(s)
  BY <1>1 DEF Settled
<1>3. \A s, b : Followed(s, b)' <=> Followed(s, b)
  BY <1>1 DEF Followed, EdgeFrom, TooLate, NextState
<1>4. Closed'
  BY <1>1, <1>2, <1>3 DEF Closed, TreeInv
<1> QED  BY <1>1, <1>4 DEF TreeInv, Rooted, Adjacent, Timed, StartState

LEMMA NextTree ==
  ASSUME SearchInv, TreeInv, [Next]_vars
  PROVE  TreeInv'
<1>1. ASSUME NEW r \in Requests, Begin(r) \/ Refuse(r) PROVE TreeInv'
  BY <1>1, BeginTree
<1>2. ASSUME NEW result, Done(result), result # Pending PROVE TreeInv'
  BY <1>2 DEF Done, TreeInv, Searching
<1>3. CASE Step \/ Cancel
  BY <1>2, <1>3, StepKinds, DiscardTree, ExpandTree
<1>4. CASE UNCHANGED vars
  BY <1>4 DEF vars, locals, TreeInv, Searching, Rooted, Adjacent, Closed, Timed,
     StartState, Settled, Followed, EdgeFrom, TooLate, NextState
<1> QED  BY <1>1, <1>3, <1>4 DEF Next, Finished

LEMMA InitTree == Init => TreeInv
BY DEF Init, TreeInv, Searching, Pending, Nothing

-------------------------------------------------------------------------------
(* The cost of a route                                                     *)

Legs == [node : Nodes, eta : Times, cost : Nat]

Adds(g, route) ==
  /\ g \in [0 .. Len(route) -> Nat] /\ g[0] = 0
  /\ \A i \in 1 .. Len(route) : g[i] = g[i - 1] + route[i].cost

LEMMA TotalAdds ==
  ASSUME NEW route \in Seq(Legs)
  PROVE  \E g : Adds(g, route) /\ Total(route) = g[Len(route)]
<1> DEFINE L == Len(route)
           Further == [p \in (1 .. L) \X Nat |-> p[2] + route[p[1]].cost]
           Is(g) == g = [i \in 0 .. L |-> IF i = 0 THEN 0
                                          ELSE g[i - 1] + route[i].cost]
<1>1. L \in Nat /\ \A i \in 1 .. L : route[i].cost \in Nat
  <2>1. L \in Nat /\ \A i \in 1 .. L : route[i] \in Legs
    OBVIOUS
  <2> QED  BY <2>1 DEF Legs
<1>2. Further \in [(1 .. L) \X Nat -> Nat]
  BY <1>1
<1>3. \A i \in 1 .. L, c \in Nat : Further[<<i, c>>] = c + route[i].cost
  OBVIOUS
<1>4. PICK g : Steps(g, L, Nat, 0, Further)
  <2> HIDE DEF Further, L
  <2> QED  BY <1>1, <1>2, StepsExist
<1>5. Adds(g, route)
  <2>1. g \in [0 .. L -> Nat] /\ g[0] = 0
    BY <1>4 DEF Steps
  <2>2. ASSUME NEW i \in 1 .. L PROVE g[i] = g[i - 1] + route[i].cost
    <3>1. i - 1 \in 0 .. L /\ g[i] = Further[<<i, g[i - 1]>>]
      <4> HIDE DEF Further
      <4> QED  BY <1>1, <1>4 DEF Steps
    <3> HIDE DEF Further, L
    <3> QED  BY <1>3, <2>1, <3>1
  <2> QED  BY <2>1, <2>2 DEF Adds
<1>6. Is(g)
  BY <1>1, <1>5 DEF Adds
<1>7. PICK h : Is(h) /\ Total(route) = h[L]
  <2>1. Total(route) = (CHOOSE x : Is(x))[L]
    BY DEF Total
  <2>2. Is(CHOOSE x : Is(x))
    <3> HIDE DEF Is
    <3> QED  BY <1>6, Zenon
  <2> HIDE DEF Is, L
  <2> QED  BY <2>1, <2>2
<1>8. Adds(h, route)
  <2>1. DOMAIN h = 0 .. L /\ h[0] = 0 /\ h = [i \in 0 .. L |-> h[i]]
    BY <1>1, <1>7
  <2>2. ASSUME NEW i \in 1 .. L PROVE h[i] = h[i - 1] + route[i].cost
    BY <1>1, <1>7
  <2> DEFINE T == {n \in Nat : n <= L => h[n] \in Nat}
  <2>3. 0 \in T
    BY <2>1
  <2>4. \A n \in Nat : n \in T => n + 1 \in T
    <3> SUFFICES ASSUME NEW n \in Nat, n + 1 <= L, h[n] \in Nat
                 PROVE  h[n + 1] \in Nat
      BY <1>1
    <3>1. h[n + 1] = h[n] + route[n + 1].cost
      BY <1>1, <2>2
    <3> QED  BY <1>1, <3>1
  <2>5. Nat \subseteq T
    <3> HIDE DEF T
    <3> QED  BY <2>3, <2>4, EveryNatural
  <2>6. h \in [0 .. L -> Nat]
    BY <1>1, <2>1, <2>5
  <2> QED  BY <2>1, <2>2, <2>6 DEF Adds
<1> QED  BY <1>7, <1>8

(* A leg more adds its cost.                                               *)
LEMMA TotalAppend ==
  ASSUME NEW route \in Seq(Legs), NEW leg \in Legs
  PROVE  Total(Append(route, leg)) = Total(route) + leg.cost
<1> DEFINE longer == Append(route, leg)
           L == Len(route)
<1>1. /\ longer \in Seq(Legs) /\ L \in Nat /\ Len(longer) = L + 1
      /\ longer[L + 1] = leg /\ \A i \in 1 .. L : longer[i] = route[i]
  OBVIOUS
<1>2. PICK g : Adds(g, route) /\ Total(route) = g[L]
  BY TotalAdds
<1>3. PICK h : Adds(h, longer) /\ Total(longer) = h[Len(longer)]
  BY <1>1, TotalAdds
<1> HIDE DEF longer, L
<1> DEFINE T == {n \in Nat : n <= L => h[n] = g[n]}
<1>4. 0 \in T
  BY <1>2, <1>3 DEF Adds
<1>5. \A n \in Nat : n \in T => n + 1 \in T
  <2> SUFFICES ASSUME NEW n \in Nat, n + 1 <= L, h[n] = g[n]
               PROVE  h[n + 1] = g[n + 1]
    BY <1>1
  <2>1. h[n + 1] = h[n] + longer[n + 1].cost
    BY <1>1, <1>3 DEF Adds
  <2>2. g[n + 1] = g[n] + route[n + 1].cost
    BY <1>1, <1>2 DEF Adds, L
  <2> QED  BY <1>1, <2>1, <2>2
<1>6. Nat \subseteq T
  <2> HIDE DEF T
  <2> QED  BY <1>4, <1>5, EveryNatural
<1>7. h[L] = g[L]
  BY <1>1, <1>6
<1>8. h[L + 1] = h[L] + leg.cost
  BY <1>1, <1>3 DEF Adds
<1> QED  BY <1>1, <1>2, <1>3, <1>7, <1>8 DEF longer

LEMMA TotalOfStart ==
  ASSUME NEW leg \in Legs
  PROVE  Total(<<leg>>) = leg.cost
<1>1. <<leg>> \in Seq(Legs) /\ Len(<<leg>>) = 1 /\ <<leg>>[1] = leg
  OBVIOUS
<1>2. PICK g : Adds(g, <<leg>>) /\ Total(<<leg>>) = g[1]
  BY <1>1, TotalAdds
<1>3. g[1] = 0 + leg.cost
  BY <1>1, <1>2 DEF Adds
<1> QED  BY <1>2, <1>3 DEF Legs

-------------------------------------------------------------------------------
(* The route that is read back                                             *)

(* A voyage goes on along a sailable edge.                                 *)
LEMMA VoyageGoesOn ==
  ASSUME NEW w, NEW r, NEW route \in Seq(Legs), IsVoyage(w, r, route), NEW leg \in Legs,
         NEW edge,
         LET last == Len(route)
         IN  /\ leg.node \in Neighbors(route[last].node)
             /\ edge = Traverse(w, route[last].node, leg.node,
                                route[last].eta, HeadingAt(route, last),
                                r.objective),
         edge.verdict = "ok",
         r.ceiling >= 0 => edge.arrival - r.departure <= r.ceiling,
         leg.eta = edge.arrival, leg.cost = edge.cost
  PROVE  LET longer == Append(route, leg)
         IN  /\ longer \in Seq(Legs) /\ Len(longer) = Len(route) + 1
             /\ longer[Len(longer)] = leg
             /\ HeadingAt(longer, Len(longer))
                  = Heading(route[Len(route)].node, leg.node)
             /\ IsVoyage(w, r, longer)
<1> DEFINE longer == Append(route, leg)
           L == Len(route)
           Sound(q, i) ==
             LET next == q[i + 1]
                 is   == Traverse(w, q[i].node, next.node, q[i].eta,
                                  HeadingAt(q, i), r.objective)
             IN  /\ next.node \in Neighbors(q[i].node)
                 /\ is.verdict = "ok"
                 /\ r.ceiling >= 0 => is.arrival - r.departure <= r.ceiling
                 /\ next.eta = is.arrival /\ next.cost = is.cost
<1>1. L \in Nat /\ L >= 1
  BY DEF IsVoyage
<1>2. /\ longer \in Seq(Legs) /\ Len(longer) = L + 1
      /\ longer[L + 1] = leg /\ \A i \in 1 .. L : longer[i] = route[i]
  BY <1>1
<1> HIDE DEF longer, L
<1>3. \A i \in 1 .. L : HeadingAt(longer, i) = HeadingAt(route, i)
  <2> TAKE i \in 1 .. L
  <2>1. CASE i = 1
    BY <2>1 DEF HeadingAt
  <2>2. CASE i # 1
    <3>1. i - 1 \in 1 .. L
      BY <1>1, <2>2
    <3> QED  BY <1>2, <2>2, <3>1 DEF HeadingAt
  <2> QED  BY <2>1, <2>2
<1>4. HeadingAt(longer, L + 1) = Heading(route[L].node, leg.node)
  <2>1. L + 1 # 1 /\ (L + 1) - 1 = L /\ longer[L] = route[L]
    BY <1>1, <1>2
  <2> QED  BY <1>2, <2>1 DEF HeadingAt
<1>5. \A i \in 1 .. L - 1 : Sound(route, i)
  BY DEF IsVoyage, L
<1>6. ASSUME NEW i \in 1 .. L PROVE Sound(longer, i)
  <2>1. /\ longer[i] = route[i] /\ HeadingAt(longer, i) = HeadingAt(route, i)
    BY <1>2, <1>3
  <2>2. CASE i # L
    <3>1. i \in 1 .. L - 1 /\ i + 1 \in 1 .. L
      BY <1>1, <2>2
    <3>2. longer[i + 1] = route[i + 1] /\ Sound(route, i)
      BY <1>2, <1>5, <3>1
    <3> QED  BY <2>1, <3>2
  <2>3. CASE i = L
    <3>1. longer[i + 1] = leg
      BY <1>2, <2>3
    <3> QED  BY <2>1, <2>3, <3>1 DEF L
  <2> QED  BY <2>2, <2>3
<1>7. IsVoyage(w, r, longer)
  <2>1. longer # <<>> /\ longer[1] = route[1] /\ Len(longer) - 1 = L
    BY <1>1, <1>2
  <2> QED  BY <1>6, <2>1 DEF IsVoyage
<1> QED  BY <1>2, <1>4, <1>7 DEF longer, L

(* A predecessor's label is an earlier one.                                *)
LEMMA PredecessorSound ==
  ASSUME SearchInv, TreeInv, Searching, NEW s \in DOMAIN predecessor
  PROVE  LET p    == predecessor[s].from
             edge == Traverse(window, p.node, s.node, labels[p].arrival,
                              p.heading, request.objective)
         IN  /\ p \in DOMAIN labels /\ s.node \in Neighbors(p.node)
             /\ edge.verdict = "ok"
             /\ request.ceiling >= 0 =>
                  edge.arrival - request.departure <= request.ceiling
             /\ Waypoint(s) = [node |-> s.node, eta |-> edge.arrival,
                               cost |-> edge.cost]
             /\ Waypoint(s) \in Legs
             /\ s.heading = Heading(p.node, s.node)
             /\ labels[s].cost = labels[p].cost + edge.cost
             /\ labels[s].arrival = edge.arrival
             /\ labels[p].arrival < labels[s].arrival
<1> DEFINE p == predecessor[s].from
           edge == Traverse(window, p.node, s.node, labels[p].arrival,
                            p.heading, request.objective)
<1>1. p \in DOMAIN labels /\ s \in DOMAIN labels
  BY DEF SearchInv, SearchTypeOK
<1>2. s.node \in Neighbors(p.node)
  BY DEF TreeInv, Adjacent
<1>3. /\ edge.verdict = "ok" /\ ~TooLate(edge)
      /\ s = NextState(p, s.node, edge.arrival)
      /\ predecessor[s].arrival = edge.arrival /\ predecessor[s].cost = edge.cost
      /\ labels[s] = [cost |-> labels[p].cost + edge.cost,
                      arrival |-> edge.arrival]
  BY DEF SearchInv, ChainConsistent
<1>4. /\ p \in State /\ p.node \in Nodes /\ p.heading \in Headings
      /\ s \in State /\ s.node \in Nodes
      /\ labels[p].arrival \in Times /\ window \in Windows
      /\ request.objective \in Objectives
      /\ request.ceiling \in Int /\ request.departure \in Nat
  BY <1>1, SearchAssumption, TimesAreNat
  DEF SearchInv, SearchTypeOK, State, IsRequest
<1>5. edge.arrival \in Times /\ edge.arrival > labels[p].arrival /\ edge.cost \in Nat
  BY <1>2, <1>3, <1>4, EdgeBoundAssumption
<1> HIDE DEF edge, p
<1>6. edge.arrival \in Nat /\ labels[p].arrival \in Nat
  BY <1>4, <1>5, TimesAreNat
<1>7. request.ceiling >= 0 => edge.arrival - request.departure <= request.ceiling
  BY <1>3, <1>4, <1>6 DEF TooLate
<1>8. s.heading = Heading(p.node, s.node)
  BY <1>3 DEF NextState
<1>9. /\ Waypoint(s) = [node |-> s.node, eta |-> edge.arrival, cost |-> edge.cost]
      /\ Waypoint(s) \in Legs
  BY <1>3, <1>4, <1>5 DEF Waypoint, Legs
<1>10. /\ labels[s].cost = labels[p].cost + edge.cost
       /\ labels[s].arrival = edge.arrival
       /\ labels[p].arrival < labels[s].arrival
  BY <1>3, <1>5, <1>6
<1> QED  BY <1>1, <1>2, <1>3, <1>7, <1>8, <1>9, <1>10 DEF edge, p

(* g reads back the routes of the states in D.                             *)
RoutesOn(g, D) ==
  g = [s \in D |->
         IF s \in DOMAIN predecessor
           THEN Append(g[predecessor[s].from], Waypoint(s))
           ELSE <<[node |-> s.node, eta |-> request.departure, cost |-> 0]>>]

LEMMA RoutesExist ==
  ASSUME SearchInv, TreeInv, Searching
  PROVE  \E g : RoutesOn(g, DOMAIN labels)
<1> DEFINE Below(n) == {s \in DOMAIN labels : labels[s].arrival < n}
           T == {n \in Nat : \E g : RoutesOn(g, Below(n))}
<1>1. \A s \in DOMAIN labels : labels[s].arrival \in 0 .. LastTime
  BY SearchAssumption DEF SearchInv, SearchTypeOK
<1>2. 0 \in T
  <2>1. Below(0) = {}
    BY <1>1
  <2>2. RoutesOn([s \in {} |-> 0], {})
    BY DEF RoutesOn
  <2> HIDE DEF Below
  <2> QED  BY <2>1, <2>2
<1>3. ASSUME NEW n \in Nat, n \in T PROVE n + 1 \in T
  <2>1. PICK g : RoutesOn(g, Below(n))
    BY <1>3
  <2> DEFINE Next1(s) ==
               IF s \in DOMAIN predecessor
                 THEN Append(g[predecessor[s].from], Waypoint(s))
                 ELSE <<[node |-> s.node, eta |-> request.departure, cost |-> 0]>>
             h == [s \in Below(n + 1) |-> Next1(s)]
  <2>2. \A s \in Below(n) : s \in Below(n + 1) /\ g[s] = Next1(s)
    <3>1. \A s \in Below(n) : s \in Below(n + 1)
      BY <1>1
    <3>2. \A s \in Below(n) : g[s] = Next1(s)
      <4> HIDE DEF Below
      <4> QED  BY <2>1 DEF RoutesOn
    <3> QED  BY <3>1, <3>2
  <2>3. \A s \in Below(n) : h[s] = g[s]
    BY <2>2
  <2>4. ASSUME NEW s \in Below(n + 1), s \in DOMAIN predecessor
        PROVE  predecessor[s].from \in Below(n)
    <3>1. /\ predecessor[s].from \in DOMAIN labels
          /\ labels[predecessor[s].from].arrival < labels[s].arrival
      BY <2>4, PredecessorSound
    <3> QED  BY <1>1, <3>1
  <2>5. \A s \in Below(n + 1) :
          h[s] = IF s \in DOMAIN predecessor
                   THEN Append(h[predecessor[s].from], Waypoint(s))
                   ELSE <<[node |-> s.node, eta |-> request.departure,
                           cost |-> 0]>>
    <3> TAKE s \in Below(n + 1)
    <3>1. h[s] = Next1(s)
      OBVIOUS
    <3>2. s \in DOMAIN predecessor =>
            h[predecessor[s].from] = g[predecessor[s].from]
      BY <2>3, <2>4
    <3> HIDE DEF h, Below
    <3> QED  BY <3>1, <3>2
  <2>6. h = [s \in Below(n + 1) |-> h[s]]
    OBVIOUS
  <2>7. RoutesOn(h, Below(n + 1))
    <3> HIDE DEF h, Below
    <3> QED  BY <2>5, <2>6 DEF RoutesOn
  <2> HIDE DEF h, Below
  <2> QED  BY <2>7
<1>4. Nat \subseteq T
  <2> HIDE DEF T
  <2> QED  BY <1>2, <1>3, EveryNatural
<1>5. Below(LastTime + 1) = DOMAIN labels /\ LastTime + 1 \in Nat
  BY <1>1, SearchAssumption
<1> HIDE DEF Below
<1> QED  BY <1>4, <1>5

(* _build_result() reads back what it should.                              *)
LEMMA ReadsBack ==
  ASSUME SearchInv, TreeInv, Searching
  PROVE  \E g : RoutesOn(g, DOMAIN labels) /\ \A s : RouteTo(s) = g[s]
<1> DEFINE Is(g) == RoutesOn(g, DOMAIN labels)
<1>1. \A s : RouteTo(s) = (CHOOSE g : Is(g))[s]
  BY DEF RouteTo, RoutesOn
<1>2. Is(CHOOSE g : Is(g))
  <2>1. \E g : Is(g)
    BY RoutesExist
  <2> HIDE DEF Is
  <2> QED  BY <2>1, Zenon
<1> QED  BY <1>1, <1>2

(* The route to a state is a voyage that gets there as its label says.     *)
Reads(route, s) ==
  /\ route \in Seq(Legs) /\ IsVoyage(window, request, route)
  /\ Len(route) \in Nat \ {0}
  /\ route[Len(route)].node = s.node
  /\ route[Len(route)].eta = labels[s].arrival
  /\ HeadingAt(route, Len(route)) = s.heading
  /\ Total(route) = labels[s].cost

LEMMA StartReads ==
  ASSUME SearchInv, TreeInv, Searching
  PROVE  Reads(<<[node |-> request.start, eta |-> request.departure,
                  cost |-> 0]>>, StartState(request))
<1> DEFINE leg == [node |-> request.start, eta |-> request.departure, cost |-> 0]
<1>1. leg \in Legs
  BY SearchAssumption DEF SearchInv, SearchTypeOK, IsRequest, Legs
<1>2. /\ labels[StartState(request)] = [cost |-> 0, arrival |-> request.departure]
      /\ StartState(request).node = request.start
      /\ StartState(request).heading = Unturned
  BY DEF TreeInv, Rooted, StartState
<1>3. <<leg>> \in Seq(Legs) /\ Len(<<leg>>) = 1 /\ <<leg>>[1] = leg
  BY <1>1
<1>4. Total(<<leg>>) = 0
  <2>1. leg.cost = 0
    OBVIOUS
  <2> HIDE DEF leg
  <2> QED  BY <1>1, <2>1, TotalOfStart
<1>5. HeadingAt(<<leg>>, 1) = Unturned
  BY DEF HeadingAt
<1>6. IsVoyage(window, request, <<leg>>)
  <2>1. <<leg>> # <<>> /\ 1 .. Len(<<leg>>) - 1 = {}
    BY <1>3
  <2> QED  BY <1>3, <2>1 DEF IsVoyage
<1>7. leg.node = request.start /\ leg.eta = request.departure
  OBVIOUS
<1> HIDE DEF leg
<1>8. Reads(<<leg>>, StartState(request))
  BY <1>2, <1>3, <1>4, <1>5, <1>6, <1>7 DEF Reads
<1> QED  BY <1>8 DEF leg

LEMMA WaypointReads ==
  ASSUME SearchInv, TreeInv, Searching, NEW s \in DOMAIN predecessor,
         NEW route, Reads(route, predecessor[s].from)
  PROVE  Reads(Append(route, Waypoint(s)), s)
<1> DEFINE p == predecessor[s].from
           edge == Traverse(window, p.node, s.node, labels[p].arrival,
                            p.heading, request.objective)
           longer == Append(route, Waypoint(s))
<1>1. /\ s.node \in Neighbors(p.node) /\ edge.verdict = "ok"
      /\ request.ceiling >= 0 =>
           edge.arrival - request.departure <= request.ceiling
      /\ Waypoint(s) = [node |-> s.node, eta |-> edge.arrival, cost |-> edge.cost]
      /\ Waypoint(s) \in Legs
      /\ s.heading = Heading(p.node, s.node)
      /\ labels[s].cost = labels[p].cost + edge.cost
      /\ labels[s].arrival = edge.arrival
  BY PredecessorSound
<1>2. /\ route \in Seq(Legs) /\ IsVoyage(window, request, route)
      /\ Len(route) \in Nat
      /\ route[Len(route)].node = p.node
      /\ route[Len(route)].eta = labels[p].arrival
      /\ HeadingAt(route, Len(route)) = p.heading
      /\ Total(route) = labels[p].cost
  BY DEF Reads
<1>3. /\ Waypoint(s).node = s.node /\ Waypoint(s).eta = edge.arrival
      /\ Waypoint(s).cost = edge.cost
  BY <1>1
<1>4. edge = Traverse(window, route[Len(route)].node, Waypoint(s).node,
                      route[Len(route)].eta, HeadingAt(route, Len(route)),
                      request.objective)
  BY <1>2, <1>3
<1> HIDE DEF edge, p
<1>5. /\ longer \in Seq(Legs) /\ Len(longer) = Len(route) + 1
      /\ longer[Len(longer)] = Waypoint(s)
      /\ HeadingAt(longer, Len(longer))
           = Heading(route[Len(route)].node, Waypoint(s).node)
      /\ IsVoyage(window, request, longer)
  BY <1>1, <1>2, <1>3, <1>4, VoyageGoesOn
<1>6. Total(longer) = Total(route) + Waypoint(s).cost
  BY <1>1, <1>2, TotalAppend
<1> HIDE DEF longer
<1>7. Reads(longer, s)
  BY <1>1, <1>2, <1>3, <1>5, <1>6 DEF Reads
<1> QED  BY <1>7 DEF longer

LEMMA RouteReads ==
  ASSUME SearchInv, TreeInv, Searching, NEW goal \in DOMAIN labels
  PROVE  Reads(RouteTo(goal), goal)
<1>1. PICK g : RoutesOn(g, DOMAIN labels) /\ \A s : RouteTo(s) = g[s]
  BY ReadsBack
<1>2. \A s \in DOMAIN labels : labels[s].arrival \in 0 .. LastTime
  BY SearchAssumption DEF SearchInv, SearchTypeOK
<1> DEFINE T == {n \in Nat : \A s \in DOMAIN labels :
                               labels[s].arrival < n => Reads(g[s], s)}
<1>3. 0 \in T
  BY <1>2
<1>4. ASSUME NEW n \in Nat, n \in T PROVE n + 1 \in T
  <2> SUFFICES ASSUME NEW s \in DOMAIN labels, labels[s].arrival < n + 1
               PROVE  Reads(g[s], s)
    OBVIOUS
  <2>1. CASE s \in DOMAIN predecessor
    <3> DEFINE p == predecessor[s].from
    <3>1. p \in DOMAIN labels /\ labels[p].arrival < labels[s].arrival
      BY <2>1, PredecessorSound
    <3>2. Reads(g[p], p)
      <4>1. labels[p].arrival < n
        BY <1>2, <3>1
      <4> QED  BY <1>4, <3>1, <4>1
    <3>3. g[s] = Append(g[p], Waypoint(s))
      BY <1>1, <2>1 DEF RoutesOn
    <3> QED  BY <2>1, <3>2, <3>3, WaypointReads
  <2>2. CASE s \notin DOMAIN predecessor
    <3>1. s = StartState(request) /\ s.node = request.start
      BY <2>2 DEF TreeInv, Rooted, StartState
    <3>2. g[s] = <<[node |-> request.start, eta |-> request.departure,
                    cost |-> 0]>>
      BY <1>1, <2>2, <3>1 DEF RoutesOn
    <3> QED  BY <3>1, <3>2, StartReads
  <2> QED  BY <2>1, <2>2
<1>5. Nat \subseteq T
  <2> HIDE DEF T
  <2> QED  BY <1>3, <1>4, EveryNatural
<1>6. labels[goal].arrival < LastTime + 1 /\ LastTime + 1 \in Nat
  BY <1>2, SearchAssumption
<1>7. Reads(g[goal], goal)
  BY <1>5, <1>6
<1> QED  BY <1>1, <1>7

-------------------------------------------------------------------------------
(* What a search has not overlooked                                        *)

(* Where a voyage may be.                                                  *)
Ends == [node : Nodes, heading : Headings, arrival : Times, cost : Nat]

(* A voyage that is at v was overtaken by a settled label, or an entry of  *)
(* the queue is on its way.                                                *)
Pursued(v) ==
  \/ \E s \in DOMAIN labels :
       /\ Settled(s) /\ s.node = v.node /\ s.heading = v.heading
       /\ labels[s].arrival = v.arrival /\ labels[s].cost <= v.cost
  \/ \E e \in queue : e.priority <= v.cost + Low(v.node)

LEMMA LabelPursues ==
  ASSUME SearchInv, Searching, NEW s \in DOMAIN labels, NEW v \in Ends,
         s.node = v.node, s.heading = v.heading, labels[s].arrival = v.arrival,
         labels[s].cost <= v.cost
  PROVE  Pursued(v)
<1>1. CASE Settled(s)
  BY <1>1 DEF Pursued
<1>2. CASE ~Settled(s)
  <2>1. PICK e \in queue : e.state = s /\ e.cost = labels[s].cost
    BY <1>2 DEF Settled
  <2>2. e.priority = e.cost + Low(v.node)
    BY <2>1 DEF SearchInv, QueueSound
  <2>3. Low(v.node) \in Nat /\ labels[s].cost \in Nat /\ v.cost \in Nat
    BY LowIsNat DEF SearchInv, SearchTypeOK, Ends
  <2> QED  BY <2>1, <2>2, <2>3 DEF Pursued
<1> QED  BY <1>1, <1>2

LEMMA StartPursued ==
  ASSUME SearchInv, TreeInv, Searching
  PROVE  LET v == [node |-> request.start, heading |-> Unturned,
                   arrival |-> request.departure, cost |-> 0]
         IN  v \in Ends /\ Pursued(v)
<1> DEFINE v == [node |-> request.start, heading |-> Unturned,
                 arrival |-> request.departure, cost |-> 0]
<1>1. v \in Ends
  BY SearchAssumption DEF SearchInv, SearchTypeOK, IsRequest, Ends, Headings
<1>2. /\ StartState(request) \in DOMAIN labels
      /\ labels[StartState(request)] = [cost |-> 0, arrival |-> request.departure]
      /\ StartState(request).node = request.start
      /\ StartState(request).heading = Unturned
  BY DEF TreeInv, Rooted, StartState
<1> QED  BY <1>1, <1>2, LabelPursues

(* An edge of a voyage: its end is where a voyage may be.                  *)
LEMMA EdgeEnds ==
  ASSUME NEW w \in Windows, NEW r, r.objective \in Objectives, NEW v \in Ends,
         NEW b \in Neighbors(v.node), NEW edge,
         edge = Traverse(w, v.node, b, v.arrival, v.heading, r.objective),
         edge.verdict = "ok"
  PROVE  /\ [node |-> b, heading |-> Heading(v.node, b),
             arrival |-> edge.arrival, cost |-> v.cost + edge.cost] \in Ends
         /\ edge.cost \in Nat /\ edge.arrival \in Times
         /\ edge.arrival > v.arrival
<1>1. /\ v.node \in Nodes /\ v.heading \in Headings /\ v.arrival \in Times
      /\ v.cost \in Nat /\ r.objective \in Objectives /\ b \in Nodes
  BY SearchAssumption DEF Ends
<1>2. edge.arrival \in Times /\ edge.cost \in Nat /\ edge.arrival > v.arrival
  BY <1>1, EdgeBoundAssumption
<1>3. Heading(v.node, b) \in Headings
  BY <1>1 DEF Headings
<1> QED  BY <1>1, <1>2, <1>3 DEF Ends

LEMMA PursuitGoesOn ==
  ASSUME SearchInv, TreeInv, Searching, request.bucket = 1,
         NEW v \in Ends, Pursued(v), NEW b \in Neighbors(v.node), NEW edge,
         edge = Traverse(window, v.node, b, v.arrival, v.heading,
                         request.objective),
         edge.verdict = "ok",
         request.ceiling >= 0 =>
           edge.arrival - request.departure <= request.ceiling
  PROVE  LET u == [node |-> b, heading |-> Heading(v.node, b),
                   arrival |-> edge.arrival, cost |-> v.cost + edge.cost]
         IN  u \in Ends /\ Pursued(u)
<1> DEFINE u == [node |-> b, heading |-> Heading(v.node, b),
                 arrival |-> edge.arrival, cost |-> v.cost + edge.cost]
<1>1. window \in Windows /\ request \in Requests /\ request.goal \in Nodes
  BY DEF SearchInv, SearchTypeOK
<1>2. u \in Ends /\ edge.cost \in Nat /\ edge.arrival \in Times
  BY <1>1, EdgeEnds, RequestIs
<1>3. /\ v.node \in Nodes /\ v.heading \in Headings /\ v.arrival \in Times
      /\ v.cost \in Nat /\ b \in Nodes
      /\ request.objective \in Objectives /\ request.departure \in Nat
      /\ request.ceiling \in Int /\ edge.arrival \in Nat
      /\ request.goal \in Goals
  BY <1>1, <1>2, SearchAssumption, TimesAreNat DEF Ends, IsRequest, Goals
<1>4. u.node = b /\ u.heading = Heading(v.node, b) /\ u.arrival = edge.arrival
      /\ u.cost = v.cost + edge.cost
  OBVIOUS
<1> HIDE DEF u
<1>5. CASE \E e \in queue : e.priority <= v.cost + Low(v.node)
  <2>1. PICK e \in queue : e.priority <= v.cost + Low(v.node)
    BY <1>5
  <2>2. Low(v.node) <= edge.cost + Low(b)
    BY <1>1, <1>3, EdgeBoundAssumption DEF Low
  <2>3. Low(v.node) \in Nat /\ Low(b) \in Nat /\ e.priority \in Nat
    BY <1>3, LowIsNat DEF SearchInv, SearchTypeOK
  <2>4. e.priority <= u.cost + Low(u.node)
    BY <1>2, <1>3, <1>4, <2>1, <2>2, <2>3
  <2> QED  BY <1>2, <2>4 DEF Pursued, u
<1>6. ASSUME NEW s \in DOMAIN labels, Settled(s), s.node = v.node,
             s.heading = v.heading, labels[s].arrival = v.arrival,
             labels[s].cost <= v.cost
      PROVE  u \in Ends /\ Pursued(u)
  <2> DEFINE next == NextState(s, b, edge.arrival)
  <2>1. EdgeFrom(s, b) = edge
    BY <1>6 DEF EdgeFrom
  <2>2. ~TooLate(edge)
    BY <1>3 DEF TooLate
  <2>3. Followed(s, b)
    BY <1>6 DEF TreeInv, Closed
  <2>4. next \in DOMAIN labels /\ labels[next].cost <= labels[s].cost + edge.cost
    BY <2>1, <2>2, <2>3 DEF Followed
  <2>5. /\ next.node = u.node /\ next.heading = u.heading
        /\ next.bucket = (edge.arrival - request.departure) \div 1
    BY <1>4, <1>6 DEF NextState
  <2> HIDE DEF next
  <2>6. labels[next].arrival = u.arrival
    <3>1. labels[next].arrival = request.departure + next.bucket
      BY <2>4 DEF TreeInv, Timed
    <3> QED  BY <1>3, <1>4, <2>5, <3>1
  <2>7. labels[next].cost <= u.cost
    <3>1. labels[next].cost \in Nat /\ labels[s].cost \in Nat
      BY <1>6, <2>4 DEF SearchInv, SearchTypeOK
    <3> QED  BY <1>2, <1>3, <1>4, <1>6, <2>4, <3>1
  <2> QED  BY <1>2, <2>4, <2>5, <2>6, <2>7, LabelPursues
<1> QED  BY <1>5, <1>6 DEF Pursued, u

LEMMA ExtensionIs ==
  ASSUME NEW w, NEW r, NEW v, NEW u \in Extensions(w, r, v)
  PROVE  \E b \in Neighbors(v.node) :
           LET edge == Traverse(w, v.node, b, v.arrival, v.heading, r.objective)
           IN  /\ edge.verdict = "ok"
               /\ r.ceiling >= 0 => edge.arrival - r.departure <= r.ceiling
               /\ u = [node |-> b, heading |-> Heading(v.node, b),
                       arrival |-> edge.arrival, cost |-> v.cost + edge.cost]
<1> DEFINE Is(b) == Traverse(w, v.node, b, v.arrival, v.heading, r.objective)
           edges == {[to |-> b, is |-> Is(b)] : b \in Neighbors(v.node)}
<1>1. PICK e \in edges :
        /\ e.is.verdict = "ok"
        /\ r.ceiling >= 0 => e.is.arrival - r.departure <= r.ceiling
        /\ u = [node |-> e.to, heading |-> Heading(v.node, e.to),
                arrival |-> e.is.arrival, cost |-> v.cost + e.is.cost]
  BY DEF Extensions
<1>2. PICK b \in Neighbors(v.node) : e = [to |-> b, is |-> Is(b)]
  OBVIOUS
<1>3. e.to = b /\ e.is = Is(b)
  BY <1>2
<1> QED  BY <1>1, <1>3

StartEnd(r) ==
  [node |-> r.start, heading |-> Unturned, arrival |-> r.departure, cost |-> 0]

(* The voyages after a moment more.                                        *)
Later(w, r, t, before) ==
  before \cup UNION {Extensions(w, r, v) :
    v \in CheapestOf({u \in before : u.arrival = t - 1})}

LEMMA SailedUnfolds ==
  ASSUME NEW w \in Windows, NEW r, r.start \in Nodes, r.departure \in Times,
         r.objective \in Objectives
  PROVE  /\ Sailed(w, r) \in [0 .. LastTime + 1 -> SUBSET Ends]
         /\ Sailed(w, r)[0] = {StartEnd(r)}
         /\ \A t \in 1 .. LastTime + 1 :
              Sailed(w, r)[t] = Later(w, r, t, Sailed(w, r)[t - 1])
<1> DEFINE L == LastTime + 1
           Further == [p \in (1 .. L) \X SUBSET Ends |-> Later(w, r, p[1], p[2])]
           Is(g) == g = [t \in 0 .. L |->
                           IF t = 0 THEN {StartEnd(r)}
                           ELSE Later(w, r, t, g[t - 1])]
<1>1. L \in Nat
  BY SearchAssumption
<1>2. StartEnd(r) \in Ends
  BY DEF StartEnd, Ends, Headings
<1>3. ASSUME NEW t, NEW before \in SUBSET Ends
      PROVE  Later(w, r, t, before) \in SUBSET Ends
  <2> SUFFICES ASSUME NEW v \in before, NEW u \in Extensions(w, r, v)
               PROVE  u \in Ends
    BY DEF Later, CheapestOf
  <2>1. v \in Ends
    OBVIOUS
  <2>2. PICK b \in Neighbors(v.node) :
          LET edge == Traverse(w, v.node, b, v.arrival, v.heading, r.objective)
          IN  /\ edge.verdict = "ok"
              /\ u = [node |-> b, heading |-> Heading(v.node, b),
                      arrival |-> edge.arrival, cost |-> v.cost + edge.cost]
    BY ExtensionIs
  <2> QED  BY <2>1, <2>2, EdgeEnds
<1>4. \A t \in 1 .. L, before \in SUBSET Ends :
        Further[<<t, before>>] = Later(w, r, t, before)
  OBVIOUS
<1>5. Further \in [(1 .. L) \X SUBSET Ends -> SUBSET Ends]
  <2>1. \A p \in (1 .. L) \X SUBSET Ends : Later(w, r, p[1], p[2]) \in SUBSET Ends
    BY <1>3
  <2> QED  BY <2>1
<1>6. PICK g : Steps(g, L, SUBSET Ends, {StartEnd(r)}, Further)
  <2> HIDE DEF Further, L
  <2>1. {StartEnd(r)} \in SUBSET Ends
    BY <1>2
  <2> QED  BY <1>1, <1>5, <2>1, StepsExist
<1>7. /\ g \in [0 .. L -> SUBSET Ends] /\ g[0] = {StartEnd(r)}
      /\ \A t \in 1 .. L : g[t] = Later(w, r, t, g[t - 1])
  <2> HIDE DEF Further, L
  <2>1. /\ g \in [0 .. L -> SUBSET Ends] /\ g[0] = {StartEnd(r)}
        /\ \A t \in 1 .. L : g[t] = Further[<<t, g[t - 1]>>]
    BY <1>6 DEF Steps
  <2>2. \A t \in 1 .. L : g[t - 1] \in SUBSET Ends
    BY <1>1, <2>1
  <2> QED  BY <1>4, <2>1, <2>2
<1>8. Is(g)
  <2> HIDE DEF L
  <2>1. \A t \in 0 .. L : t = 0 \/ t \in 1 .. L
    BY <1>1
  <2> QED  BY <1>7, <2>1
<1>9. Is(Sailed(w, r))
  <2>1. Sailed(w, r) = CHOOSE g1 : Is(g1)
    BY DEF Sailed, StartEnd, Later
  <2> HIDE DEF Is
  <2> QED  BY <1>8, <2>1, Zenon
<1> DEFINE S == Sailed(w, r)
<1> HIDE DEF S
<1>10. /\ DOMAIN S = 0 .. L /\ S[0] = {StartEnd(r)}
       /\ \A t \in 1 .. L : S[t] = Later(w, r, t, S[t - 1])
       /\ S = [t \in 0 .. L |-> S[t]]
  <2>1. Is(S)
    BY <1>9 DEF S
  <2> HIDE DEF L
  <2>2. 0 \in 0 .. L /\ \A t \in 1 .. L : t \in 0 .. L /\ t # 0
    BY <1>1
  <2> QED  BY <2>1, <2>2
<1> DEFINE T == {t \in Nat : t <= L => S[t] \in SUBSET Ends}
<1>11. 0 \in T
  BY <1>2, <1>10
<1>12. \A t \in Nat : t \in T => t + 1 \in T
  <2> SUFFICES ASSUME NEW t \in Nat, t + 1 <= L, S[t] \in SUBSET Ends
               PROVE  S[t + 1] \in SUBSET Ends
    BY <1>1
  <2>1. t + 1 \in 1 .. L /\ (t + 1) - 1 = t
    BY <1>1
  <2>2. S[t + 1] = Later(w, r, t + 1, S[t])
    BY <1>10, <2>1
  <2> QED  BY <1>3, <2>2
<1>13. Nat \subseteq T
  <2> HIDE DEF T
  <2> QED  BY <1>11, <1>12, EveryNatural
<1>14. S \in [0 .. L -> SUBSET Ends]
  <2>1. \A t \in 0 .. L : S[t] \in SUBSET Ends
    BY <1>1, <1>13
  <2> HIDE DEF L
  <2> QED  BY <1>10, <2>1
<1> QED  BY <1>10, <1>14 DEF S

(* No voyage of the enumeration is overlooked.                             *)
LEMMA SailedPursued ==
  ASSUME SearchInv, TreeInv, Searching, request.bucket = 1,
         NEW u \in Sailed(window, request)[LastTime + 1]
  PROVE  u \in Ends /\ Pursued(u)
<1> DEFINE S == Sailed(window, request)
           T == {t \in Nat : t <= LastTime + 1 => \A v \in S[t] : Pursued(v)}
<1>1. /\ window \in Windows /\ request \in Requests /\ request.start \in Nodes
      /\ LastTime + 1 \in Nat
  BY SearchAssumption DEF SearchInv, SearchTypeOK
<1>2. /\ S \in [0 .. LastTime + 1 -> SUBSET Ends]
      /\ S[0] = {StartEnd(request)}
      /\ \A t \in 1 .. LastTime + 1 : S[t] = Later(window, request, t, S[t - 1])
  BY <1>1, SailedUnfolds, RequestIs
<1> HIDE DEF S
<1>3. 0 \in T
  BY <1>2, StartPursued DEF StartEnd
<1>4. \A t \in Nat : t \in T => t + 1 \in T
  <2> SUFFICES ASSUME NEW t \in Nat, t + 1 <= LastTime + 1,
                      \A v \in S[t] : Pursued(v), NEW v1 \in S[t + 1]
               PROVE  Pursued(v1)
    BY <1>1
  <2>1. t \in 0 .. LastTime + 1 /\ t + 1 \in 1 .. LastTime + 1 /\ (t + 1) - 1 = t
    BY <1>1
  <2>2. S[t + 1] = Later(window, request, t + 1, S[t]) /\ S[t] \in SUBSET Ends
    BY <1>2, <2>1
  <2>3. v1 \in S[t] \/ \E v \in S[t] : v1 \in Extensions(window, request, v)
    BY <2>2 DEF Later, CheapestOf
  <2>4. ASSUME NEW v \in S[t], v1 \in Extensions(window, request, v)
        PROVE  Pursued(v1)
    <3>1. v \in Ends /\ Pursued(v)
      BY <2>2
    <3>2. PICK b \in Neighbors(v.node) :
            LET edge == Traverse(window, v.node, b, v.arrival, v.heading,
                                 request.objective)
            IN  /\ edge.verdict = "ok"
                /\ request.ceiling >= 0 =>
                     edge.arrival - request.departure <= request.ceiling
                /\ v1 = [node |-> b, heading |-> Heading(v.node, b),
                         arrival |-> edge.arrival, cost |-> v.cost + edge.cost]
      BY <2>4, ExtensionIs
    <3> QED  BY <3>1, <3>2, PursuitGoesOn
  <2> QED  BY <2>3, <2>4
<1>5. Nat \subseteq T
  <2> HIDE DEF T
  <2> QED  BY <1>3, <1>4, EveryNatural
<1>6. LastTime + 1 \in 0 .. LastTime + 1
  BY <1>1
<1>7. u \in S[LastTime + 1]
  BY DEF S
<1> QED  BY <1>1, <1>2, <1>5, <1>6, <1>7

(* Nor is any voyage at all: where it is after its i-th waypoint.          *)
EndAt(route, i, cost) ==
  [node |-> route[i].node, heading |-> HeadingAt(route, i),
   arrival |-> route[i].eta, cost |-> cost]

LEMMA VoyagePursued ==
  ASSUME SearchInv, TreeInv, Searching, request.bucket = 1,
         NEW route \in Seq(Legs), IsVoyage(window, request, route)
  PROVE  LET end == EndAt(route, Len(route), Total(route))
         IN  end \in Ends /\ Pursued(end)
<1> DEFINE L == Len(route)
<1>1. PICK g : Adds(g, route) /\ Total(route) = g[L]
  BY TotalAdds
<1>2. L \in Nat /\ L >= 1 /\ \A i \in 1 .. L : route[i] \in Legs
  BY DEF IsVoyage
<1>3. /\ route[1] = [node |-> request.start, eta |-> request.departure,
                     cost |-> 0]
      /\ \A i \in 1 .. L - 1 :
           LET leg  == route[i + 1]
               edge == Traverse(window, route[i].node, leg.node, route[i].eta,
                                HeadingAt(route, i), request.objective)
           IN  /\ leg.node \in Neighbors(route[i].node)
               /\ edge.verdict = "ok"
               /\ request.ceiling >= 0 =>
                    edge.arrival - request.departure <= request.ceiling
               /\ leg.eta = edge.arrival /\ leg.cost = edge.cost
  BY DEF IsVoyage
<1>4. /\ g \in [0 .. L -> Nat] /\ g[0] = 0
      /\ \A i \in 1 .. L : g[i] = g[i - 1] + route[i].cost
  BY <1>1 DEF Adds
<1> HIDE DEF L
<1> DEFINE End(i) == EndAt(route, i, g[i])
           T == {n \in Nat : n + 1 <= L => End(n + 1) \in Ends /\ Pursued(End(n + 1))}
<1>5. 0 \in T
  <2>1. g[1] = 0
    BY <1>2, <1>3, <1>4
  <2>2. End(1) = [node |-> request.start, heading |-> Unturned,
                  arrival |-> request.departure, cost |-> 0]
    BY <1>3, <2>1 DEF EndAt, HeadingAt
  <2> QED  BY <2>2, StartPursued
<1>6. ASSUME NEW n \in Nat, n \in T PROVE n + 1 \in T
  <2> DEFINE i == n + 1
  <2> SUFFICES ASSUME i + 1 <= L
               PROVE  End(i + 1) \in Ends /\ Pursued(End(i + 1))
    OBVIOUS
  <2>1. End(i) \in Ends /\ Pursued(End(i))
    BY <1>2, <1>6
  <2>2. i \in 1 .. L - 1 /\ i \in 1 .. L /\ i + 1 \in 1 .. L
        /\ i + 1 # 1 /\ (i + 1) - 1 = i
    BY <1>2
  <2> HIDE DEF i
  <2> DEFINE b    == route[i + 1].node
             edge == Traverse(window, route[i].node, b, route[i].eta,
                              HeadingAt(route, i), request.objective)
             v    == End(i)
  <2>3. /\ b \in Neighbors(route[i].node) /\ edge.verdict = "ok"
        /\ request.ceiling >= 0 =>
             edge.arrival - request.departure <= request.ceiling
        /\ route[i + 1].eta = edge.arrival /\ route[i + 1].cost = edge.cost
    BY <1>3, <2>2
  <2>4. /\ v.node = route[i].node /\ v.heading = HeadingAt(route, i)
        /\ v.arrival = route[i].eta /\ v.cost = g[i]
    BY DEF EndAt
  <2>5. edge = Traverse(window, v.node, b, v.arrival, v.heading,
                        request.objective)
    BY <2>4
  <2>6. End(i + 1) = [node |-> b, heading |-> Heading(v.node, b),
                      arrival |-> edge.arrival, cost |-> v.cost + edge.cost]
    <3>1. g[i + 1] = g[i] + route[i + 1].cost
      BY <1>4, <2>2
    <3>2. HeadingAt(route, i + 1) = Heading(v.node, b)
      BY <2>2, <2>4 DEF HeadingAt
    <3> HIDE DEF edge, b, v
    <3> QED  BY <2>3, <2>4, <3>1, <3>2 DEF EndAt, b
  <2> HIDE DEF edge, b, v
  <2>7. v \in Ends /\ Pursued(v) /\ b \in Neighbors(v.node)
    BY <2>1, <2>3, <2>4 DEF v
  <2>8. LET u == [node |-> b, heading |-> Heading(v.node, b),
                  arrival |-> edge.arrival, cost |-> v.cost + edge.cost]
        IN  u \in Ends /\ Pursued(u)
    BY <2>3, <2>5, <2>7, PursuitGoesOn
  <2> QED  BY <2>6, <2>8
<1>7. Nat \subseteq T
  <2> HIDE DEF T
  <2> QED  BY <1>5, <1>6, EveryNatural
<1>8. L - 1 \in Nat /\ (L - 1) + 1 = L
  BY <1>2
<1>9. End(L) \in Ends /\ Pursued(End(L))
  BY <1>2, <1>7, <1>8
<1> QED  BY <1>1, <1>9 DEF L

-------------------------------------------------------------------------------
(* The answers                                                             *)

(* A voyage to the goal that is under way costs what the queue offers; one *)
(* that is not under way is none.                                          *)
LEMMA GoalPursued ==
  ASSUME SearchInv, TreeInv, Searching,
         NEW v \in Ends, Pursued(v), v.node = request.goal
  PROVE  /\ queue # {}
         /\ \A e \in queue :
              Current(e) /\ e.state.node = request.goal =>
                labels[e.state].cost <= v.cost
<1>1. PICK f \in queue : f.priority <= v.cost + Low(v.node)
  BY DEF Pursued, TreeInv, Closed
<1>2. ASSUME NEW e \in queue, Current(e), e.state.node = request.goal
      PROVE  labels[e.state].cost <= v.cost
  <2>1. /\ e.cost = labels[e.state].cost /\ e.cost \in Nat
        /\ e.priority = e.cost + Low(e.state.node)
        /\ e.priority <= f.priority
    BY <1>1, <1>2, LeastIsLow DEF Current
  <2>2. Low(v.node) \in Nat /\ v.cost \in Nat /\ f.priority \in Nat
    BY <1>1, LowIsNat DEF SearchInv, SearchTypeOK, Ends
  <2> QED  BY <1>1, <1>2, <2>1, <2>2
<1> QED  BY <1>1, <1>2

(* No voyage that the request allows is better than the answer: not only   *)
(* those of the enumeration, but any.                                      *)
NoneIsOverlooked ==
  request # NoRequest /\ request.bucket = 1 =>
    \A track \in Seq(Legs) :
      /\ IsVoyage(window, request, track)
      /\ track[Len(track)].node = request.goal
      => /\ answer.outcome = "route" => answer.cost <= Total(track)
         /\ answer.outcome \notin {"no_route", "horizon"}

Routes == [outcome : {"route"}, route : Seq(Legs), cost : Nat]

AnswerTyped ==
  IF answer.outcome = "route" THEN answer \in Routes /\ request \in Requests
                              ELSE answer.route = <<>>

AnswerInv == AnswerTyped /\ CheapestRoute /\ NoRouteIsMissed /\ NoneIsOverlooked

(* An answer that says nothing of routes.                                  *)
LEMMA SilentInv ==
  ASSUME answer'.outcome \notin {"route", "no_route", "horizon"},
         answer'.route = <<>>
  PROVE  AnswerInv'
BY DEF AnswerInv, AnswerTyped, CheapestRoute, NoRouteIsMissed, NoRouteMeansNone,
   NoneIsOverlooked

LEMMA RaisedIs ==
  ASSUME NEW error
  PROVE  Raised(error).outcome = error /\ Raised(error).route = <<>>
BY DEF Raised, Nothing

LEMMA ArriveAnswer ==
  ASSUME SearchInv, TreeInv, NEW e \in queue, Arrive(e)
  PROVE  AnswerInv'
<1>1. /\ Searching /\ Current(e) /\ e.state.node = request.goal
      /\ answer' = [outcome |-> "route", route |-> RouteTo(e.state),
                    cost |-> labels[e.state].cost]
      /\ window' = window /\ request' = request
  BY DEF Arrive, Done, Current
<1>2. e.state \in DOMAIN labels
  BY <1>1, LeastIsLow DEF Current
<1>3. /\ answer'.outcome = "route" /\ answer'.route = RouteTo(e.state)
      /\ answer'.cost = labels[e.state].cost
  BY <1>1
<1>4. Reads(RouteTo(e.state), e.state)
  BY <1>1, <1>2, RouteReads
<1>5. /\ IsVoyage(window, request, answer'.route)
      /\ answer'.route \in Seq(Legs)
      /\ answer'.route[Len(answer'.route)].node = request.goal
      /\ answer'.cost = Total(answer'.route)
  BY <1>1, <1>3, <1>4 DEF Reads
<1>6. ASSUME request.bucket = 1, NEW v \in Ends, Pursued(v),
             v.node = request.goal
      PROVE  answer'.cost <= v.cost
  BY <1>1, <1>3, <1>6, GoalPursued
<1>7. ASSUME request.bucket = 1, NEW cost \in CostsToGoal(window, request)
      PROVE  answer'.cost <= cost
  <2>1. PICK v \in Sailed(window, request)[LastTime + 1] :
          v.node = request.goal /\ cost = v.cost
    BY DEF CostsToGoal
  <2>2. v \in Ends /\ Pursued(v)
    BY <1>1, <1>7, SailedPursued
  <2> QED  BY <1>6, <1>7, <2>1, <2>2
<1>8. ASSUME request.bucket = 1, NEW track \in Seq(Legs),
             IsVoyage(window, request, track),
             track[Len(track)].node = request.goal
      PROVE  answer'.cost <= Total(track)
  <2> DEFINE v == EndAt(track, Len(track), Total(track))
  <2>1. v \in Ends /\ Pursued(v)
    BY <1>1, <1>8, VoyagePursued
  <2>2. v.node = request.goal /\ v.cost = Total(track)
    BY <1>8 DEF EndAt
  <2> HIDE DEF v
  <2> QED  BY <1>6, <1>8, <2>1, <2>2
<1>9. AnswerTyped'
  <2>1. request \in Requests /\ labels[e.state].cost \in Nat
    BY <1>1, <1>2 DEF SearchInv, SearchTypeOK
  <2>2. answer' \in Routes
    BY <1>1, <1>3, <1>5, <2>1 DEF Routes
  <2> QED  BY <1>1, <1>3, <2>1, <2>2 DEF AnswerTyped
<1>10. CheapestRoute'
  BY <1>1, <1>3, <1>5, <1>7 DEF CheapestRoute
<1>11. NoRouteIsMissed' /\ NoneIsOverlooked'
  BY <1>1, <1>3, <1>8 DEF NoRouteIsMissed, NoRouteMeansNone, NoneIsOverlooked
<1> QED  BY <1>9, <1>10, <1>11 DEF AnswerInv

LEMMA GiveUpAnswer ==
  ASSUME SearchInv, TreeInv, GiveUp
  PROVE  AnswerInv'
<1>1. /\ Searching /\ queue = {} /\ window' = window /\ request' = request
      /\ answer' = Raised("horizon") \/ answer' = Raised("no_route")
  BY DEF GiveUp, Done
<1>2. answer'.outcome \in {"horizon", "no_route"} /\ answer'.route = <<>>
  BY <1>1, RaisedIs
<1>3. ASSUME NEW v \in Ends, Pursued(v) PROVE v.node # request.goal
  BY <1>1, <1>3, GoalPursued
<1>4. request.bucket = 1 => CostsToGoal(window, request) = {}
  <2> SUFFICES ASSUME request.bucket = 1,
                      NEW v \in Sailed(window, request)[LastTime + 1]
               PROVE  v.node # request.goal
    BY DEF CostsToGoal
  <2>1. v \in Ends /\ Pursued(v)
    BY <1>1, SailedPursued
  <2> QED  BY <1>3, <2>1
<1>5. ASSUME request.bucket = 1, NEW track \in Seq(Legs),
             IsVoyage(window, request, track)
      PROVE  track[Len(track)].node # request.goal
  <2> DEFINE v == EndAt(track, Len(track), Total(track))
  <2>1. v \in Ends /\ Pursued(v)
    BY <1>1, <1>5, VoyagePursued
  <2>2. v.node = track[Len(track)].node
    BY DEF EndAt
  <2> HIDE DEF v
  <2> QED  BY <1>3, <2>1, <2>2
<1>6. AnswerTyped' /\ CheapestRoute'
  BY <1>2 DEF AnswerTyped, CheapestRoute
<1>7. NoRouteIsMissed' /\ NoneIsOverlooked'
  BY <1>1, <1>2, <1>4, <1>5 DEF NoRouteIsMissed, NoRouteMeansNone, NoneIsOverlooked
<1> QED  BY <1>6, <1>7 DEF AnswerInv

(* A voyage costs a natural number.                                        *)
LEMMA TotalIsNat ==
  ASSUME NEW route \in Seq(Legs)
  PROVE  Total(route) \in Nat
<1>1. PICK g : Adds(g, route) /\ Total(route) = g[Len(route)]
  BY TotalAdds
<1>2. Len(route) \in 0 .. Len(route)
  OBVIOUS
<1> QED  BY <1>1, <1>2 DEF Adds

LEMMA BeginAnswer ==
  ASSUME SearchInv, NEW r \in Requests, Begin(r) \/ Refuse(r)
  PROVE  AnswerInv'
<1>0. window \in Windows
  BY DEF SearchInv, SearchTypeOK
<1>1. \/ answer' = Pending
      \/ \E error \in {"invalid", "blocked", "hard", "uncovered", "unknown",
                       "cancelled"} : answer' = Raised(error)
      \/ /\ Begin(r) /\ {r.start, r.goal} \subseteq Nodes /\ r.start = r.goal
         /\ answer' = ZeroLength(r)
  <2>1. CASE Refuse(r)
    BY <2>1 DEF Refuse
  <2>2. CASE Begin(r)
    <3>1. r.start \in Nodes =>
            Inspect(window, r.start, r.departure)
              \in {"ok", "hard", "uncovered", "unknown"}
      BY <1>0, InspectionAssumption
    <3> QED  BY <2>2, <3>1 DEF Begin, AtOnce
  <2> QED  BY <2>1, <2>2
<1>2. CASE answer' = Pending
  BY <1>2, SilentInv DEF Pending, Nothing
<1>3. ASSUME NEW error \in {"invalid", "blocked", "hard", "uncovered", "unknown",
                            "cancelled"}, answer' = Raised(error)
      PROVE  AnswerInv'
  BY <1>3, RaisedIs, SilentInv
<1>4. CASE /\ Begin(r) /\ {r.start, r.goal} \subseteq Nodes /\ r.start = r.goal
           /\ answer' = ZeroLength(r)
  <2> DEFINE leg == [node |-> r.start, eta |-> r.departure, cost |-> 0]
  <2>1. window' = window /\ request' = r
    BY <1>4 DEF Begin
  <2>2. /\ answer'.outcome = "route" /\ answer'.route = <<leg>>
        /\ answer'.cost = 0
    BY <1>4 DEF ZeroLength
  <2>3. leg \in Legs
    BY <1>4, SearchAssumption DEF IsRequest, Legs
  <2>4. /\ <<leg>> \in Seq(Legs) /\ Len(<<leg>>) = 1 /\ <<leg>>[1] = leg
        /\ <<leg>> # <<>> /\ leg.node = r.goal /\ leg.cost = 0
    BY <1>4, <2>3
  <2> HIDE DEF leg
  <2>5. Total(<<leg>>) = 0
    BY <2>3, <2>4, TotalOfStart
  <2>6. IsVoyage(window, r, <<leg>>)
    <3>1. 1 .. Len(<<leg>>) - 1 = {}
      BY <2>4
    <3>2. leg = [node |-> r.start, eta |-> r.departure, cost |-> 0]
      BY DEF leg
    <3> QED  BY <2>4, <3>1, <3>2 DEF IsVoyage
  <2>7. ASSUME NEW cost \in CostsToGoal(window, r) PROVE 0 <= cost
    <3>1. PICK v \in Sailed(window, r)[LastTime + 1] : cost = v.cost
      BY DEF CostsToGoal
    <3>2. Sailed(window, r)[LastTime + 1] \in SUBSET Ends
      <4>1. /\ Sailed(window, r) \in [0 .. LastTime + 1 -> SUBSET Ends]
            /\ LastTime + 1 \in 0 .. LastTime + 1
        BY <1>0, <1>4, SailedUnfolds, RequestIs, SearchAssumption
      <4> QED  BY <4>1
    <3>3. v \in Ends
      BY <3>2
    <3> QED  BY <3>1, <3>3 DEF Ends
  <2>8. \A track \in Seq(Legs) : 0 <= Total(track)
    BY TotalIsNat
  <2>9. AnswerTyped'
    <3>1. answer' \in Routes
      BY <1>4, <2>2, <2>4 DEF ZeroLength, Routes
    <3> QED  BY <2>1, <2>2, <3>1 DEF AnswerTyped
  <2>10. CheapestRoute'
    BY <2>1, <2>2, <2>4, <2>5, <2>6, <2>7 DEF CheapestRoute
  <2>11. NoRouteIsMissed' /\ NoneIsOverlooked'
    BY <2>2, <2>8 DEF NoRouteIsMissed, NoRouteMeansNone, NoneIsOverlooked
  <2> QED  BY <2>9, <2>10, <2>11 DEF AnswerInv
<1> QED  BY <1>1, <1>2, <1>3, <1>4

LEMMA NextAnswer ==
  ASSUME SearchInv, TreeInv, AnswerInv, [Next]_vars
  PROVE  AnswerInv'
<1>1. ASSUME NEW r \in Requests, Begin(r) \/ Refuse(r) PROVE AnswerInv'
  BY <1>1, BeginAnswer
<1>2. CASE GiveUp
  BY <1>2, GiveUpAnswer
<1>3. ASSUME NEW e \in queue, Arrive(e) PROVE AnswerInv'
  BY <1>3, ArriveAnswer
<1>4. ASSUME NEW e \in queue, Discard(e) \/ Expand(e) PROVE AnswerInv'
  <2>1. answer' = Pending
    BY <1>4 DEF Discard, Expand, Current, Searching
  <2> QED  BY <2>1, SilentInv DEF Pending, Nothing
<1>5. ASSUME NEW e \in queue, Abort(e) \/ Overrun(e) PROVE AnswerInv'
  <2>1. answer' \in {Raised("unknown"), Raised("overrun")}
    BY <1>5 DEF Abort, Overrun, Done
  <2> QED  BY <2>1, RaisedIs, SilentInv
<1>6. CASE Cancel
  <2>1. answer' = Raised("cancelled")
    BY <1>6 DEF Cancel, Done
  <2> QED  BY <2>1, RaisedIs, SilentInv
<1>7. CASE Finished \/ UNCHANGED vars
  <2>1. answer' = answer /\ window' = window /\ request' = request
    BY <1>7 DEF Finished, vars
  <2> QED  BY <2>1 DEF AnswerInv, AnswerTyped, CheapestRoute, NoRouteIsMissed,
           NoRouteMeansNone, NoneIsOverlooked
<1> QED  BY <1>1, <1>2, <1>3, <1>4, <1>5, <1>6, <1>7 DEF Next, Step

LEMMA InitAnswer == Init => AnswerInv
BY DEF Init, Nothing, AnswerInv, AnswerTyped, CheapestRoute, NoRouteIsMissed,
   NoRouteMeansNone, NoneIsOverlooked

THEOREM AnswerInvariant == Spec => [](SearchInv /\ TreeInv /\ AnswerInv)
<1>1. Init => SearchInv /\ TreeInv /\ AnswerInv
  BY InitSearchInv, InitTree, InitAnswer
<1>2. SearchInv /\ TreeInv /\ AnswerInv /\ [Next]_vars
        => (SearchInv /\ TreeInv /\ AnswerInv)'
  BY NextSearchInv, NextTree, NextAnswer
<1> QED  BY <1>1, <1>2, PTL DEF Spec

(* plan(): what is answered is a voyage that was asked for, at the cost of *)
(* its edges, and with a bucket for every moment the enumeration of all    *)
(* voyages has no cheaper one.                                             *)
THEOREM AnswersAreCheapest == Spec => []CheapestRoute
<1>1. AnswerInv => CheapestRoute
  BY DEF AnswerInv
<1> QED  BY <1>1, AnswerInvariant, PTL

(* plan(): "no route" and "no complete route fits inside the available risk*)
(* time window" are said where the enumeration has none.                   *)
THEOREM NoRouteMissed == Spec => []NoRouteIsMissed
<1>1. AnswerInv => NoRouteIsMissed
  BY DEF AnswerInv
<1> QED  BY <1>1, AnswerInvariant, PTL

(* plan(): the same against any voyage, of any length, in any order.       *)
THEOREM NoVoyageOverlooked == Spec => []NoneIsOverlooked
<1>1. AnswerInv => NoneIsOverlooked
  BY DEF AnswerInv
<1> QED  BY <1>1, AnswerInvariant, PTL

(* _evaluate_edge(): every waypoint but the last is open water at its ETA. *)
THEOREM WaypointsOpen == Spec => []WaypointsNavigable
<1>1. ASSUME SearchInv, AnswerInv, NEW i \in 1 .. Len(answer.route) - 1
      PROVE  Inspect(window, answer.route[i].node, answer.route[i].eta) = "ok"
  <2> DEFINE route == answer.route
             b     == route[i + 1].node
             edge  == Traverse(window, route[i].node, b, route[i].eta,
                               HeadingAt(route, i), request.objective)
  <2>1. answer.outcome = "route" /\ route \in Seq(Legs)
    <3>1. CASE answer.outcome = "route"
      BY <1>1, <3>1 DEF AnswerInv, AnswerTyped, Routes
    <3>2. CASE answer.outcome # "route"
      <4>1. answer.route = <<>>
        BY <1>1, <3>2 DEF AnswerInv, AnswerTyped
      <4>2. 1 .. Len(answer.route) - 1 = {}
        BY <4>1
      <4> QED  BY <1>1, <4>2
    <3> QED  BY <3>1, <3>2
  <2>2. IsVoyage(window, request, route)
    BY <1>1, <2>1 DEF AnswerInv, CheapestRoute
  <2> HIDE DEF route
  <2>3. i \in 1 .. Len(route) - 1 /\ Len(route) \in Nat
    BY <1>1, <2>1 DEF route
  <2>4. /\ route[i] \in Legs
        /\ i # 1 => route[i - 1] \in Legs /\ i - 1 \in 1 .. Len(route) - 1
                    /\ (i - 1) + 1 = i
    BY <2>1, <2>3
  <2>5. \A j \in 1 .. Len(route) - 1 :
          route[j + 1].node \in Neighbors(route[j].node)
    BY <2>2 DEF IsVoyage
  <2>6. edge.verdict = "ok" /\ b \in Neighbors(route[i].node)
    BY <2>2, <2>3 DEF IsVoyage
  <2>7. HeadingAt(route, i) \in Headings
    <3>1. CASE i = 1
      BY <3>1 DEF HeadingAt, Headings
    <3>2. CASE i # 1
      <4>1. /\ route[i - 1].node \in Nodes
            /\ route[i].node \in Neighbors(route[i - 1].node)
        BY <2>4, <2>5, <3>2 DEF Legs
      <4> QED  BY <3>2, <4>1 DEF HeadingAt, Headings
    <3> QED  BY <3>1, <3>2
  <2>8. /\ route[i].node \in Nodes /\ route[i].eta \in Times
        /\ window \in Windows
    BY <1>1, <2>4 DEF Legs, SearchInv, SearchTypeOK
  <2>9. request.objective \in Objectives
    <3>1. request \in Requests
      BY <1>1, <2>1 DEF AnswerInv, AnswerTyped
    <3> QED  BY <3>1, SearchAssumption DEF IsRequest
  <2>10. Inspect(window, route[i].node, route[i].eta) = "ok"
    BY <2>6, <2>7, <2>8, <2>9, InspectionAssumption
  <2> QED  BY <2>10 DEF route
<1>2. SearchInv /\ AnswerInv => WaypointsNavigable
  BY <1>1 DEF WaypointsNavigable
<1> QED  BY <1>2, AnswerInvariant, PTL

-------------------------------------------------------------------------------
(* The services                                                            *)

Outcomes ==
  {"none", "pending", "route", "invalid", "blocked", "uncovered", "unknown",
   "cancelled", "overrun", "no_route", "horizon"}

(* Raised for the water at the start, it is what is there.                 *)
RefusedForReason ==
  /\ answer.outcome \in Outcomes
  /\ answer.outcome \in {"blocked", "uncovered"} =>
       /\ request \in Requests
       /\ Inspect(window, request.start, request.departure) # "ok"

LEMMA NextRefusal ==
  ASSUME SearchInv, RefusedForReason, [Next]_vars
  PROVE  RefusedForReason'
<1>1. ASSUME NEW r \in Requests, Begin(r) \/ Refuse(r) PROVE RefusedForReason'
  <2>1. CASE Refuse(r)
    BY <2>1 DEF Refuse, Raised, Nothing, RefusedForReason, Outcomes
  <2>2. CASE Begin(r)
    <3>1. request' = r /\ window' = window /\ answer' = AtOnce(r)
      BY <2>2 DEF Begin
    <3>2. ASSUME r.start \in Nodes
          PROVE  Inspect(window, r.start, r.departure)
                   \in {"ok", "hard", "uncovered", "unknown"}
      BY <3>2, InspectionAssumption DEF SearchInv, SearchTypeOK
    <3>3. \/ answer' \in {Pending, Raised("invalid"), Raised("unknown"),
                          ZeroLength(r)}
          \/ /\ answer' \in {Raised("blocked"), Raised("uncovered")}
             /\ Inspect(window, r.start, r.departure) # "ok"
      BY <3>1, <3>2 DEF AtOnce
    <3>4. answer' \in {Pending, Raised("invalid"), Raised("unknown"),
                       ZeroLength(r)} =>
            answer'.outcome \in {"pending", "invalid", "unknown", "route"}
      BY DEF Pending, Raised, ZeroLength, Nothing
    <3>5. answer' \in {Raised("blocked"), Raised("uncovered")} =>
            answer'.outcome \in {"blocked", "uncovered"}
      BY RaisedIs
    <3> QED  BY <3>1, <3>3, <3>4, <3>5 DEF RefusedForReason, Outcomes
  <2> QED  BY <1>1, <2>1, <2>2
<1>2. CASE GiveUp
  BY <1>2, RaisedIs DEF GiveUp, Done, RefusedForReason, Outcomes
<1>3. ASSUME NEW e \in queue, Arrive(e) PROVE RefusedForReason'
  <2>1. answer'.outcome = "route"
    BY <1>3 DEF Arrive, Done
  <2> QED  BY <2>1 DEF RefusedForReason, Outcomes
<1>4. ASSUME NEW e \in queue, Discard(e) \/ Expand(e) PROVE RefusedForReason'
  <2>1. answer' = Pending
    BY <1>4 DEF Discard, Expand, Current, Searching
  <2> QED  BY <2>1 DEF Pending, Nothing, RefusedForReason, Outcomes
<1>5. ASSUME NEW e \in queue, Abort(e) \/ Overrun(e) PROVE RefusedForReason'
  <2>1. answer' \in {Raised("unknown"), Raised("overrun")}
    BY <1>5 DEF Abort, Overrun, Done
  <2> QED  BY <2>1, RaisedIs DEF RefusedForReason, Outcomes
<1>6. CASE Cancel
  BY <1>6, RaisedIs DEF Cancel, Done, RefusedForReason, Outcomes
<1>7. CASE Finished \/ UNCHANGED vars
  BY <1>7 DEF Finished, vars, RefusedForReason
<1> QED  BY <1>1, <1>2, <1>3, <1>4, <1>5, <1>6, <1>7 DEF Next, Step

-------------------------------------------------------------------------------
(* A voyage goes on in time, away from where it departs and within its     *)
(* limit.                                                                  *)
LEMMA VoyageHeads ==
  ASSUME NEW w \in Windows, NEW r \in Requests, NEW route \in Seq(Legs),
         IsVoyage(w, r, route), NEW i \in 1 .. Len(route) - 1
  PROVE  /\ HeadingAt(route, i) \in Headings
         /\ route[i].node \in Nodes /\ route[i].eta \in Times
         /\ route[i + 1].node \in Neighbors(route[i].node)
         /\ route[i + 1].eta \in Times /\ route[i].eta < route[i + 1].eta
         /\ r.ceiling >= 0 => route[i + 1].eta - r.departure <= r.ceiling
<1>1. Len(route) \in Nat /\ i \in 1 .. Len(route) /\ i + 1 \in 1 .. Len(route)
  OBVIOUS
<1>2. route[i] \in Legs /\ route[i + 1] \in Legs
  BY <1>1
<1>3. \A j \in 1 .. Len(route) - 1 :
        route[j + 1].node \in Neighbors(route[j].node)
  BY DEF IsVoyage
<1>4. HeadingAt(route, i) \in Headings
  <2>1. CASE i = 1
    BY <2>1 DEF HeadingAt, Headings
  <2>2. CASE i # 1
    <3>1. i - 1 \in 1 .. Len(route) - 1 /\ (i - 1) + 1 = i
          /\ i - 1 \in 1 .. Len(route)
      BY <2>2
    <3>2. route[i - 1] \in Legs
      BY <3>1
    <3>3. route[i - 1].node \in Nodes /\ route[i].node \in Neighbors(route[i - 1].node)
      <4>1. route[(i - 1) + 1].node \in Neighbors(route[i - 1].node)
        BY <1>3, <3>1
      <4> QED  BY <3>1, <3>2, <4>1 DEF Legs
    <3> QED  BY <2>2, <3>3 DEF HeadingAt, Headings
  <2> QED  BY <2>1, <2>2
<1> DEFINE edge == Traverse(w, route[i].node, route[i + 1].node, route[i].eta,
                            HeadingAt(route, i), r.objective)
<1>5. /\ edge.verdict = "ok" /\ route[i + 1].eta = edge.arrival
      /\ r.ceiling >= 0 => edge.arrival - r.departure <= r.ceiling
  BY DEF IsVoyage
<1>6. r.objective \in Objectives
  BY SearchAssumption DEF IsRequest
<1>7. route[i].node \in Nodes /\ route[i].eta \in Times
  BY <1>2 DEF Legs
<1>8. edge.arrival \in Times /\ edge.arrival > route[i].eta
  BY <1>3, <1>4, <1>5, <1>6, <1>7, EdgeBoundAssumption
<1> HIDE DEF edge
<1> QED  BY <1>3, <1>4, <1>5, <1>7, <1>8, TimesAreNat

LEMMA VoyageRises ==
  ASSUME NEW w \in Windows, NEW r \in Requests, NEW route \in Seq(Legs),
         IsVoyage(w, r, route),
         NEW i \in 1 .. Len(route), NEW j \in 1 .. Len(route), i <= j
  PROVE  route[i].eta <= route[j].eta
<1> DEFINE T == {n \in Nat : i + n <= Len(route) => route[i].eta <= route[i + n].eta}
<1>0. \A k \in 1 .. Len(route) : route[k].eta \in Nat
  <2>1. \A k \in 1 .. Len(route) : route[k] \in Legs
    OBVIOUS
  <2> QED  BY <2>1, TimesAreNat DEF Legs
<1>1. 0 \in T
  BY <1>0
<1>2. ASSUME NEW n \in Nat, n \in T PROVE n + 1 \in T
  <2> SUFFICES ASSUME i + (n + 1) <= Len(route)
               PROVE  route[i].eta <= route[i + (n + 1)].eta
    OBVIOUS
  <2>1. i + n \in 1 .. Len(route) - 1 /\ (i + n) + 1 = i + (n + 1)
        /\ Len(route) \in Nat
    OBVIOUS
  <2>2. route[i].eta <= route[i + n].eta
    BY <1>2, <2>1
  <2>3. route[i + n].eta < route[(i + n) + 1].eta
    BY <2>1, VoyageHeads
  <2>4. /\ route[i].eta \in Nat /\ route[i + n].eta \in Nat
        /\ route[i + (n + 1)].eta \in Nat
    <3>1. i + n \in 1 .. Len(route) /\ i + (n + 1) \in 1 .. Len(route)
      BY <2>1
    <3> QED  BY <1>0, <3>1
  <2>5. route[(i + n) + 1] = route[i + (n + 1)]
    BY <2>1
  <2> HIDE DEF T
  <2> QED  BY <2>2, <2>3, <2>4, <2>5
<1>3. Nat \subseteq T
  <2> HIDE DEF T
  <2> QED  BY <1>1, <1>2, EveryNatural
<1>4. j - i \in Nat /\ i + (j - i) = j
  OBVIOUS
<1> QED  BY <1>3, <1>4

(* What one request can sail, another from the same place at the same time *)
(* can sail up to its own limit, whatever its objective.                   *)
LEMMA PrefixIsVoyage ==
  ASSUME NEW w \in Windows, NEW r \in Requests, NEW q \in Requests,
         q.start = r.start, q.departure = r.departure,
         NEW route \in Seq(Legs), IsVoyage(w, r, route),
         NEW m \in 1 .. Len(route),
         q.ceiling >= 0 => route[m].eta - q.departure <= q.ceiling
  PROVE  \E v \in Seq(Legs) : /\ IsVoyage(w, q, v)
                              /\ v[Len(v)].node = route[m].node
<1> DEFINE Edge(i) == Traverse(w, route[i].node, route[i + 1].node, route[i].eta,
                               HeadingAt(route, i), q.objective)
           v == [i \in 1 .. m |->
                   [node |-> route[i].node, eta |-> route[i].eta,
                    cost |-> IF i = 1 THEN 0 ELSE Edge(i - 1).cost]]
<1>1. /\ q.objective \in Objectives /\ r.objective \in Objectives
      /\ q.departure \in Nat /\ q.ceiling \in Int
  BY SearchAssumption, TimesAreNat DEF IsRequest
<1>2. ASSUME NEW i \in 1 .. Len(route) - 1
      PROVE  /\ Edge(i).verdict = "ok" /\ Edge(i).arrival = route[i + 1].eta
             /\ Edge(i).cost \in Nat
  <2> DEFINE edges == {Traverse(w, route[i].node, route[i + 1].node, route[i].eta,
                                HeadingAt(route, i), o) : o \in Objectives}
             e == Traverse(w, route[i].node, route[i + 1].node, route[i].eta,
                           HeadingAt(route, i), r.objective)
  <2>1. /\ HeadingAt(route, i) \in Headings
        /\ route[i].node \in Nodes /\ route[i].eta \in Times
        /\ route[i + 1].node \in Neighbors(route[i].node)
    BY VoyageHeads
  <2>2. e.verdict = "ok" /\ e.arrival = route[i + 1].eta
    BY DEF IsVoyage
  <2>3. e \in edges /\ Edge(i) \in edges
    BY <1>1
  <2>4. \A f, g \in edges :
          f.verdict = "ok" => g.verdict = "ok" /\ g.arrival = f.arrival
    BY <2>1, ObjectiveAssumption
  <2>5. Edge(i).verdict = "ok" /\ Edge(i).arrival = route[i + 1].eta
    <3> HIDE DEF e, edges, Edge
    <3> QED  BY <2>2, <2>3, <2>4
  <2>6. Edge(i).cost \in Nat
    BY <1>1, <2>1, <2>5, EdgeBoundAssumption
  <2> QED  BY <2>5, <2>6
<1> HIDE DEF Edge
<1>3. m \in Nat /\ Len(route) \in Nat /\ m <= Len(route)
  OBVIOUS
<1>4. ASSUME NEW i \in 1 .. m
      PROVE  /\ v[i] \in Legs /\ v[i].node = route[i].node
             /\ v[i].eta = route[i].eta
  <2>1. route[i] \in Legs
    BY <1>3
  <2>2. CASE i = 1
    BY <2>1, <2>2 DEF Legs
  <2>3. CASE i # 1
    <3>1. i - 1 \in 1 .. Len(route) - 1
      BY <1>3, <2>3
    <3> QED  BY <1>2, <2>1, <2>3, <3>1 DEF Legs
  <2> QED  BY <2>2, <2>3
<1>5. v \in Seq(Legs) /\ Len(v) = m
  <2>1. v \in [1 .. m -> Legs]
    BY <1>4
  <2> HIDE DEF v
  <2> QED  BY <1>3, <2>1
<1>6. v[1] = [node |-> q.start, eta |-> q.departure, cost |-> 0]
  <2>1. route[1] = [node |-> r.start, eta |-> r.departure, cost |-> 0]
    BY DEF IsVoyage
  <2>2. v[1] = [node |-> route[1].node, eta |-> route[1].eta, cost |-> 0]
    BY <1>3
  <2> HIDE DEF v
  <2> QED  BY <2>1, <2>2
<1>7. ASSUME NEW i \in 1 .. m - 1
      PROVE  /\ v[i].node = route[i].node /\ v[i].eta = route[i].eta
             /\ v[i + 1].node = route[i + 1].node
             /\ v[i + 1].eta = route[i + 1].eta
             /\ v[i + 1].cost = Edge(i).cost
             /\ HeadingAt(v, i) = HeadingAt(route, i)
             /\ route[i + 1].node \in Neighbors(route[i].node)
             /\ q.ceiling >= 0 => route[i + 1].eta - q.departure <= q.ceiling
             /\ i \in 1 .. Len(route) - 1
  <2>1. /\ i \in 1 .. m /\ i + 1 \in 1 .. m /\ i \in 1 .. Len(route) - 1
        /\ (i + 1) - 1 = i /\ i + 1 # 1 /\ i + 1 \in 1 .. Len(route)
        /\ i + 1 <= m
    BY <1>3
  <2>2. v[i + 1].cost = Edge(i).cost
    BY <2>1
  <2>3. i # 1 => i - 1 \in 1 .. m
    BY <1>3
  <2>4. \A j \in 1 .. m : v[j].node = route[j].node /\ v[j].eta = route[j].eta
    BY <1>4
  <2> HIDE DEF v
  <2>5. HeadingAt(v, i) = HeadingAt(route, i)
    BY <2>1, <2>3, <2>4 DEF HeadingAt
  <2>6. route[i + 1].eta <= route[m].eta
    BY <2>1, VoyageRises
  <2>7. route[i + 1].eta \in Nat /\ route[m].eta \in Nat
    <3>1. route[i + 1] \in Legs /\ route[m] \in Legs
      BY <2>1
    <3> QED  BY <3>1, TimesAreNat DEF Legs
  <2>8. route[i + 1].node \in Neighbors(route[i].node)
    BY <2>1, VoyageHeads
  <2> QED  BY <1>1, <2>1, <2>2, <2>4, <2>5, <2>6, <2>7, <2>8
<1>8. v # <<>> /\ v[m].node = route[m].node
  <2>1. v[m].node = route[m].node
    BY <1>3, <1>4
  <2> HIDE DEF v
  <2> QED  BY <1>3, <1>5, <2>1
<1>9. IsVoyage(w, q, v)
  <2> HIDE DEF v
  <2>1. ASSUME NEW i \in 1 .. Len(v) - 1
        PROVE  LET leg  == v[i + 1]
                   edge == Traverse(w, v[i].node, leg.node, v[i].eta,
                                    HeadingAt(v, i), q.objective)
               IN  /\ leg.node \in Neighbors(v[i].node)
                   /\ edge.verdict = "ok"
                   /\ q.ceiling >= 0 => edge.arrival - q.departure <= q.ceiling
                   /\ leg.eta = edge.arrival /\ leg.cost = edge.cost
    <3>1. i \in 1 .. m - 1
      BY <1>5
    <3>2. Traverse(w, v[i].node, v[i + 1].node, v[i].eta, HeadingAt(v, i),
                   q.objective) = Edge(i)
      BY <1>7, <3>1 DEF Edge
    <3>3. /\ Edge(i).verdict = "ok" /\ Edge(i).arrival = route[i + 1].eta
      BY <1>2, <1>7, <3>1
    <3> QED  BY <1>7, <3>1, <3>2, <3>3
  <2> QED  BY <1>6, <1>8, <2>1 DEF IsVoyage
<1> HIDE DEF v
<1> QED  BY <1>5, <1>8, <1>9

-------------------------------------------------------------------------------
(* Anchors                                                                 *)

LEMMA GreatestExists ==
  ASSUME NEW n \in Nat, NEW S \in SUBSET (1 .. n), S # {}
  PROVE  Max(S) \in S /\ \A y \in S : y <= Max(S)
<1> DEFINE T == {k \in Nat : \A R \in SUBSET (1 .. k) :
                   R # {} => \E x \in R : \A y \in R : x >= y}
<1>1. 0 \in T
  <2>1. 1 .. 0 = {}
    OBVIOUS
  <2> QED  BY <2>1
<1>2. ASSUME NEW k \in Nat, k \in T PROVE k + 1 \in T
  <2> SUFFICES ASSUME NEW R \in SUBSET (1 .. k + 1), R # {}
               PROVE  \E x \in R : \A y \in R : x >= y
    OBVIOUS
  <2>1. CASE k + 1 \in R
    BY <2>1
  <2>2. CASE k + 1 \notin R
    <3>1. R \in SUBSET (1 .. k)
      BY <2>2
    <3> QED  BY <1>2, <3>1
  <2> QED  BY <2>1, <2>2
<1>3. Nat \subseteq T
  <2> HIDE DEF T
  <2> QED  BY <1>1, <1>2, EveryNatural
<1>4. \E x \in S : \A y \in S : x >= y
  BY <1>3
<1>5. Max(S) \in S /\ \A y \in S : Max(S) >= y
  BY <1>4, Zenon DEF Max
<1>6. \A y \in S : y \in Int
  OBVIOUS
<1> QED  BY <1>5, <1>6

LEMMA Least2Is ==
  ASSUME NEW i \in Int, NEW j \in Int
  PROVE  Least2(i, j) = IF i <= j THEN i ELSE j
<1> DEFINE m == Least2(i, j)
<1>1. \E x \in {i, j} : \A y \in {i, j} : x <= y
  <2>1. CASE i <= j
    BY <2>1
  <2>2. CASE ~(i <= j)
    BY <2>2
  <2> QED  BY <2>1, <2>2
<1>2. m \in {i, j} /\ \A y \in {i, j} : m <= y
  BY <1>1, Zenon DEF Min, Least2
<1> HIDE DEF m
<1>3. m = IF i <= j THEN i ELSE j
  BY <1>2
<1> QED  BY <1>3 DEF m

(* The service and the contract find the same anchor, each in its way.     *)
LEMMA AnchorsAgree ==
  ASSUME NEW route \in Seq(Legs), Len(route) >= 1,
         route[Len(route)].node # route[1].node, NEW cutoff \in Int
  PROVE  /\ ReferenceAnchors(route, cutoff) = Anchors(route, cutoff)
         /\ Anchors(route, cutoff) # {} =>
              LET m == Max(Anchors(route, cutoff))
              IN  /\ m \in 2 .. Len(route)
                  /\ route[m].node # route[1].node /\ route[m].eta <= cutoff
<1> DEFINE L == Len(route)
           S == NonStart(route)
           A == Anchors(route, cutoff)
<1>1. L \in Nat /\ L >= 2 /\ L \in S /\ S \in SUBSET (1 .. L) /\ S # {}
  <2>1. L \in Nat /\ L # 1
    OBVIOUS
  <2> QED  BY <2>1 DEF NonStart
<1>2. Max(S) = L
  <2>1. Max(S) \in S /\ L <= Max(S)
    <3> HIDE DEF S, L
    <3> QED  BY <1>1, GreatestExists
  <2>2. Max(S) \in 1 .. L
    BY <1>1, <2>1
  <2> HIDE DEF S, L
  <2> QED  BY <1>1, <2>1, <2>2
<1>3. A = IF route[L].eta <= cutoff THEN {L}
          ELSE {i \in S : route[i].eta <= cutoff}
  BY <1>1 DEF Anchors, StopsUntil, Last
<1>4. ReferenceAnchors(route, cutoff) = A
  <2>1. ReferenceAnchors(route, cutoff) =
          IF S # {} /\ route[Max(S)].eta <= cutoff THEN {Max(S)}
          ELSE {i \in S : route[i].eta <= cutoff}
    BY DEF ReferenceAnchors
  <2> HIDE DEF S, L, A
  <2> QED  BY <1>1, <1>2, <1>3, <2>1
<1>5. A \in SUBSET S /\ \A i \in A : route[i].eta <= cutoff
  <2> HIDE DEF S, L, A
  <2> QED  BY <1>1, <1>3
<1>6. ASSUME A # {}
      PROVE  /\ Max(A) \in 2 .. L
             /\ route[Max(A)].node # route[1].node /\ route[Max(A)].eta <= cutoff
  <2>1. Max(A) \in A
    <3> HIDE DEF S, L, A
    <3> QED  BY <1>1, <1>5, <1>6, GreatestExists
  <2>2. Max(A) \in S
    <3> HIDE DEF S, L, A
    <3> QED  BY <1>5, <2>1
  <2>3. route[Max(A)].eta <= cutoff
    <3> HIDE DEF S, L, A
    <3> QED  BY <1>5, <2>1
  <2> HIDE DEF A
  <2> QED  BY <2>2, <2>3 DEF NonStart
<1> HIDE DEF A, L
<1>7. A = Anchors(route, cutoff) /\ L = Len(route)
  BY DEF A, L
<1> QED  BY <1>4, <1>6, <1>7

LEMMA LayerTable ==
  /\ \A k \in 1 .. 3 : LayerAt(k) = "full_voyage"
  /\ \A k \in 4 .. 6 : LayerAt(k) = "main_corridor"
  /\ \A k \in 7 .. 9 : LayerAt(k) = "rolling"
  /\ \A k \in 10 .. 12 : LayerAt(k) = "executable"
  /\ \A k \in {1, 4, 7, 10} : ModeAt(k) = "fastest"
  /\ \A k \in {2, 5, 8, 11} : ModeAt(k) = "low_risk"
  /\ \A k \in {3, 6, 9, 12} : ModeAt(k) = "recommended"
BY DEF LayerAt, ModeAt, Layers, Modes

LEMMA ShorterIs == ShorterLayers = {"main_corridor", "rolling", "executable"}
BY DEF ShorterLayers, Layers
-------------------------------------------------------------------------------
(* What was planned so far is what was asked for.                          *)

Asked(k) == LayerRequest(LayerAt(k), ModeAt(k))

Sound(k) ==
  /\ IsVoyage(window, Asked(k), planned[k].route)
  /\ planned[k].route[Len(planned[k].route)].node = LayerGoal(LayerAt(k))

Accepted == voyage \in Voyages /\ voyage.elapsed <= SearchLimit

Underway == stage \in {"asking", "awaiting"}

ServiceInv ==
  /\ planned \in Seq(Routes) /\ Len(planned) <= 12
  /\ Planning \/ planned # <<>> => Accepted
  /\ \A k \in 1 .. Len(planned) : Sound(k)
  /\ \A k \in 4 .. Len(planned) : Materializable(LayerAt(k))
  /\ Underway => /\ Len(planned) < 12
                 /\ Len(planned) >= 3 => Materializable(LayerAt(Len(planned) + 1))
  /\ stage = "layered" => Len(planned) \in {3, 6, 9, 12}
  /\ stage = "awaiting" => request = Asked(Len(planned) + 1)

LEMMA FullAsked ==
  ASSUME Accepted, NEW k \in 1 .. 3
  PROVE  /\ Asked(k) \in Requests /\ LayerElapsed(LayerAt(k)) \in Nat
         /\ LayerGoal(LayerAt(k)) = voyage.goal /\ voyage.goal # voyage.start
<1>1. LayerAt(k) = "full_voyage"
  BY LayerTable
<1>2. ModeAt(k) = Modes[k]
  BY LayerTable DEF Modes
<1>3. /\ voyage.elapsed \in 0 .. SearchLimit /\ voyage.goal # voyage.start
  BY LayerAssumption DEF Accepted
<1>4. Asked(k) = [start |-> voyage.start, goal |-> voyage.goal,
                  departure |-> voyage.departure, objective |-> Modes[k],
                  bucket |-> voyage.bucket, ceiling |-> voyage.elapsed,
                  limit |-> Limit]
  BY <1>1, <1>2 DEF Asked, LayerRequest, LayerGoal, LayerElapsed
<1>5. Asked(k) \in Requests
  BY <1>3, <1>4, AskedAssumption DEF Accepted
<1> QED  BY <1>1, <1>3, <1>5 DEF LayerGoal, LayerElapsed

(* The recommended full voyage, which the others follow.                   *)
LEMMA ReferenceIs ==
  ASSUME window \in Windows, ServiceInv, Len(planned) >= 3
  PROVE  /\ Accepted
         /\ Reference \in Seq(Legs) /\ Len(Reference) >= 2
         /\ IsVoyage(window, Asked(3), Reference)
         /\ Asked(3) \in Requests /\ Asked(3).start = voyage.start
         /\ Asked(3).departure = voyage.departure
         /\ Reference[1].node = voyage.start
         /\ Reference[1].eta = voyage.departure
         /\ Reference[Len(Reference)].node = voyage.goal
         /\ voyage.goal # voyage.start
         /\ voyage.departure \in Nat
         /\ \A i \in 1 .. Len(Reference) :
              /\ Reference[i].node \in Nodes /\ Reference[i].eta \in Nat
              /\ voyage.departure <= Reference[i].eta
              /\ Reference[i].eta <= Reference[Len(Reference)].eta
              /\ Reference[i].eta - voyage.departure <= voyage.elapsed
<1>1. Accepted
  <2>1. planned # <<>>
    BY DEF ServiceInv
  <2> QED  BY <2>1 DEF ServiceInv
<1>2. 3 \in 1 .. Len(planned) /\ planned[3] \in Routes
  BY DEF ServiceInv
<1>3. Reference \in Seq(Legs)
  BY <1>2 DEF Routes, Reference
<1>4. /\ Asked(3) \in Requests /\ LayerGoal(LayerAt(3)) = voyage.goal
      /\ voyage.goal # voyage.start
  BY <1>1, FullAsked
<1>5. Asked(3).start = voyage.start /\ Asked(3).departure = voyage.departure
  BY DEF Asked, LayerRequest
<1>6. /\ IsVoyage(window, Asked(3), Reference)
      /\ Reference[Len(Reference)].node = voyage.goal
  BY <1>2, <1>4 DEF ServiceInv, Sound, Reference
<1>7. /\ Reference # <<>>
      /\ Reference[1] = [node |-> voyage.start, eta |-> voyage.departure,
                         cost |-> 0]
  BY <1>5, <1>6 DEF IsVoyage
<1>8. /\ Reference[1].node = voyage.start /\ Reference[1].eta = voyage.departure
  BY <1>7
<1>9. Len(Reference) >= 2
  <2>1. Len(Reference) # 1
    BY <1>4, <1>6, <1>8
  <2>2. Len(Reference) \in Nat /\ Len(Reference) # 0
    <3>1. Reference # <<>>
      BY <1>7
    <3> HIDE DEF Reference
    <3> QED  BY <1>3, <3>1
  <2>3. \A n \in Nat : n # 0 /\ n # 1 => n >= 2
    OBVIOUS
  <2> QED  BY <2>1, <2>2, <2>3
<1>10. voyage.departure \in Nat
  BY <1>4, <1>5, SearchAssumption, TimesAreNat DEF IsRequest
<1>11. ASSUME NEW i \in 1 .. Len(Reference)
       PROVE  /\ Reference[i].node \in Nodes /\ Reference[i].eta \in Nat
              /\ voyage.departure <= Reference[i].eta
              /\ Reference[i].eta <= Reference[Len(Reference)].eta
              /\ Reference[i].eta - voyage.departure <= voyage.elapsed
  <2>1. Reference[i] \in Legs
    BY <1>3
  <2>2. Reference[i].node \in Nodes /\ Reference[i].eta \in Nat
    BY <2>1, TimesAreNat DEF Legs
  <2>3. 1 \in 1 .. Len(Reference) /\ Len(Reference) \in 1 .. Len(Reference)
        /\ 1 <= i /\ i <= Len(Reference)
    BY <1>3, <1>9
  <2>4. Reference[1].eta <= Reference[i].eta
    BY <1>3, <1>4, <1>6, <2>3, VoyageRises
  <2>5. Reference[i].eta <= Reference[Len(Reference)].eta
    BY <1>3, <1>4, <1>6, <2>3, VoyageRises
  <2>6. Asked(3).ceiling = voyage.elapsed /\ voyage.elapsed \in Nat
    BY <1>1, LayerTable, LayerAssumption
       DEF Asked, LayerRequest, LayerElapsed, Accepted
  <2>7. CASE i = 1
    <3>1. Reference[i].eta - voyage.departure = 0
      BY <1>8, <1>10, <2>7
    <3> QED  BY <1>8, <2>2, <2>4, <2>5, <2>6, <3>1
  <2>8. CASE i # 1
    <3>1. i - 1 \in 1 .. Len(Reference) - 1 /\ (i - 1) + 1 = i
      BY <2>3, <2>8
    <3>2. Asked(3).ceiling >= 0 =>
            Reference[(i - 1) + 1].eta - Asked(3).departure <= Asked(3).ceiling
      BY <1>3, <1>4, <1>6, <3>1, VoyageHeads
    <3> QED  BY <1>5, <1>8, <2>2, <2>4, <2>5, <2>6, <3>1, <3>2
  <2> QED  BY <1>8, <2>2, <2>4, <2>5, <2>7, <2>8
<1> QED  BY <1>1, <1>3, <1>4, <1>5, <1>6, <1>8, <1>9, <1>10, <1>11

(* A shorter layer's goal is on the way, within its limit and not behind.  *)
LEMMA ShorterAsked ==
  ASSUME window \in Windows, ServiceInv, Len(planned) >= 3,
         NEW k \in 4 .. 12, Materializable(LayerAt(k))
  PROVE  /\ Asked(k) \in Requests /\ LayerElapsed(LayerAt(k)) \in Nat
         /\ LayerGoal(LayerAt(k)) # voyage.start
         /\ \E m \in 1 .. Len(Reference) :
              /\ m = Max(Anchors(Reference, CutoffTime(LayerAt(k))))
              /\ Reference[m].node = LayerGoal(LayerAt(k))
              /\ Reference[m].eta - voyage.departure <= LayerElapsed(LayerAt(k))
<1> DEFINE layer == LayerAt(k)
           cutoff == CutoffTime(layer)
           m == Max(Anchors(Reference, cutoff))
           end == Reference[Len(Reference)].eta
<1>1. layer \in ShorterLayers /\ layer # "full_voyage"
  BY LayerTable, ShorterIs
<1>2. Cutoffs[layer] \in Nat
  BY <1>1, LayerAssumption
<1>3. cutoff \in Int /\ cutoff = voyage.departure + Cutoffs[layer]
  BY <1>2, ReferenceIs DEF CutoffTime
<1>4. /\ m \in 2 .. Len(Reference)
      /\ Reference[m].node # Reference[1].node /\ Reference[m].eta <= cutoff
  <2>1. Anchors(Reference, cutoff) # {}
    BY DEF Materializable
  <2>2. /\ Reference \in Seq(Legs) /\ Len(Reference) >= 1
        /\ Reference[Len(Reference)].node # Reference[1].node
    BY ReferenceIs
  <2> HIDE DEF cutoff
  <2> QED  BY <1>3, <2>1, <2>2, AnchorsAgree
<1>5. LayerGoal(layer) = Reference[m].node
  BY <1>1 DEF LayerGoal
<1>6. voyage.elapsed \in Nat /\ voyage.elapsed <= SearchLimit /\ SearchLimit \in Nat
  BY ReferenceIs, LayerAssumption DEF Accepted
<1>7. /\ voyage.departure \in Nat /\ end \in Nat /\ voyage.departure <= end
      /\ Len(Reference) \in Nat /\ m \in 1 .. Len(Reference)
      /\ Reference[m].node \in Nodes /\ Reference[m].eta \in Nat
      /\ Reference[m].eta <= end
      /\ Reference[m].eta - voyage.departure <= voyage.elapsed
  <2>1. Len(Reference) \in 1 .. Len(Reference) /\ Len(Reference) \in Nat
    BY ReferenceIs
  <2>2. m \in 1 .. Len(Reference)
    BY <1>4, <2>1
  <2> HIDE DEF m
  <2> QED  BY <2>1, <2>2, ReferenceIs
<1>8. LayerElapsed(layer) =
        Least2(Least2(voyage.elapsed, Cutoffs[layer]), end - voyage.departure)
  BY <1>1 DEF LayerElapsed, Last
<1> HIDE DEF layer, cutoff, m, end
<1>9. LET c == Least2(voyage.elapsed, Cutoffs[layer])
      IN  c = IF voyage.elapsed <= Cutoffs[layer] THEN voyage.elapsed
              ELSE Cutoffs[layer]
  BY <1>2, <1>6, Least2Is
<1>10. /\ LayerElapsed(layer) \in 0 .. SearchLimit
       /\ \/ LayerElapsed(layer) = voyage.elapsed
          \/ LayerElapsed(layer) = Cutoffs[layer]
          \/ LayerElapsed(layer) = end - voyage.departure
  <2>1. Least2(voyage.elapsed, Cutoffs[layer]) \in Nat
        /\ Least2(voyage.elapsed, Cutoffs[layer]) <= voyage.elapsed
    BY <1>2, <1>6, <1>9
  <2>2. end - voyage.departure \in Nat
    BY <1>7
  <2>3. LayerElapsed(layer) \in {Least2(voyage.elapsed, Cutoffs[layer]),
                                 end - voyage.departure}
        /\ LayerElapsed(layer) <= Least2(voyage.elapsed, Cutoffs[layer])
    BY <1>8, <2>1, <2>2, Least2Is
  <2> QED  BY <1>2, <1>6, <1>9, <2>1, <2>2, <2>3
<1>11. Reference[m].eta - voyage.departure <= LayerElapsed(layer)
  BY <1>2, <1>3, <1>4, <1>6, <1>7, <1>10
<1>12. LayerElapsed(layer) \in Nat /\ LayerGoal(layer) \in Nodes
       /\ LayerGoal(layer) # voyage.start
  BY <1>4, <1>5, <1>6, <1>7, <1>10, ReferenceIs
<1>13. Asked(k) \in Requests
  <2>1. PICK i \in 1 .. 3 : ModeAt(k) = Modes[i]
    <3>1. ModeAt(k) \in {"fastest", "low_risk", "recommended"}
      BY LayerTable
    <3> QED  BY <3>1 DEF Modes
  <2>2. Asked(k) = [start |-> voyage.start, goal |-> LayerGoal(layer),
                    departure |-> voyage.departure, objective |-> Modes[i],
                    bucket |-> voyage.bucket, ceiling |-> LayerElapsed(layer),
                    limit |-> Limit]
    BY <2>1 DEF Asked, LayerRequest, layer
  <2>3. voyage \in Voyages
    BY ReferenceIs DEF Accepted
  <2> QED  BY <1>10, <1>12, <2>2, <2>3, AskedAssumption
<1> QED  BY <1>5, <1>7, <1>11, <1>12, <1>13 DEF layer, m, cutoff
-------------------------------------------------------------------------------
(* What the services do to the search is what the search allows.           *)
LEMMA NextAsked ==
  ASSUME window \in Windows, ServiceInv, Underway
  PROVE  /\ Len(planned) + 1 \in 1 .. 12 /\ Asked(Len(planned) + 1) \in Requests
         /\ LayerGoal(LayerAt(Len(planned) + 1)) # voyage.start
         /\ Len(planned) >= 3 => Materializable(LayerAt(Len(planned) + 1))
<1>1. Len(planned) \in Nat /\ Len(planned) < 12
      /\ (Len(planned) >= 3 => Materializable(LayerAt(Len(planned) + 1)))
  BY DEF ServiceInv
<1>2. Accepted
  BY DEF ServiceInv, Underway, Planning
<1>3. CASE Len(planned) < 3
  <2>1. Len(planned) + 1 \in 1 .. 3
    BY <1>1, <1>3
  <2>2. Len(planned) + 1 \in 1 .. 12
    BY <2>1
  <2> QED  BY <1>1, <1>2, <2>1, <2>2, FullAsked
<1>4. CASE Len(planned) >= 3
  <2>1. Len(planned) + 1 \in 4 .. 12 /\ Len(planned) + 1 \in 1 .. 12
    BY <1>1, <1>4
  <2> QED  BY <1>1, <1>4, <2>1, ShorterAsked
<1> QED  BY <1>1, <1>3, <1>4

LEMMA ServiceSteps ==
  ASSUME window \in Windows, ServiceInv, [VoyagesNext]_allVars
  PROVE  [Next]_vars /\ window' = window
<1>1. ASSUME NEW r \in Requests, Begin(r) \/ Refuse(r)
      PROVE  Next /\ window' = window
  BY <1>1 DEF Begin, Refuse, Next
<1>2. CASE Ask
  <2>1. PICK r \in {Asked(Len(planned) + 1)} : Begin(r) \/ Refuse(r)
    BY <1>2 DEF Ask, Asked
  <2>2. r \in Requests
    BY <1>2, <2>1, NextAsked DEF Ask, Underway
  <2> QED  BY <1>1, <2>1, <2>2
<1>3. CASE Step \/ Cancel
  <2>1. window' = window
    BY <1>3 DEF Step, Cancel, GiveUp, Discard, Abort, Expand, Arrive, Overrun, Done
  <2> QED  BY <1>3, <2>1 DEF Next
<1>4. CASE UNCHANGED vars
  BY <1>4 DEF vars
<1> QED
  BY <1>2, <1>3, <1>4
     DEF VoyagesNext, Execute, Run, Fail, Collect, Review, Overtaken, Rest, allVars

-------------------------------------------------------------------------------
(* A result, as the contract looks at it.                                  *)
LEMMA ResultIs ==
  ASSUME window \in Windows, ServiceInv, NEW k \in 1 .. Len(planned),
         Len(planned) >= 3
  PROVE  LET route == planned[k].route
         IN  /\ route \in Seq(Legs) /\ Len(route) >= 2
             /\ route[1].node = voyage.start /\ route[1].eta = voyage.departure
             /\ route[Len(route)].node = LayerGoal(LayerAt(k))
             /\ route[Len(route)].eta
                  <= voyage.departure + LayerElapsed(LayerAt(k))
             /\ \A i \in 2 .. Len(route) : route[i - 1].eta < route[i].eta
<1> DEFINE route == planned[k].route
           L == Len(route)
<1>1. k \in 1 .. 12 /\ Len(planned) \in Nat /\ k <= Len(planned)
  BY DEF ServiceInv
<1>2. /\ Asked(k) \in Requests /\ LayerElapsed(LayerAt(k)) \in Nat
      /\ LayerGoal(LayerAt(k)) # voyage.start
  <2>1. CASE k \in 1 .. 3
    BY <2>1, FullAsked, ReferenceIs
  <2>2. CASE k \notin 1 .. 3
    <3>1. k \in 4 .. 12 /\ Materializable(LayerAt(k))
      BY <1>1, <2>2 DEF ServiceInv
    <3> QED  BY <3>1, ShorterAsked
  <2> QED  BY <2>1, <2>2
<1>3. route \in Seq(Legs)
  <2>1. planned[k] \in Routes
    BY DEF ServiceInv
  <2> QED  BY <2>1 DEF Routes
<1>4. /\ IsVoyage(window, Asked(k), route)
      /\ route[L].node = LayerGoal(LayerAt(k))
  BY DEF ServiceInv, Sound
<1>5. /\ Asked(k).start = voyage.start /\ Asked(k).departure = voyage.departure
      /\ Asked(k).ceiling = LayerElapsed(LayerAt(k))
  BY DEF Asked, LayerRequest
<1>6. route # <<>> /\ route[1].node = voyage.start
      /\ route[1].eta = voyage.departure
  BY <1>4, <1>5 DEF IsVoyage
<1> HIDE DEF route
<1>7. L \in Nat /\ L >= 2
  <2>1. L \in Nat /\ L # 0
    BY <1>3, <1>6
  <2>2. L # 1
    BY <1>2, <1>4, <1>6
  <2>3. \A n \in Nat : n # 0 /\ n # 1 => n >= 2
    OBVIOUS
  <2> QED  BY <2>1, <2>2, <2>3
<1>8. ASSUME NEW i \in 2 .. L
      PROVE  /\ route[i - 1].eta < route[i].eta /\ route[i].eta \in Nat
             /\ route[i].eta - voyage.departure <= LayerElapsed(LayerAt(k))
  <2>1. i - 1 \in 1 .. Len(route) - 1 /\ (i - 1) + 1 = i
    BY <1>7
  <2>2. /\ route[(i - 1) + 1].eta \in Times
        /\ route[i - 1].eta < route[(i - 1) + 1].eta
        /\ Asked(k).ceiling >= 0 =>
             route[(i - 1) + 1].eta - Asked(k).departure <= Asked(k).ceiling
    BY <1>2, <1>3, <1>4, <2>1, VoyageHeads
  <2>3. route[(i - 1) + 1] = route[i]
    BY <2>1
  <2>4. route[i].eta \in Nat
    BY <2>2, <2>3, TimesAreNat
  <2>5. LayerElapsed(LayerAt(k)) >= 0
    BY <1>2
  <2> QED  BY <1>5, <2>2, <2>3, <2>4, <2>5
<1>9. voyage.departure \in Nat
  BY ReferenceIs
<1>10. route[L].eta <= voyage.departure + LayerElapsed(LayerAt(k))
  <2>1. L \in 2 .. L
    BY <1>7
  <2>2. route[L].eta \in Nat
        /\ route[L].eta - voyage.departure <= LayerElapsed(LayerAt(k))
    BY <1>8, <2>1
  <2> QED  BY <1>2, <1>9, <2>2
<1>11. \A i \in 2 .. L : route[i - 1].eta < route[i].eta
  BY <1>8
<1>12. /\ route \in Seq(Legs) /\ Len(route) >= 2
       /\ route[1].node = voyage.start /\ route[1].eta = voyage.departure
       /\ route[Len(route)].node = LayerGoal(LayerAt(k))
       /\ route[Len(route)].eta <= voyage.departure + LayerElapsed(LayerAt(k))
       /\ \A i \in 2 .. Len(route) : route[i - 1].eta < route[i].eta
  BY <1>3, <1>4, <1>6, <1>7, <1>10, <1>11
<1> QED  BY <1>12 DEF route
-------------------------------------------------------------------------------
(* What the services and the contract check.                               *)
LEMMA ResultsAsAsked ==
  ASSUME window \in Windows, ServiceInv, stage = "layered"
  PROVE  AsAsked(planned)
<1>1. Len(planned) \in {3, 6, 9, 12}
  BY DEF ServiceInv
<1>2. ASSUME NEW k \in Len(planned) - 2 .. Len(planned)
      PROVE  k \in 1 .. Len(planned) /\ LayerAt(k) = LayerAt(Len(planned))
  <2>1. k \in 1 .. Len(planned)
    <3>1. Len(planned) \in Nat /\ Len(planned) - 2 >= 1
      <4>1. \A n \in {3, 6, 9, 12} : n \in Nat /\ n - 2 >= 1
        OBVIOUS
      <4> QED  BY <1>1, <4>1
    <3> QED  BY <1>2, <3>1
  <2>2. CASE Len(planned) = 3
    <3>1. k \in 1 .. 3 /\ 3 \in 1 .. 3
      BY <2>2
    <3> QED  BY <2>1, <2>2, <3>1, LayerTable
  <2>3. CASE Len(planned) = 6
    <3>1. k \in 4 .. 6 /\ 6 \in 4 .. 6
      BY <2>3
    <3> QED  BY <2>1, <2>3, <3>1, LayerTable
  <2>4. CASE Len(planned) = 9
    <3>1. k \in 7 .. 9 /\ 9 \in 7 .. 9
      BY <2>4
    <3> QED  BY <2>1, <2>4, <3>1, LayerTable
  <2>5. CASE Len(planned) = 12
    <3>1. k \in 10 .. 12 /\ 12 \in 10 .. 12
      BY <2>5
    <3> QED  BY <2>1, <2>5, <3>1, LayerTable
  <2> QED  BY <1>1, <2>2, <2>3, <2>4, <2>5
<1>3. ASSUME NEW k \in Len(planned) - 2 .. Len(planned)
      PROVE  /\ planned[k].route[1].node = voyage.start
             /\ Last(planned[k].route).node = LayerGoal(LayerAt(Len(planned)))
             /\ Last(planned[k].route).eta
                  <= voyage.departure + LayerElapsed(LayerAt(Len(planned)))
  <2>1. k \in 1 .. Len(planned) /\ Len(planned) >= 3
    BY <1>1, <1>2
  <2>2. LayerAt(Len(planned)) = LayerAt(k)
    BY <1>2
  <2> QED  BY <2>1, <2>2, ResultIs DEF Last
<1> QED  BY <1>3 DEF AsAsked

(* The focus window of a layer lies within the voyage, and is what the     *)
(* contract expects.                                                       *)
LEMMA FocusIs ==
  ASSUME window \in Windows, ServiceInv, Len(planned) >= 3,
         NEW layer \in {Layers[i] : i \in 1 .. 4}
  PROVE  LET end      == Last(Reference).eta
             focus    == Focus(layer, end)
             expected == ExpectedWindow(layer, end)
         IN  /\ focus = <<expected.from, expected.until>>
             /\ voyage.departure <= focus[1] /\ focus[1] <= focus[2]
<1> DEFINE end == Last(Reference).eta
           dep == voyage.departure
           At(l) == Least2(dep + Cutoffs[l], end)
<1>1. dep \in Nat /\ end \in Nat /\ dep <= end
  <2>1. Len(Reference) \in 1 .. Len(Reference)
    BY ReferenceIs
  <2> QED  BY <2>1, ReferenceIs DEF Last
<1>2. \A l \in ShorterLayers : Cutoffs[l] \in Nat /\ CutoffTime(l) = dep + Cutoffs[l]
  BY LayerAssumption DEF CutoffTime
<1>3. Cutoffs["rolling"] < Cutoffs["main_corridor"]
  BY LayerAssumption DEF Layers
<1> HIDE DEF end, dep
<1>4. \A l \in ShorterLayers :
        At(l) = IF dep + Cutoffs[l] <= end THEN dep + Cutoffs[l] ELSE end
  <2> SUFFICES ASSUME NEW l \in ShorterLayers
               PROVE  At(l) = IF dep + Cutoffs[l] <= end
                                THEN dep + Cutoffs[l] ELSE end
    OBVIOUS
  <2>1. dep + Cutoffs[l] \in Int /\ end \in Int
    BY <1>1, <1>2
  <2> QED  BY <2>1, Least2Is
<1>5. layer \in ShorterLayers \/ layer = "full_voyage"
  BY DEF ShorterLayers, Layers
<1>6. CASE layer = "full_voyage"
  <2>1. Focus(layer, end) = <<dep, end>>
    BY <1>6 DEF Focus, dep
  <2>2. ExpectedWindow(layer, end) = [from |-> dep, until |-> end]
    BY <1>6 DEF ExpectedWindow, dep
  <2> QED  BY <1>1, <2>1, <2>2 DEF end, dep
<1>7. CASE layer = "main_corridor"
  <2>1. Focus(layer, end) = <<At("rolling"), At("main_corridor")>>
    BY <1>7 DEF Focus, dep
  <2>2. "rolling" \in ShorterLayers /\ "main_corridor" \in ShorterLayers
    BY ShorterIs
  <2>3. ExpectedWindow(layer, end) = [from |-> At("rolling"),
                                      until |-> At("main_corridor")]
    BY <1>2, <1>7, <2>2 DEF ExpectedWindow
  <2>4. dep <= At("rolling") /\ At("rolling") <= At("main_corridor")
    <3>1. /\ At("rolling") = IF dep + Cutoffs["rolling"] <= end
                               THEN dep + Cutoffs["rolling"] ELSE end
          /\ At("main_corridor") = IF dep + Cutoffs["main_corridor"] <= end
                                     THEN dep + Cutoffs["main_corridor"] ELSE end
          /\ Cutoffs["rolling"] \in Nat /\ Cutoffs["main_corridor"] \in Nat
      BY <1>2, <1>4, <2>2
    <3> HIDE DEF At
    <3> QED  BY <1>1, <1>3, <3>1
  <2> HIDE DEF At
  <2> QED  BY <2>1, <2>3, <2>4 DEF end, dep
<1>8. CASE layer \in {"rolling", "executable"}
  <2>1. Focus(layer, end) = <<dep, At(layer)>>
    BY <1>8 DEF Focus, dep
  <2>2. layer \in ShorterLayers
    BY <1>8, ShorterIs
  <2>3. ExpectedWindow(layer, end) = [from |-> dep, until |-> At(layer)]
    BY <1>2, <1>8, <2>2 DEF ExpectedWindow, dep
  <2>4. dep <= At(layer)
    <3>1. /\ At(layer) = IF dep + Cutoffs[layer] <= end
                           THEN dep + Cutoffs[layer] ELSE end
          /\ Cutoffs[layer] \in Nat
      BY <1>2, <1>4, <2>2
    <3> HIDE DEF At
    <3> QED  BY <1>1, <3>1
  <2> HIDE DEF At
  <2> QED  BY <1>1, <2>1, <2>3, <2>4 DEF end, dep
<1> QED  BY <1>5, <1>6, <1>7, <1>8, ShorterIs

LEMMA LayerIsOne ==
  ASSUME NEW k \in 1 .. 12
  PROVE  /\ LayerAt(k) \in {Layers[i] : i \in 1 .. 4}
         /\ LayerAt(k) = "full_voyage" <=> k <= 3
         /\ k > 3 => LayerAt(k) \in ShorterLayers
BY LayerTable, ShorterIs DEF Layers

LEMMA PlanIsValid ==
  ASSUME window \in Windows, ServiceInv, Len(planned) >= 3,
         NEW k \in 1 .. Len(planned)
  PROVE  ValidPlan(PlanOf(k))
<1> DEFINE route == planned[k].route
           plan == PlanOf(k)
<1>1. /\ plan.waypoints = route /\ plan.layer = LayerAt(k)
      /\ plan.focus = Focus(LayerAt(k), Last(Reference).eta)
      /\ plan.reference = IF k <= 3 THEN 0 ELSE 3
      /\ plan.destination = (route[Len(route)].node = voyage.goal)
  BY DEF PlanOf, Last
<1>2. /\ Len(route) >= 2 /\ route[1].eta = voyage.departure
      /\ route[Len(route)].node = LayerGoal(LayerAt(k))
      /\ \A i \in 2 .. Len(route) : route[i - 1].eta < route[i].eta
  BY ResultIs
<1>3. k \in 1 .. 12
  BY DEF ServiceInv
<1>4. /\ voyage.departure <= plan.focus[1] /\ plan.focus[1] <= plan.focus[2]
  BY <1>1, <1>3, LayerIsOne, FocusIs
<1>5. IF plan.layer = "full_voyage" THEN plan.reference = 0 /\ plan.destination
                                    ELSE plan.reference # 0
  <2> HIDE DEF plan, route
  <2>1. CASE k <= 3
    <3>1. LayerAt(k) = "full_voyage" /\ LayerGoal(LayerAt(k)) = voyage.goal
      BY <1>3, <2>1, LayerIsOne DEF LayerGoal
    <3> QED  BY <1>1, <1>2, <2>1, <3>1
  <2>2. CASE ~(k <= 3)
    <3>1. LayerAt(k) # "full_voyage"
      BY <1>3, <2>2, LayerIsOne
    <3> QED  BY <1>1, <2>2, <3>1
  <2> QED  BY <2>1, <2>2
<1> HIDE DEF plan, route
<1>6. ValidPlan(plan)
  BY <1>1, <1>2, <1>4, <1>5 DEF ValidPlan
<1> QED  BY <1>6 DEF plan

LEMMA SetIsValid ==
  ASSUME window \in Windows, ServiceInv, Len(planned) = 12
  PROVE  ValidSet(Plans)
<1> DEFINE reference == CHOOSE p \in Plans : /\ p.layer = "full_voyage"
                                             /\ p.objective = "recommended"
           end == Last(reference.waypoints)
<1>1. ASSUME NEW plan \in Plans
      PROVE  \E k \in 1 .. 12 : plan = PlanOf(k)
  BY <1>1 DEF Plans
<1>2. \A k \in 1 .. 12 : /\ PlanOf(k) \in Plans /\ PlanOf(k).layer = LayerAt(k)
                         /\ PlanOf(k).objective = ModeAt(k)
  BY DEF Plans, PlanOf
<1>3. reference = PlanOf(3)
  <2>1. ASSUME NEW k \in 1 .. 12, LayerAt(k) = "full_voyage",
               ModeAt(k) = "recommended"
        PROVE  k = 3
    BY <2>1, LayerTable
  <2>2. LayerAt(3) = "full_voyage" /\ ModeAt(3) = "recommended"
    BY LayerTable
  <2>3. /\ PlanOf(3) \in Plans /\ PlanOf(3).layer = "full_voyage"
        /\ PlanOf(3).objective = "recommended"
    BY <1>2, <2>2
  <2>4. \A p \in Plans : p.layer = "full_voyage" /\ p.objective = "recommended"
          => p = PlanOf(3)
    BY <1>1, <1>2, <2>1
  <2> QED  BY <2>3, <2>4
<1>4. reference.waypoints = Reference /\ end = Last(Reference)
  <2>1. PlanOf(3).waypoints = Reference
    BY DEF PlanOf, Reference
  <2> HIDE DEF reference
  <2> QED  BY <1>3, <2>1
<1>5. ASSUME NEW layer \in Range(Layers), NEW objective \in Range(Modes)
      PROVE  \E plan \in Plans : plan.layer = layer /\ plan.objective = objective
  <2>1. /\ layer \in {"full_voyage", "main_corridor", "rolling", "executable"}
        /\ objective \in {"fastest", "low_risk", "recommended"}
    BY DEF Range, Layers, Modes
  <2>2. \E k \in 1 .. 12 : LayerAt(k) = layer /\ ModeAt(k) = objective
    <3>1. CASE layer = "full_voyage"
      <4>1. \A k \in {1, 2, 3} : k \in 1 .. 12 /\ LayerAt(k) = layer
        BY <3>1, LayerTable
      <4> QED  BY <2>1, <4>1, LayerTable
    <3>2. CASE layer = "main_corridor"
      <4>1. \A k \in {4, 5, 6} : k \in 1 .. 12 /\ LayerAt(k) = layer
        BY <3>2, LayerTable
      <4> QED  BY <2>1, <4>1, LayerTable
    <3>3. CASE layer = "rolling"
      <4>1. \A k \in {7, 8, 9} : k \in 1 .. 12 /\ LayerAt(k) = layer
        BY <3>3, LayerTable
      <4> QED  BY <2>1, <4>1, LayerTable
    <3>4. CASE layer = "executable"
      <4>1. \A k \in {10, 11, 12} : k \in 1 .. 12 /\ LayerAt(k) = layer
        BY <3>4, LayerTable
      <4> QED  BY <2>1, <4>1, LayerTable
    <3> QED  BY <2>1, <3>1, <3>2, <3>3, <3>4
  <2> QED  BY <1>2, <2>2
<1>6. ASSUME NEW k \in 1 .. 12
      PROVE  LET expected == ExpectedWindow(LayerAt(k), end.eta)
             IN  PlanOf(k).focus = <<expected.from, expected.until>>
  <2>1. PlanOf(k).focus = Focus(LayerAt(k), Last(Reference).eta)
    BY DEF PlanOf
  <2> HIDE DEF reference
  <2> QED  BY <1>4, <2>1, LayerIsOne, FocusIs
<1>7. ASSUME NEW k \in 4 .. 12
      PROVE  LET anchors == ReferenceAnchors(reference.waypoints,
                                             CutoffTime(LayerAt(k)))
                 anchor  == reference.waypoints[Max(anchors)].node
             IN  /\ anchors # {}
                 /\ Last(PlanOf(k).waypoints).node = anchor
                 /\ PlanOf(k).destination <=> anchor = end.node
  <2> DEFINE cutoff == CutoffTime(LayerAt(k))
  <2>1. Materializable(LayerAt(k)) /\ LayerAt(k) \in ShorterLayers
        /\ LayerAt(k) # "full_voyage" /\ k \in 1 .. Len(planned)
    BY LayerIsOne DEF ServiceInv
  <2>2. cutoff \in Int
    BY <2>1, LayerAssumption, ReferenceIs DEF CutoffTime
  <2>3. ReferenceAnchors(Reference, cutoff) = Anchors(Reference, cutoff)
    <3>1. /\ Reference \in Seq(Legs) /\ Len(Reference) >= 1
          /\ Reference[Len(Reference)].node # Reference[1].node
      BY ReferenceIs
    <3> HIDE DEF cutoff
    <3> QED  BY <2>2, <3>1, AnchorsAgree
  <2>4. Anchors(Reference, cutoff) # {}
    BY <2>1 DEF Materializable
  <2>5. LayerGoal(LayerAt(k)) = Reference[Max(Anchors(Reference, cutoff))].node
    BY <2>1 DEF LayerGoal
  <2>6. Last(PlanOf(k).waypoints).node = LayerGoal(LayerAt(k))
    <3>1. PlanOf(k).waypoints = planned[k].route
      BY DEF PlanOf
    <3>2. Last(planned[k].route).node = LayerGoal(LayerAt(k))
      <4>1. k \in 1 .. Len(planned) /\ Len(planned) >= 3
        BY <2>1
      <4> QED  BY <4>1, ResultIs DEF Last
    <3> QED  BY <3>1, <3>2
  <2>7. PlanOf(k).destination = (Last(PlanOf(k).waypoints).node = voyage.goal)
    BY DEF PlanOf
  <2>8. end.node = voyage.goal
    BY <1>4, ReferenceIs DEF Last
  <2> HIDE DEF cutoff, reference, end
  <2>9. /\ ReferenceAnchors(reference.waypoints, cutoff) # {}
        /\ Last(PlanOf(k).waypoints).node =
             reference.waypoints[Max(ReferenceAnchors(reference.waypoints,
                                                      cutoff))].node
    BY <1>4, <2>3, <2>4, <2>5, <2>6
  <2> QED  BY <2>7, <2>8, <2>9 DEF cutoff
<1>8. ASSUME NEW plan \in Plans
      PROVE  LET expected == ExpectedWindow(plan.layer, end.eta)
             IN  /\ plan.focus = <<expected.from, expected.until>>
                 /\ plan.layer # "full_voyage" =>
                      LET anchors == ReferenceAnchors(reference.waypoints,
                                                      CutoffTime(plan.layer))
                          anchor  == reference.waypoints[Max(anchors)].node
                      IN  /\ anchors # {}
                          /\ Last(plan.waypoints).node = anchor
                          /\ plan.destination <=> anchor = end.node
  <2>1. PICK k \in 1 .. 12 : plan = PlanOf(k)
    BY <1>1
  <2>2. plan.layer = LayerAt(k)
    BY <1>2, <2>1
  <2>3. plan.layer # "full_voyage" => k \in 4 .. 12
    BY <2>2, LayerIsOne
  <2> HIDE DEF reference, end
  <2> QED  BY <1>6, <1>7, <2>1, <2>2, <2>3
<1> QED  BY <1>5, <1>8 DEF ValidSet

LEMMA ProceedIs ==
  ASSUME window \in Windows, ServiceInv, stage = "layered"
  PROVE  /\ Proceed \in {"batch", "asking", "unmaterializable", "set"}
         /\ Proceed = "asking" => /\ Len(planned) < 12
                                  /\ Materializable(LayerAt(Len(planned) + 1))
<1>1. Len(planned) \in {3, 6, 9, 12}
  BY DEF ServiceInv
<1>2. AsAsked(planned)
  BY ResultsAsAsked
<1>3. ~\E plan \in Plans : ~ValidPlan(plan)
  <2> SUFFICES ASSUME NEW plan \in Plans PROVE ValidPlan(plan)
    OBVIOUS
  <2>1. PICK k \in 1 .. Len(planned) : plan = PlanOf(k)
    BY DEF Plans
  <2>2. Len(planned) >= 3
    BY <1>1
  <2> QED  BY <2>1, <2>2, PlanIsValid
<1>4. ~(Len(planned) < 12) => ValidSet(Plans)
  <2>1. ~(Len(planned) < 12) => Len(planned) = 12
    BY <1>1
  <2> QED  BY <2>1, SetIsValid
<1> QED  BY <1>2, <1>3, <1>4 DEF Proceed
-------------------------------------------------------------------------------
(* The shorter layers follow the recommended voyage.                       *)

(* The recommended voyage was let go at its start, and so are the others.  *)
LEMMA StartIsOpen ==
  ASSUME window \in Windows, ServiceInv, Len(planned) >= 3
  PROVE  Inspect(window, voyage.start, voyage.departure) = "ok"
<1> DEFINE route == Reference
           edge == Traverse(window, route[1].node, route[2].node, route[1].eta,
                            HeadingAt(route, 1), Asked(3).objective)
<1>1. /\ route \in Seq(Legs) /\ Len(route) >= 2
      /\ IsVoyage(window, Asked(3), route) /\ Asked(3) \in Requests
      /\ route[1].node = voyage.start /\ route[1].eta = voyage.departure
  BY ReferenceIs
<1> HIDE DEF route
<1>2. 1 \in 1 .. Len(route) - 1 /\ 1 + 1 = 2
  BY <1>1
<1>3. /\ HeadingAt(route, 1) \in Headings
      /\ route[1].node \in Nodes /\ route[1].eta \in Times
      /\ route[2].node \in Neighbors(route[1].node)
  BY <1>1, <1>2, VoyageHeads
<1>4. edge.verdict = "ok"
  <2>1. Traverse(window, route[1].node, route[1 + 1].node, route[1].eta,
                 HeadingAt(route, 1), Asked(3).objective).verdict = "ok"
    BY <1>1, <1>2 DEF IsVoyage
  <2> QED  BY <1>2, <2>1
<1>5. Asked(3).objective \in Objectives
  BY <1>1, SearchAssumption DEF IsRequest
<1>6. Inspect(window, route[1].node, route[1].eta) = "ok"
  BY <1>3, <1>4, <1>5, InspectionAssumption
<1> QED  BY <1>1, <1>6

LEMMA FailFollows ==
  ASSUME SearchInv, AnswerInv, RefusedForReason, ServiceInv, Fail
  PROVE  ShorterLayersFollow'
<1> SUFFICES ASSUME answer.outcome \in {"no_route", "horizon", "blocked", "uncovered"},
                    Len(planned) >= 3, ~(voyage.bucket > 1)
             PROVE  FALSE
  <2>1. /\ stage' = answer.outcome /\ planned' = planned /\ voyage' = voyage
    BY DEF Fail
  <2>2. Len(planned) \in Nat
    BY DEF ServiceInv
  <2> QED  BY <2>1, <2>2 DEF ShorterLayersFollow
<1> DEFINE k == Len(planned) + 1
<1>1. window \in Windows
  BY DEF SearchInv, SearchTypeOK
<1>2. Underway /\ request = Asked(k)
  BY DEF Fail, Answered, Underway, ServiceInv
<1>3. k \in 4 .. 12 /\ Materializable(LayerAt(k))
  <2>1. k \in 1 .. 12 /\ Materializable(LayerAt(k))
    BY <1>1, <1>2, NextAsked
  <2>2. Len(planned) \in Nat
    BY DEF ServiceInv
  <2> QED  BY <2>1, <2>2
<1> HIDE DEF k
<1>4. PICK m \in 1 .. Len(Reference) :
        /\ Reference[m].node = LayerGoal(LayerAt(k))
        /\ Reference[m].eta - voyage.departure <= LayerElapsed(LayerAt(k))
  BY <1>1, <1>3, ShorterAsked
<1>5. /\ request \in Requests /\ request.start = voyage.start
      /\ request.departure = voyage.departure
      /\ request.goal = LayerGoal(LayerAt(k))
      /\ request.ceiling = LayerElapsed(LayerAt(k))
      /\ request.bucket = voyage.bucket
  BY <1>1, <1>2, <1>3, ShorterAsked DEF Asked, LayerRequest
<1>6. request.bucket = 1 /\ request # NoRequest
  <2>1. request.bucket \in Nat \ {0} /\ ~(request.bucket > 1)
    BY <1>5, SearchAssumption DEF IsRequest
  <2> QED  BY <1>5, <2>1, SearchAssumption
<1>7. PICK v \in Seq(Legs) : /\ IsVoyage(window, request, v)
                             /\ v[Len(v)].node = request.goal
  <2>1. /\ Asked(3) \in Requests /\ Asked(3).start = voyage.start
        /\ Asked(3).departure = voyage.departure
        /\ Reference \in Seq(Legs) /\ IsVoyage(window, Asked(3), Reference)
    BY <1>1, ReferenceIs
  <2> QED  BY <1>1, <1>4, <1>5, <2>1, PrefixIsVoyage
<1>8. answer.outcome \notin {"no_route", "horizon"}
  BY <1>6, <1>7 DEF AnswerInv, NoneIsOverlooked
<1>9. answer.outcome \notin {"blocked", "uncovered"}
  BY <1>1, <1>5, StartIsOpen DEF RefusedForReason
<1> QED  BY <1>8, <1>9

-------------------------------------------------------------------------------
(* An execution                                                            *)

LEMMA AskedStays ==
  ASSUME voyage' = voyage, NEW k \in 1 .. 12, k > 3 => planned'[3] = planned[3]
  PROVE  /\ Asked(k)' = Asked(k)
         /\ LayerGoal(LayerAt(k))' = LayerGoal(LayerAt(k))
         /\ k > 3 => (Materializable(LayerAt(k))' <=> Materializable(LayerAt(k)))
<1> DEFINE layer == LayerAt(k)
<1>1. layer = "full_voyage" \/ Reference' = Reference
  BY LayerIsOne DEF Reference
<1>2. CutoffTime(layer)' = CutoffTime(layer)
  BY DEF CutoffTime
<1>3. LayerGoal(layer)' = LayerGoal(layer)
  BY <1>1, <1>2 DEF LayerGoal
<1>4. LayerElapsed(layer)' = LayerElapsed(layer)
  BY <1>1 DEF LayerElapsed
<1>5. Asked(k)' = Asked(k)
  BY <1>3, <1>4 DEF Asked, LayerRequest
<1>6. k > 3 => (Materializable(layer)' <=> Materializable(layer))
  BY <1>1, <1>2, LayerIsOne DEF Materializable
<1> QED  BY <1>3, <1>5, <1>6

LEMMA SoundStays ==
  ASSUME voyage' = voyage, window' = window, NEW k \in 1 .. 12,
         planned'[k] = planned[k], k > 3 => planned'[3] = planned[3], Sound(k)
  PROVE  Sound(k)'
BY AskedStays DEF Sound

(* What was planned is kept, whatever else goes on.                        *)
LEMMA PlannedStays ==
  ASSUME ServiceInv, voyage' = voyage, window' = window, planned' = planned
  PROVE  /\ planned' \in Seq(Routes) /\ Len(planned') <= 12
         /\ planned' # <<>> => Accepted'
         /\ \A k \in 1 .. Len(planned') : Sound(k)'
         /\ \A k \in 4 .. Len(planned') : Materializable(LayerAt(k))'
<1>1. Len(planned) \in Nat /\ Len(planned) <= 12 /\ planned \in Seq(Routes)
  BY DEF ServiceInv
<1>2. ASSUME NEW k \in 1 .. Len(planned) PROVE Sound(k)'
  <2>1. k \in 1 .. 12 /\ Sound(k)
    BY <1>1 DEF ServiceInv
  <2> QED  BY <2>1, SoundStays
<1>3. ASSUME NEW k \in 4 .. Len(planned) PROVE Materializable(LayerAt(k))'
  <2>1. k \in 1 .. 12 /\ k > 3 /\ Materializable(LayerAt(k))
    BY <1>1 DEF ServiceInv
  <2> QED  BY <2>1, AskedStays
<1>4. planned' # <<>> => Accepted'
  BY DEF ServiceInv, Accepted
<1> QED  BY <1>1, <1>2, <1>3, <1>4

Kept == ServiceInv /\ ContractKept /\ ShorterLayersFollow

LEMMA ExecuteKeeps ==
  ASSUME NEW v \in Voyages, Execute(v)
  PROVE  Kept'
<1>1. /\ planned' = <<>> /\ voyage' = v
      /\ stage' = IF v.elapsed > SearchLimit THEN "refused" ELSE "asking"
  BY DEF Execute
<1>2. planned' \in Seq(Routes) /\ Len(planned') = 0
  BY <1>1
<1>3. stage' = "asking" => Accepted'
  <2>1. v.elapsed \in Nat /\ SearchLimit \in Nat
    BY LayerAssumption
  <2> QED  BY <1>1, <2>1 DEF Accepted
<1>4. stage' \in {"refused", "asking"}
  BY <1>1
<1>5. ServiceInv'
  <2>1. 1 .. Len(planned') = {} /\ 4 .. Len(planned') = {}
    BY <1>2
  <2> QED  BY <1>1, <1>2, <1>3, <1>4, <2>1 DEF ServiceInv, Planning, Underway
<1>6. ContractKept' /\ ShorterLayersFollow'
  BY <1>4 DEF ContractKept, ShorterLayersFollow
<1> QED  BY <1>5, <1>6 DEF Kept

LEMMA AskKeeps ==
  ASSUME window \in Windows, Kept, Ask, window' = window
  PROVE  Kept'
<1>1. /\ stage = "asking" /\ stage' = "awaiting"
      /\ planned' = planned /\ voyage' = voyage
  BY DEF Ask
<1>2. request' = Asked(Len(planned) + 1)
  BY DEF Ask, Asked, Begin, Refuse
<1>3. /\ Len(planned) + 1 \in 1 .. 12 /\ Len(planned) \in Nat
      /\ Len(planned) >= 3 => Materializable(LayerAt(Len(planned) + 1))
  BY <1>1, NextAsked DEF Underway, Kept, ServiceInv
<1>4. /\ Asked(Len(planned) + 1)' = Asked(Len(planned) + 1)
      /\ Len(planned) >= 3 => Materializable(LayerAt(Len(planned) + 1))'
  <2> DEFINE k == Len(planned) + 1
  <2>1. \A n \in {k} : Asked(n)' = Asked(n)
    BY <1>1, <1>3, AskedStays
  <2>2. \A n \in {k} : n > 3 => (Materializable(LayerAt(n))'
                                   <=> Materializable(LayerAt(n)))
    BY <1>1, <1>3, AskedStays
  <2>3. k' = k
    BY <1>1
  <2> QED  BY <1>3, <2>1, <2>2, <2>3
<1>5. Accepted
  BY <1>1 DEF Kept, ServiceInv, Planning
<1>6. ServiceInv'
  BY <1>1, <1>2, <1>3, <1>4, <1>5, PlannedStays
     DEF Kept, ServiceInv, Accepted, Planning, Underway
<1>7. ContractKept' /\ ShorterLayersFollow'
  BY <1>1 DEF ContractKept, ShorterLayersFollow
<1> QED  BY <1>6, <1>7 DEF Kept

LEMMA FailKeeps ==
  ASSUME SearchInv, AnswerInv, RefusedForReason, Kept, Fail, window' = window
  PROVE  Kept'
<1>1. /\ stage' = answer.outcome /\ planned' = planned /\ voyage' = voyage
  BY DEF Fail
<1>2. stage' \in Outcomes
  BY <1>1 DEF RefusedForReason
<1>3. ServiceInv'
  BY <1>1, <1>2, PlannedStays DEF Kept, ServiceInv, Planning, Underway, Outcomes
<1>4. ContractKept'
  BY <1>2 DEF ContractKept, Outcomes
<1> QED  BY <1>3, <1>4, FailFollows DEF Kept

LEMMA CollectKeeps ==
  ASSUME SearchInv, AnswerInv, Kept, Collect, window' = window
  PROVE  Kept'
<1> DEFINE k == Len(planned) + 1
<1>1. /\ planned' = Append(planned, answer) /\ voyage' = voyage
      /\ answer.outcome = "route" /\ stage = "awaiting" /\ request = Asked(k)
      /\ stage' = IF Len(planned') % 3 = 0 THEN "layered" ELSE "asking"
  BY DEF Collect, Answered, Kept, ServiceInv
<1>2. /\ planned \in Seq(Routes) /\ Len(planned) \in Nat /\ Len(planned) < 12
      /\ Len(planned) >= 3 => Materializable(LayerAt(k))
      /\ Accepted
  BY <1>1 DEF Kept, ServiceInv, Underway, Planning
<1>3. answer \in Routes
  BY <1>1 DEF AnswerInv, AnswerTyped
<1>4. /\ planned' \in Seq(Routes) /\ Len(planned') = k /\ k \in 1 .. 12
      /\ planned'[k] = answer
      /\ \A i \in 1 .. Len(planned) : planned'[i] = planned[i]
  BY <1>1, <1>2, <1>3
<1> HIDE DEF k
<1>5. k > 3 => planned'[3] = planned[3]
  <2>1. k > 3 => 3 \in 1 .. Len(planned)
    BY <1>2 DEF k
  <2> QED  BY <1>4, <2>1
<1>6. ASSUME NEW i \in 1 .. 12, i = k
      PROVE  Sound(i)' /\ (i > 3 => Materializable(LayerAt(i))')
  <2>1. /\ Asked(i)' = Asked(i) /\ LayerGoal(LayerAt(i))' = LayerGoal(LayerAt(i))
        /\ i > 3 => (Materializable(LayerAt(i))' <=> Materializable(LayerAt(i)))
    BY <1>1, <1>5, <1>6, AskedStays
  <2>2. /\ IsVoyage(window, Asked(i), answer.route)
        /\ answer.route[Len(answer.route)].node = Asked(i).goal
    BY <1>1, <1>6 DEF AnswerInv, CheapestRoute
  <2>3. Asked(i).goal = LayerGoal(LayerAt(i))
    BY DEF Asked, LayerRequest
  <2>4. planned'[i] = answer
    BY <1>4, <1>6
  <2>5. Sound(i)'
    BY <2>1, <2>2, <2>3, <2>4 DEF Sound
  <2>6. i > 3 => Len(planned) >= 3
    BY <1>2, <1>6 DEF k
  <2> QED  BY <1>2, <1>6, <2>1, <2>5, <2>6
<1>7. ASSUME NEW i \in 1 .. 12, i < k
      PROVE  Sound(i)' /\ (i > 3 => Materializable(LayerAt(i))')
  <2>1. i \in 1 .. Len(planned)
    BY <1>2, <1>7 DEF k
  <2>2. Sound(i) /\ (i > 3 => Materializable(LayerAt(i)))
    BY <2>1 DEF Kept, ServiceInv
  <2>3. planned'[i] = planned[i] /\ (i > 3 => planned'[3] = planned[3])
    <3>1. i > 3 => k > 3
      BY <1>4, <1>7
    <3> QED  BY <1>4, <1>5, <2>1, <3>1
  <2> QED  BY <1>1, <2>2, <2>3, SoundStays, AskedStays
<1>8. \A i \in 1 .. k : Sound(i)' /\ (i > 3 => Materializable(LayerAt(i))')
  <2>1. \A i \in 1 .. k : i \in 1 .. 12 /\ (i = k \/ i < k)
    BY <1>4
  <2> QED  BY <1>6, <1>7, <2>1
<1>9. stage' = "layered" => k \in {3, 6, 9, 12}
  <2>1. \A n \in 1 .. 12 : n % 3 = 0 => n \in {3, 6, 9, 12}
    OBVIOUS
  <2> QED  BY <1>1, <1>4, <2>1
<1>10. ASSUME NEW n \in 1 .. 12, n = k, stage' = "asking"
       PROVE  n < 12 /\ (n >= 3 => Materializable(LayerAt(n + 1))')
  <2>1. n \notin {3, 6, 9, 12}
    <3>1. n % 3 # 0
      BY <1>1, <1>4, <1>10
    <3> QED  BY <3>1
  <2>2. ASSUME n >= 3 PROVE LayerAt(n + 1) = LayerAt(n) /\ n > 3
    <3>1. \/ n \in 4 .. 6 /\ n + 1 \in 4 .. 6
          \/ n \in 7 .. 9 /\ n + 1 \in 7 .. 9
          \/ n \in 10 .. 12 /\ n + 1 \in 10 .. 12
      BY <2>1, <2>2
    <3> QED  BY <2>2, <3>1, LayerTable
  <2>3. n > 3 => Materializable(LayerAt(n))'
    BY <1>4, <1>8, <1>10
  <2> QED  BY <2>1, <2>2, <2>3
<1>11. Accepted'
  BY <1>1, <1>2 DEF Accepted
<1>12. stage' \in {"layered", "asking"}
  BY <1>1
<1>13. ServiceInv'
  <2>1. \A i \in 1 .. Len(planned') : Sound(i)'
    BY <1>4, <1>8
  <2>2. \A i \in 4 .. Len(planned') : Materializable(LayerAt(i))'
    <3>1. \A i \in 4 .. k : i \in 1 .. k /\ i > 3
      BY <1>4
    <3> QED  BY <1>4, <1>8, <3>1
  <2>3. Underway' => /\ Len(planned') < 12
                     /\ Len(planned') >= 3 => Materializable(LayerAt(Len(planned) + 1))'
    <3>1. stage' = "asking" =>
            \A n \in {k} : n < 12 /\ (n >= 3 => Materializable(LayerAt(n + 1))')
      BY <1>4, <1>10
    <3>2. Underway' => stage' = "asking"
      BY <1>12 DEF Underway
    <3> QED  BY <1>4, <3>1, <3>2
  <2>4. stage' = "layered" => Len(planned') \in {3, 6, 9, 12}
    BY <1>4, <1>9
  <2>5. planned' \in Seq(Routes) /\ Len(planned') <= 12
    BY <1>4
  <2> QED  BY <1>11, <1>12, <2>1, <2>2, <2>3, <2>4, <2>5 DEF ServiceInv
<1>14. ContractKept' /\ ShorterLayersFollow'
  BY <1>12 DEF ContractKept, ShorterLayersFollow
<1> QED  BY <1>13, <1>14 DEF Kept

LEMMA ReviewKeeps ==
  ASSUME window \in Windows, Kept, Review, window' = window
  PROVE  Kept'
<1>1. /\ stage = "layered" /\ stage' = Proceed
      /\ planned' = planned /\ voyage' = voyage
  BY DEF Review
<1>2. /\ Proceed \in {"batch", "asking", "unmaterializable", "set"}
      /\ Proceed = "asking" => /\ Len(planned) < 12
                               /\ Materializable(LayerAt(Len(planned) + 1))
  BY <1>1, ProceedIs DEF Kept
<1>3. Accepted /\ Len(planned) \in Nat
  BY <1>1 DEF Kept, ServiceInv, Planning
<1>4. stage' = "asking" => Materializable(LayerAt(Len(planned) + 1))'
  <2>1. ASSUME NEW n \in 1 .. 12, n = Len(planned) + 1, n > 3,
               Materializable(LayerAt(n))
        PROVE  Materializable(LayerAt(n))'
    BY <1>1, <2>1, AskedStays
  <2>2. Len(planned) \in {3, 6, 9, 12}
    BY <1>1 DEF Kept, ServiceInv
  <2>3. stage' = "asking" => \A n \in {Len(planned) + 1} : Materializable(LayerAt(n))'
    <3>1. Len(planned) < 12 => Len(planned) + 1 \in 1 .. 12 /\ Len(planned) + 1 > 3
      <4>1. \A n \in {3, 6, 9, 12} : n < 12 => n + 1 \in 1 .. 12 /\ n + 1 > 3
        OBVIOUS
      <4> QED  BY <2>2, <4>1
    <3> QED  BY <1>1, <1>2, <2>1, <3>1
  <2> QED  BY <1>1, <2>3
<1>5. ServiceInv'
  <2>1. stage' \in {"batch", "asking", "unmaterializable", "set"}
    BY <1>1, <1>2
  <2>2. stage' = "asking" => Len(planned') < 12 /\ Accepted'
    BY <1>1, <1>2, <1>3 DEF Accepted
  <2>3. /\ Planning' => stage' = "asking"
        /\ Underway' => stage' = "asking"
        /\ stage' # "layered" /\ stage' # "awaiting"
    BY <2>1 DEF Planning, Underway
  <2> QED  BY <1>1, <1>4, <2>2, <2>3, PlannedStays DEF Kept, ServiceInv
<1>6. ContractKept' /\ ShorterLayersFollow'
  BY <1>1, <1>2 DEF ContractKept, ShorterLayersFollow
<1> QED  BY <1>5, <1>6 DEF Kept

(* The search goes on, or the execution ends or has ended.                 *)
LEMMA SearchKeeps ==
  ASSUME Kept, window' = window,
         \/ (Step \/ Cancel) /\ UNCHANGED serviceVars
         \/ Overtaken
         \/ UNCHANGED allVars
  PROVE  Kept'
<1>1. planned' = planned /\ voyage' = voyage
  BY DEF serviceVars, allVars, Overtaken
<1>2. CASE Overtaken
  <2>1. stage' = "cancelled"
    BY <1>2 DEF Overtaken
  <2>2. ServiceInv'
    BY <1>1, <2>1, PlannedStays DEF Kept, ServiceInv, Planning, Underway
  <2> QED  BY <2>1, <2>2 DEF Kept, ContractKept, ShorterLayersFollow
<1>3. CASE stage' = stage /\ request' = request
  <2>1. ASSUME NEW n \in 1 .. 12
        PROVE  /\ Asked(n)' = Asked(n)
               /\ n > 3 => (Materializable(LayerAt(n))' <=> Materializable(LayerAt(n)))
    BY <1>1, AskedStays
  <2>2. Len(planned) \in Nat /\ Len(planned) <= 12
    BY DEF Kept, ServiceInv
  <2>3. Underway' => /\ Len(planned') < 12
                     /\ Len(planned') >= 3 =>
                          Materializable(LayerAt(Len(planned) + 1))'
    <3> SUFFICES ASSUME Underway, Len(planned) < 12
                 PROVE  Len(planned) >= 3 =>
                          Materializable(LayerAt(Len(planned) + 1))'
      BY <1>1, <1>3 DEF Kept, ServiceInv, Underway
    <3>1. Len(planned) >= 3 => Materializable(LayerAt(Len(planned) + 1))
      BY DEF Kept, ServiceInv
    <3>2. Len(planned) + 1 \in 1 .. 12
      BY <2>2
    <3>3. \A n \in {Len(planned) + 1} : Len(planned) >= 3 => Materializable(LayerAt(n))'
      BY <2>1, <2>2, <3>1, <3>2
    <3> QED  BY <1>1, <3>3
  <2>4. stage' = "awaiting" => request' = Asked(Len(planned) + 1)'
    <3> SUFFICES ASSUME stage = "awaiting"
                 PROVE  request' = Asked(Len(planned) + 1)'
      BY <1>3
    <3>1. request = Asked(Len(planned) + 1) /\ Len(planned) < 12
      BY DEF Kept, ServiceInv, Underway
    <3>2. \A n \in {Len(planned) + 1} : Asked(n)' = Asked(n)
      BY <2>1, <2>2, <3>1
    <3>3. \A n \in {Len(planned) + 1} : request' = Asked(n)'
      BY <1>3, <3>1, <3>2
    <3> QED  BY <1>1, <3>3
  <2>5. ServiceInv'
    <3>1. Planning' \/ planned' # <<>> => Accepted'
      BY <1>1, <1>3 DEF Kept, ServiceInv, Planning, Accepted
    <3>2. stage' = "layered" => Len(planned') \in {3, 6, 9, 12}
      BY <1>1, <1>3 DEF Kept, ServiceInv
    <3> QED  BY <1>1, <2>3, <2>4, <3>1, <3>2, PlannedStays DEF Kept, ServiceInv
  <2>6. ContractKept' /\ ShorterLayersFollow'
    BY <1>1, <1>3 DEF Kept, ContractKept, ShorterLayersFollow
  <2> QED  BY <2>5, <2>6 DEF Kept
<1>4. Overtaken \/ (stage' = stage /\ request' = request)
  BY DEF serviceVars, allVars, vars, Step, Cancel, GiveUp, Discard, Abort, Expand,
     Arrive, Overrun, Done
<1> QED  BY <1>2, <1>3, <1>4

LEMMA NextKept ==
  ASSUME SearchInv, AnswerInv, RefusedForReason, Kept, [VoyagesNext]_allVars
  PROVE  Kept'
<1>1. window \in Windows /\ window' = window
  BY ServiceSteps DEF SearchInv, SearchTypeOK, Kept
<1>2. ASSUME NEW v \in Voyages, Execute(v) PROVE Kept'
  BY <1>2, ExecuteKeeps
<1>3. CASE Ask
  BY <1>1, <1>3, AskKeeps
<1>4. CASE Fail
  BY <1>1, <1>4, FailKeeps
<1>5. CASE Collect
  BY <1>1, <1>5, CollectKeeps
<1>6. CASE Review
  BY <1>1, <1>6, ReviewKeeps
<1>7. CASE \/ (Step \/ Cancel) /\ UNCHANGED serviceVars
           \/ Overtaken
           \/ Rest
           \/ UNCHANGED allVars
  BY <1>1, <1>7, SearchKeeps DEF Rest
<1> QED  BY <1>2, <1>3, <1>4, <1>5, <1>6, <1>7 DEF VoyagesNext, Run

ServicesInv == SearchInv /\ TreeInv /\ AnswerInv /\ RefusedForReason /\ Kept

LEMMA ServicesStart == VoyagesInit => ServicesInv
<1> SUFFICES ASSUME VoyagesInit PROVE ServicesInv
  OBVIOUS
<1>1. SearchInv /\ TreeInv /\ AnswerInv
  BY InitSearchInv, InitTree, InitAnswer DEF VoyagesInit
<1>2. RefusedForReason
  BY DEF VoyagesInit, Init, Nothing, RefusedForReason, Outcomes
<1>3. Kept
  <2>1. planned = <<>> /\ stage = "idle"
    BY DEF VoyagesInit
  <2>2. planned \in Seq(Routes) /\ Len(planned) = 0
    BY <2>1
  <2>3. 1 .. Len(planned) = {} /\ 4 .. Len(planned) = {}
    BY <2>2
  <2> QED  BY <2>1, <2>2, <2>3 DEF Kept, ServiceInv, ContractKept,
           ShorterLayersFollow, Planning, Underway
<1> QED  BY <1>1, <1>2, <1>3 DEF ServicesInv

THEOREM ServicesInvariant == VoyagesSpec => []ServicesInv
<1>1. ServicesInv /\ [VoyagesNext]_allVars => ServicesInv'
  <2> SUFFICES ASSUME ServicesInv, [VoyagesNext]_allVars PROVE ServicesInv'
    OBVIOUS
  <2>1. SearchInv /\ TreeInv /\ AnswerInv /\ RefusedForReason /\ Kept
    BY DEF ServicesInv
  <2>2. [Next]_vars
    BY <2>1, ServiceSteps DEF SearchInv, SearchTypeOK, Kept
  <2>3. Kept'
    BY <2>1, NextKept
  <2> QED  BY <2>1, <2>2, <2>3, NextSearchInv, NextTree, NextAnswer, NextRefusal
           DEF ServicesInv
<1> QED  BY <1>1, ServicesStart, PTL DEF VoyagesSpec

(* execute() of both services: what is put together passes every check of  *)
(* the services and of the contract, which finds anchors and windows anew. *)
THEOREM ContractAlwaysKept == VoyagesSpec => []ContractKept
<1>1. ServicesInv => ContractKept
  BY DEF ServicesInv, Kept
<1> QED  BY <1>1, ServicesInvariant, PTL

(* execute() of the four-layer service: with a bucket for every moment no  *)
(* shorter layer fails for want of a route once the full voyage is planned.*)
THEOREM ShorterAlwaysFollow == VoyagesSpec => []ShorterLayersFollow
<1>1. ServicesInv => ShorterLayersFollow
  BY DEF ServicesInv, Kept
<1> QED  BY <1>1, ServicesInvariant, PTL

(* execute(), plan_candidates(): whatever the services ask for, one after  *)
(* the other, the search is never asked for anything but its requests, nor *)
(* disturbed: what is true of it by itself is so under the services.       *)
THEOREM ServicesUseSearch == VoyagesSpec => Spec
<1>1. VoyagesInit => Init
  BY DEF VoyagesInit
<1>2. ServicesInv /\ [VoyagesNext]_allVars => [Next]_vars
  BY ServiceSteps DEF ServicesInv, SearchInv, SearchTypeOK, Kept
<1> QED  BY <1>1, <1>2, ServicesInvariant, PTL DEF VoyagesSpec, Spec

===============================================================================
