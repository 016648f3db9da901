------------------------------ MODULE RiskSource ------------------------------
(***************************************************************************)
(* contracts.sources.InMemoryRiskSource and its callers: a producer that   *)
(* publishes frames and resets the source to a generation, and threads     *)
(* that commit windows, or prepare a planning and plan under the lease of  *)
(* a committed window (ingress.prepare, ingress._with_private_planner).    *)
(*                                                                         *)
(* Every method holds the source's lock, but commit_window() holds it      *)
(* twice, and a lease holds it until the planning ends.                    *)
(*                                                                         *)
(* A frame's context is everything get_window() compares for equality      *)
(* except the corridor and the generation.  Times are in whole hours.      *)
(***************************************************************************)
EXTENDS Integers, SequencesExt

CONSTANTS
  Frames,       \* the frames the producer may publish
  Queries,      \* the windows anyone asks for
  Threads,
  NoThread      \* nobody holds the source

(* A RiskFrame: made is generated_at, asof is as_of_time, hour valid_time. *)
FrameFields == {"id", "context", "corridor", "generation", "hour", "asof", "made"}

QueryFields == {"start", "end", "context", "corridor", "generation", "asof"}

ASSUME SourceAssumption ==
  /\ \A f \in Frames :
       /\ DOMAIN f = FrameFields
       /\ {f.id, f.generation, f.hour, f.asof, f.made} \subseteq Nat
  /\ \A q \in Queries :
       /\ DOMAIN q = QueryFields
       /\ {q.start, q.end, q.generation, q.asof} \subseteq Nat
       /\ q.start <= q.end
  /\ NoThread \notin Threads

VARIABLES
  frames,       \* _frames, in the order of the dictionary
  committed,    \* _committed_windows: query -> window
  holder,       \* the thread that holds the lock across steps, by a lease
  task          \* what each thread is doing, with which query and window

sourceVars == <<frames, committed, holder, task>>

Idle == [at |-> "idle"]

(* dict[key] = value.                                                      *)
Put(dict, key, value) ==
  [k \in DOMAIN dict \cup {key} |-> IF k = key THEN value ELSE dict[k]]

(* A window gives for each of its hours a frame.                           *)
Window(q) == [q.start .. q.end -> Frames]

Task ==
  {Idle} \cup
  UNION {[at : {"committing", "prepared", "planning"}, query : {q},
          window : Window(q)] : q \in Queries}

-------------------------------------------------------------------------------
(* get_window()                                                            *)

Alike(f, q) == f.context = q.context /\ f.generation = q.generation

(* Faulty variant: knowledge from after the query's as_of is used.         *)
AnswersWhenever(f, q) ==
  /\ Alike(f, q) /\ f.corridor = q.corridor
  /\ q.start <= f.hour /\ f.hour <= q.end

Answers(f, q) ==
  /\ Alike(f, q) /\ f.corridor = q.corridor
  /\ f.asof <= q.asof
  /\ q.start <= f.hour /\ f.hour <= q.end

(* Faulty variant: the time of generation goes before the knowledge.       *)
NewerMade(f, g) == f.made > g.made \/ (f.made = g.made /\ f.asof > g.asof)

(* (as_of_time, generated_at, risk_id), compared as a tuple.               *)
Newer(f, g) ==
  \/ f.asof > g.asof
  \/ f.asof = g.asof /\ f.made > g.made
  \/ f.asof = g.asof /\ f.made = g.made /\ f.id > g.id

KeepNewer(byTime, f) ==
  IF f.hour \in DOMAIN byTime /\ ~Newer(f, byTime[f.hour])
    THEN byTime
    ELSE Put(byTime, f.hour, f)

(* by_time after the first n frames in the order of the dictionary.        *)
ByTime(q) ==
  LET byTime[n \in 0 .. Len(frames)] ==
        IF n = 0 THEN <<>>
        ELSE IF Answers(frames[n], q) THEN KeepNewer(byTime[n - 1], frames[n])
        ELSE byTime[n - 1]
  IN  byTime

(* The frames selected for the query, by their hour.                       *)
Selected(q) == ByTime(q)[Len(frames)]

(* The run's frames are of another corridor: get_window() raises.          *)
OtherCorridor(q) ==
  \E f \in ToSet(frames) : Alike(f, q) /\ f.corridor # q.corridor

(* Faulty variant: the frame at the end of the interval is not counted.    *)
CompleteButLast(q, window) ==
  DOMAIN window \ {q.end} = q.start .. q.end - 1

(* CommittedRiskWindow.create() raises unless every hour has its frame.    *)
Complete(q, window) == DOMAIN window = q.start .. q.end

-------------------------------------------------------------------------------
(* InMemoryRiskSource                                                      *)

SourceInit ==
  /\ frames = <<>>
  /\ committed = <<>>
  /\ holder = NoThread
  /\ task = [t \in Threads |-> Idle]

Unlocked == holder = NoThread

(* The frames of one generation, in their order.                           *)
FramesOf(generation) ==
  LET kept[n \in 0 .. Len(frames)] ==
        IF n = 0 THEN <<>>
        ELSE IF frames[n].generation = generation
          THEN Append(kept[n - 1], frames[n])
        ELSE kept[n - 1]
  IN  kept[Len(frames)]

(* publish() raises for other contents under a known identifier; the same  *)
(* contents again change nothing.                                          *)
IdIsNew(f) == \A g \in ToSet(frames) : g.id # f.id

Publish(f) ==
  /\ Unlocked
  /\ IdIsNew(f)
  /\ frames' = Append(frames, f)
  /\ UNCHANGED <<committed, holder, task>>

(* Faulty variant: a reset does not wait for the lease to end.             *)
ResetAtOnce(generation) ==
  /\ frames' = FramesOf(generation)
  /\ committed' = [q \in {p \in DOMAIN committed : p.generation = generation}
                     |-> committed[q]]
  /\ UNCHANGED <<holder, task>>

(* reset_to_generation().                                                  *)
ResetToGeneration(generation) ==
  /\ Unlocked
  /\ frames' = FramesOf(generation)
  /\ committed' = [q \in {p \in DOMAIN committed : p.generation = generation}
                     |-> committed[q]]
  /\ UNCHANGED <<holder, task>>

(* commit_window(), the first time under the lock.                         *)
ReadWindow(t, q) ==
  /\ Unlocked
  /\ task[t] = Idle
  /\ ~OtherCorridor(q)
  /\ Complete(q, Selected(q))
  /\ task' = [task EXCEPT ![t] =
                [at |-> "committing", query |-> q, window |-> Selected(q)]]
  /\ UNCHANGED <<frames, committed, holder>>

(* Faulty variant: a committed window is replaced.                         *)
MayStoreAlways(q, window) == TRUE

(* A window once committed is only confirmed, or the commit raises.        *)
MayStore(q, window) == q \in DOMAIN committed => committed[q] = window

(* commit_window(), the second time under the lock.                        *)
StoreWindow(t) ==
  /\ Unlocked
  /\ task[t].at = "committing"
  /\ committed' = IF MayStore(task[t].query, task[t].window)
                    THEN Put(committed, task[t].query, task[t].window)
                    ELSE committed
  /\ task' = [task EXCEPT ![t] = Idle]
  /\ UNCHANGED <<frames, holder>>

-------------------------------------------------------------------------------
(* A planning, as far as it concerns the source                            *)

(* ingress.prepare(): get_committed_window().                              *)
Prepare(t, q) ==
  /\ Unlocked
  /\ task[t] = Idle
  /\ q \in DOMAIN committed
  /\ task' = [task EXCEPT ![t] =
                [at |-> "prepared", query |-> q, window |-> committed[q]]]
  /\ UNCHANGED <<frames, committed, holder>>

(* _private_planner(): the window must be the one that was prepared.       *)
AsPrepared(t) ==
  /\ task[t].query \in DOMAIN committed
  /\ committed[task[t].query] = task[t].window

(* lease_committed_window(): entered, or the planning raises.              *)
EnterLease(t) ==
  /\ Unlocked
  /\ task[t].at = "prepared"
  /\ IF AsPrepared(t)
       THEN /\ holder' = t
            /\ task' = [task EXCEPT ![t].at = "planning"]
       ELSE /\ task' = [task EXCEPT ![t] = Idle]
            /\ UNCHANGED holder
  /\ UNCHANGED <<frames, committed>>

(* The planning is over, by whatever result.                               *)
LeaveLease(t) ==
  /\ task[t].at = "planning"
  /\ holder' = NoThread
  /\ task' = [task EXCEPT ![t] = Idle]
  /\ UNCHANGED <<frames, committed>>

SourceNext ==
  \/ \E f \in Frames : Publish(f)
  \/ \E generation \in {f.generation : f \in Frames} :
       ResetToGeneration(generation)
  \/ \E t \in Threads :
       \/ \E q \in Queries : ReadWindow(t, q)
       \/ StoreWindow(t)
       \/ \E q \in Queries : Prepare(t, q)
       \/ EnterLease(t)
       \/ LeaveLease(t)

SourceSpec == SourceInit /\ [][SourceNext]_sourceVars

-------------------------------------------------------------------------------
(* Properties                                                              *)

(* Windows are complete from the moment they are read.                     *)
SourceTypeOK ==
  /\ frames \in Seq(Frames)
  /\ DOMAIN committed \subseteq Queries
  /\ \A q \in DOMAIN committed : committed[q] \in Window(q)
  /\ holder \in Threads \cup {NoThread}
  /\ task \in [Threads -> Task]

(* A committed window has every hour of its query and no other, both ends  *)
(* included, and for each a frame valid then, of the query's context,      *)
(* corridor and generation, that was known by its as_of.                   *)
WindowsExact ==
  \A q \in DOMAIN committed :
    /\ DOMAIN committed[q] = q.start .. q.end
    /\ \A hour \in DOMAIN committed[q] :
         LET f == committed[q][hour] IN
         /\ f.hour = hour
         /\ f.context = q.context /\ f.corridor = q.corridor
         /\ f.generation = q.generation
         /\ f.asof <= q.asof

(* Whatever the order of publication, no frame that the query may know of  *)
(* has later knowledge than the one selected for its hour.                 *)
NewestKnown ==
  \A q \in Queries, f \in ToSet(frames) :
    /\ f.context = q.context /\ f.corridor = q.corridor
    /\ f.generation = q.generation
    /\ f.hour \in q.start .. q.end /\ f.asof <= q.asof
    => f.hour \in DOMAIN Selected(q) /\ Selected(q)[f.hour].asof >= f.asof

(* While a planning lasts, the window it was prepared from stays committed,*)
(* unchanged, and nobody else plans: CommittedRiskSource's promise.        *)
LeaseStable ==
  \A t \in Threads : task[t].at = "planning" =>
    /\ holder = t
    /\ task[t].query \in DOMAIN committed
    /\ committed[task[t].query] = task[t].window

(* A committed window never changes: it can only be discarded by a reset.  *)
WindowsFixed ==
  [][ \A q \in DOMAIN committed \cap DOMAIN committed' :
        committed'[q] = committed[q] ]_sourceVars

(* "Discard every frame outside the newly active simulation generation":   *)
(* the frames of a committed window are frames the source still has, since *)
(* a window is frozen atomically.                                          *)
NothingLeftBehind ==
  \A q \in DOMAIN committed : \A hour \in DOMAIN committed[q] :
    committed[q][hour] \in ToSet(frames)

===============================================================================
