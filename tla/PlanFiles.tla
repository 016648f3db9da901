------------------------------- MODULE PlanFiles -------------------------------
(***************************************************************************)
(* The files of the command line: "synthetic-demo" and "legacy-plan" map   *)
(* the endpoints, plan, and leave a mapping, two documents for every       *)
(* objective and for the latest plan, and a summary in one directory, each *)
(* by atomic_write_json().  The directory outlives the invocations, which  *)
(* may fail at any write, be killed, or overlap with another one; the      *)
(* machine may lose its power.                                             *)
(*                                                                         *)
(* Of the file system only what atomic_write_json() relies on is modelled: *)
(* a rename is atomic, what was not synchronised may be lost when the      *)
(* power is, a file's contents and a directory's entries apart.  The output*)
(* directory is itself an entry of another: its path is known by how many  *)
(* of its directories exist.                                               *)
(***************************************************************************)
EXTENDS Naturals, Sequences, Functions

CONSTANTS
  Objectives,    \* tuple(ObjectiveMode)
  MaxRuns,       \* bound: how many invocations
  LegacyRuns,    \* those that are "legacy-plan"
  MaxLosses,     \* bound: how often the power is lost
  Depth,         \* how many directories of the path may have to be made
  Absent

Invocations == 1..MaxRuns

Plans == Range(Objectives)

Forms == <<"json", "geojson">>

Mapping == <<"endpoint-mapping", "json">>
Summary == <<"run-summary", "json">>
Latest(form) == <<"latest", form>>

Names ==
  {Mapping, Summary} \cup ((Plans \cup {"latest"}) \X Range(Forms))

(* A document is told by the invocation that wrote it and by which of its  *)
(* writes that was.  What is "cached" is lost with the power, and then the *)
(* file is "torn".                                                         *)
Document(p, k, state) == [by |-> p, at |-> k, state |-> state]

ASSUME PlanFilesAssumption ==
  /\ Objectives \in Seq(STRING)
  /\ Plans \cap {"latest", "endpoint-mapping", "run-summary"} = {}
  /\ {MaxRuns, MaxLosses, Depth} \subseteq Nat /\ LegacyRuns \subseteq Invocations
  /\ Absent \notin [by : Invocations, at : Nat,
                    state : {"cached", "stored", "torn"}]

VARIABLES
  directory,   \* the document that is found under each name
  durable,     \* the document found there when it was last synchronised
  temporary,   \* the temporary files, as the documents they will be
  made,        \* how many directories of the path there are
  anchored,    \* how many of them no loss of power takes
  phase,       \* where each invocation stands, or how it ended
  step,        \* how many writes it has begun
  alone,       \* whether invocations are run one after the other
  opens,       \* whether the directory can be opened, to synchronise it
  unlinks,     \* whether a temporary file can always be removed
  found,       \* how many directories of the path there were at the outset
  losses

path == <<made, anchored>>

conditions == <<alone, opens, unlinks, found, losses>>

vars == <<directory, durable, temporary, path, phase, step, conditions>>

Writing == {"create", "fill", "replace", "sync"}

Running == {p \in Invocations : phase[p] \in Writing \cup {"planning"}}

Init ==
  /\ directory = [n \in Names |-> Absent]
  /\ durable = [n \in Names |-> Absent]
  /\ temporary = {}
  /\ phase = [p \in Invocations |-> "out"]
  /\ step = [p \in Invocations |-> 0]
  /\ alone \in BOOLEAN /\ opens \in BOOLEAN /\ unlinks \in BOOLEAN
  /\ found \in 0 .. Depth /\ made = found /\ anchored = found
  /\ losses = 0

-------------------------------------------------------------------------------
(* The writes of an invocation, in their order.                            *)

(* A mapping, two forms of every plan and of the latest one, a summary; the *)
(* legacy run adds two entries to its summary and writes it again.         *)
LastWrite(p) == 2 * Len(Objectives) + (IF p \in LegacyRuns THEN 5 ELSE 4)

InOrder(titles, p) ==
  [k \in 1 .. LastWrite(p) |->
     IF k = 1 THEN Mapping
     ELSE IF k > 2 * Len(titles) + 1 THEN Summary
     ELSE <<titles[k \div 2], Forms[1 + (k % 2)]>>]

(* Faulty variant: the latest plan is written before the objectives.       *)
LatestFirst(p) == InOrder(<<"latest">> \o Objectives, p)

Writes(p) == InOrder(Append(Objectives, "latest"), p)

Target(p) == Writes(p)[step[p]]

(* The first write is the mapping's; the plan is made after it.            *)
Onward(p) ==
  IF step[p] = 1 THEN phase' = [phase EXCEPT ![p] = "planning"] /\ UNCHANGED step
  ELSE IF step[p] = LastWrite(p)
    THEN phase' = [phase EXCEPT ![p] = "done"] /\ UNCHANGED step
  ELSE /\ phase' = [phase EXCEPT ![p] = "create"]
       /\ step' = [step EXCEPT ![p] = step[p] + 1]

Goto(p, label) == phase' = [phase EXCEPT ![p] = label] /\ UNCHANGED step

-------------------------------------------------------------------------------
(* An invocation                                                           *)

(* Configuration, frames and endpoints are read and checked: an error      *)
(* there leaves no trace.                                                  *)
Start(p) ==
  /\ phase[p] = "out"
  /\ \A q \in Invocations : q < p => phase[q] # "out"
  /\ alone => Running = {}
  /\ \/ /\ phase' = [phase EXCEPT ![p] = "create"]
        /\ step' = [step EXCEPT ![p] = 1]
     \/ Goto(p, "failed")
  /\ UNCHANGED <<directory, durable, temporary, path, conditions>>

(* PlanningService.execute().                                              *)
FindPlans(p) ==
  /\ phase[p] = "planning"
  /\ phase' = [phase EXCEPT ![p] = "create"]
  /\ step' = [step EXCEPT ![p] = 2]
  /\ UNCHANGED <<directory, durable, temporary, path, conditions>>

FindNoPlan(p) ==
  /\ phase[p] = "planning"
  /\ Goto(p, "failed")
  /\ UNCHANGED <<directory, durable, temporary, path, conditions>>

-------------------------------------------------------------------------------
(* atomic_write_json()                                                     *)

(* mkdir(parents=True, exist_ok=True), one directory at a time: nothing    *)
(* synchronises the one that the new entry is in.                          *)
MakeDirectory(p) ==
  /\ phase[p] = "create" /\ made < Depth
  /\ made' = made + 1
  /\ UNCHANGED <<directory, durable, temporary, anchored, phase, step, conditions>>

(* mkstemp().                                                              *)
CreateTemporary(p) ==
  /\ phase[p] = "create" /\ made = Depth
  /\ temporary' = temporary \cup {Document(p, step[p], "cached")}
  /\ Goto(p, "fill")
  /\ UNCHANGED <<directory, durable, path, conditions>>

(* Faulty variant: the contents are not synchronised.                      *)
FillOnly(p) == Document(p, step[p], "cached")

(* What fsync() has made of the temporary file.                            *)
Filled(p) == Document(p, step[p], "stored")

FillTemporary(p) ==
  /\ phase[p] = "fill"
  /\ temporary' = (temporary \ {Document(p, step[p], "cached")}) \cup {Filled(p)}
  /\ Goto(p, "replace")
  /\ UNCHANGED <<directory, durable, path, conditions>>

(* os.replace().                                                           *)
ReplaceTarget(p) ==
  /\ phase[p] = "replace"
  /\ directory' = [directory EXCEPT ![Target(p)] = Filled(p)]
  /\ temporary' = temporary \ {Filled(p)}
  /\ Goto(p, "sync")
  /\ UNCHANGED <<durable, path, conditions>>

(* Faulty variant: the entries are not synchronised.                       *)
NothingSynced == UNCHANGED durable

EntriesSynced == durable' = directory

(* fsync() of the directory, which is left out where it cannot be opened.  *)
SyncDirectory(p) ==
  /\ phase[p] = "sync"
  /\ IF opens THEN EntriesSynced ELSE UNCHANGED durable
  /\ Onward(p)
  /\ UNCHANGED <<directory, temporary, path, conditions>>

(* Faulty variant: the error path forgets the temporary file.              *)
KeptOnError(p) == temporary

LeftOnError(p) == {t \in temporary : t.by # p}

(* An error before or during a write, of the disk or of the contents, or   *)
(* of the directory after the rename: the exit status is 2.  unlink() may  *)
(* fail as well.                                                           *)
FailWrite(p) ==
  /\ phase[p] \in Writing
  /\ \/ temporary' = LeftOnError(p)
     \/ ~unlinks /\ UNCHANGED temporary
  /\ Goto(p, "failed")
  /\ UNCHANGED <<directory, durable, path, conditions>>

Invoke(p) ==
  \/ FindPlans(p) \/ FindNoPlan(p)
  \/ MakeDirectory(p)
  \/ CreateTemporary(p) \/ FillTemporary(p) \/ ReplaceTarget(p) \/ SyncDirectory(p)
  \/ FailWrite(p)

-------------------------------------------------------------------------------
(* The machine                                                             *)

Kill(p) ==
  /\ p \in Running
  /\ Goto(p, "killed")
  /\ UNCHANGED <<directory, durable, temporary, path, conditions>>

Torn(document) ==
  IF document # Absent /\ document.state = "cached"
    THEN [document EXCEPT !.state = "torn"] ELSE document

(* Of a name that was given a new document since the directory was last    *)
(* synchronised, the old one may be found.                                 *)
LoseEntries ==
  /\ \E lost \in SUBSET {n \in Names : directory[n] # durable[n]} :
       directory' = [n \in Names |->
                       Torn(IF n \in lost THEN durable[n] ELSE directory[n])]
  /\ temporary' = {Torn(t) : t \in temporary}

(* With one of the directories above it, everything is lost.               *)
LoseDirectory ==
  /\ directory' = [n \in Names |-> Absent]
  /\ temporary' = {}

(* Of the directories that were made since the last loss, those up to any  *)
(* of them are found again, and are there to stay.                         *)
LosePower ==
  /\ losses < MaxLosses
  /\ losses' = losses + 1
  /\ made' \in anchored .. made
  /\ anchored' = made'
  /\ IF made' = made THEN LoseEntries ELSE LoseDirectory
  /\ durable' = directory'
  /\ phase' = [p \in Invocations |-> IF p \in Running THEN "killed" ELSE phase[p]]
  /\ UNCHANGED <<step, alone, opens, unlinks, found>>

Next ==
  \/ \E p \in Invocations : Start(p) \/ Invoke(p) \/ Kill(p)
  \/ LosePower

Spec == Init /\ [][Next]_vars

-------------------------------------------------------------------------------
(* Properties                                                              *)

(* "crash-safe same-directory writes": under every name there is a whole   *)
(* document or none, whatever fails, is killed, overlaps or loses power.   *)
FilesWhole ==
  \A n \in Names : directory[n] # Absent =>
    /\ directory[n].state # "torn"
    /\ Writes(directory[n].by)[directory[n].at] = n

RunOf(name) == IF directory[name] = Absent THEN 0 ELSE directory[name].by

(* Where invocations are run one after the other and the directory can be  *)
(* synchronised, it is at any time the beginning of a newer invocation     *)
(* over the end of an older one: the latest plan has its objectives beside *)
(* it, and when the summary and the mapping are of one invocation, so is   *)
(* everything.                                                             *)
NewerFirst ==
  alone /\ opens =>
    \A form \in Range(Forms), plan \in Plans :
      /\ RunOf(Summary) <= RunOf(Latest(form))
      /\ RunOf(Latest(form)) <= RunOf(<<plan, form>>)
      /\ RunOf(<<plan, form>>) <= RunOf(Mapping)

(* An invocation that exited with 0 has left all its files.  Until the     *)
(* next invocation a loss of power takes none of them back, or, where the  *)
(* output directory was not there at the outset, all of them with it: the  *)
(* entry of a directory that was made is synchronised by nobody.           *)
ExitIsDurable ==
  alone /\ opens =>
    \A p \in Invocations :
      /\ phase[p] = "done"
      /\ \A q \in Invocations : q > p => phase[q] = "out"
      => \/ /\ \A k \in 1 .. LastWrite(p) : RunOf(Writes(p)[k]) = p
            /\ directory[Summary].at = LastWrite(p)
         \/ /\ found < Depth /\ losses > 0
            /\ \A n \in Names : directory[n] = Absent

(* Temporary files stay only where an invocation was killed, or where they *)
(* cannot be removed.                                                      *)
TemporaryIsRemoved ==
  unlinks =>
    \A t \in temporary : phase[t.by] \in {"fill", "replace", "killed"}

===============================================================================
