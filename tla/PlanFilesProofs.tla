---------------------------- MODULE PlanFilesProofs ----------------------------
(***************************************************************************)
(* What may be relied on in the output directory of the command line, for  *)
(* any objectives, any number of invocations and any failures.             *)
(***************************************************************************)
EXTENDS PlanFiles, TLAPS

Phases ==
  Writing \cup {"out", "planning", "failed", "done", "killed"}

(* A whole document, where it belongs.                                     *)
Stored(name, document) ==
  /\ document.by \in Invocations
  /\ document.at \in 1 .. LastWrite(document.by)
  /\ document = Document(document.by, document.at, "stored")
  /\ Writes(document.by)[document.at] = name

StoredFiles(files) ==
  /\ files = [n \in Names |-> files[n]]
  /\ \A n \in Names : files[n] = Absent \/ Stored(n, files[n])

(* What was there at the outset, and what survived a loss, stays.          *)
PathTypes ==
  /\ {found, anchored, made, losses} \subseteq Nat
  /\ found <= anchored /\ anchored <= made /\ made <= Depth

FileTypes ==
  /\ PathTypes
  /\ StoredFiles(directory) /\ StoredFiles(durable)
  /\ phase \in [Invocations -> Phases]
  /\ step \in [Invocations -> Nat]
  /\ \A p \in Invocations :
       /\ phase[p] \in Writing => step[p] \in 1 .. LastWrite(p)
       /\ phase[p] = "planning" => step[p] = 1

-------------------------------------------------------------------------------
(* The writes                                                              *)

LEMMA LastWriteIsNat ==
  ASSUME NEW p \in Invocations
  PROVE  /\ Len(Objectives) \in Nat
         /\ LastWrite(p) \in Nat /\ LastWrite(p) >= 2 * Len(Objectives) + 4
         /\ LastWrite(p) <= 2 * Len(Objectives) + 5
<1>1. Len(Objectives) \in Nat
  BY PlanFilesAssumption
<1> QED  BY <1>1 DEF LastWrite

LEMMA Titles ==
  LET titles == Append(Objectives, "latest")
  IN  /\ Len(titles) = Len(Objectives) + 1
      /\ \A i \in 1 .. Len(Objectives) : titles[i] = Objectives[i]
      /\ titles[Len(Objectives) + 1] = "latest"
BY PlanFilesAssumption

LEMMA FormNames == Range(Forms) = {"json", "geojson"}
BY DEF Range, Forms

LEMMA PlanNames == Plans = {Objectives[i] : i \in 1 .. Len(Objectives)}
BY PlanFilesAssumption DEF Plans, Range

(* The writes by their place.                                              *)
LEMMA WritesAt ==
  ASSUME NEW p \in Invocations
  PROVE  /\ Writes(p)[1] = Mapping
         /\ \A i \in 1 .. Len(Objectives) :
              /\ Writes(p)[2 * i] = <<Objectives[i], "json">>
              /\ Writes(p)[2 * i + 1] = <<Objectives[i], "geojson">>
         /\ Writes(p)[2 * Len(Objectives) + 2] = Latest("json")
         /\ Writes(p)[2 * Len(Objectives) + 3] = Latest("geojson")
         /\ \A k \in 2 * Len(Objectives) + 4 .. LastWrite(p) :
              Writes(p)[k] = Summary
<1> DEFINE n == Len(Objectives)
           titles == Append(Objectives, "latest")
<1>1. /\ n \in Nat /\ LastWrite(p) \in Nat /\ LastWrite(p) >= 2 * n + 4
  BY LastWriteIsNat
<1>2. /\ Len(titles) = n + 1 /\ titles[n + 1] = "latest"
      /\ \A i \in 1 .. n : titles[i] = Objectives[i]
  BY Titles
<1>3. Writes(p) = [k \in 1 .. LastWrite(p) |->
                     IF k = 1 THEN Mapping
                     ELSE IF k > 2 * (n + 1) + 1 THEN Summary
                     ELSE <<titles[k \div 2], Forms[1 + (k % 2)]>>]
  BY <1>2 DEF Writes, InOrder
<1>4. ASSUME NEW i \in 1 .. n + 1
      PROVE  /\ Writes(p)[2 * i] = <<titles[i], "json">>
             /\ Writes(p)[2 * i + 1] = <<titles[i], "geojson">>
  <2>1. /\ (2 * i) \div 2 = i /\ (2 * i) % 2 = 0
        /\ (2 * i + 1) \div 2 = i /\ (2 * i + 1) % 2 = 1
    BY <1>1
  <2>2. Forms[1] = "json" /\ Forms[2] = "geojson"
    BY DEF Forms
  <2>3. /\ 2 * i \in 2 .. 2 * n + 2 /\ 2 * i + 1 \in 3 .. 2 * n + 3
    BY <1>1
  <2>4. ASSUME NEW k \in 2 .. 2 * n + 3
        PROVE  Writes(p)[k] = <<titles[k \div 2], Forms[1 + (k % 2)]>>
    BY <1>1, <1>3
  <2>5. /\ Writes(p)[2 * i] = <<titles[(2 * i) \div 2], Forms[1 + ((2 * i) % 2)]>>
        /\ Writes(p)[2 * i + 1]
             = <<titles[(2 * i + 1) \div 2], Forms[1 + ((2 * i + 1) % 2)]>>
    <3>1. 2 * i \in 2 .. 2 * n + 3 /\ 2 * i + 1 \in 2 .. 2 * n + 3
      BY <1>1, <2>3
    <3> HIDE DEF n, titles
    <3> QED  BY <2>4, <3>1
  <2> HIDE DEF n, titles
  <2> QED  BY <2>1, <2>2, <2>5
<1>5. Writes(p)[1] = Mapping
  BY <1>1, <1>3
<1>6. \A k \in 2 * n + 4 .. LastWrite(p) : Writes(p)[k] = Summary
  BY <1>1, <1>3
<1>7. /\ Writes(p)[2 * n + 2] = Latest("json")
      /\ Writes(p)[2 * n + 3] = Latest("geojson")
  <2>1. n + 1 \in 1 .. n + 1 /\ 2 * (n + 1) = 2 * n + 2 /\ 2 * (n + 1) + 1 = 2 * n + 3
    BY <1>1
  <2>2. /\ Writes(p)[2 * (n + 1)] = <<titles[n + 1], "json">>
        /\ Writes(p)[2 * (n + 1) + 1] = <<titles[n + 1], "geojson">>
    BY <1>4, <2>1
  <2> QED  BY <1>2, <2>1, <2>2 DEF Latest
<1>8. \A i \in 1 .. n : /\ Writes(p)[2 * i] = <<Objectives[i], "json">>
                        /\ Writes(p)[2 * i + 1] = <<Objectives[i], "geojson">>
  BY <1>1, <1>2, <1>4
<1> QED  BY <1>5, <1>6, <1>7, <1>8

(* Every place is one of these.                                            *)
LEMMA Places ==
  ASSUME NEW p \in Invocations, NEW k \in 1 .. LastWrite(p)
  PROVE  \/ k = 1
         \/ \E i \in 1 .. Len(Objectives) : k = 2 * i \/ k = 2 * i + 1
         \/ k = 2 * Len(Objectives) + 2 \/ k = 2 * Len(Objectives) + 3
         \/ k \in 2 * Len(Objectives) + 4 .. LastWrite(p)
<1> DEFINE n == Len(Objectives)
<1>1. n \in Nat /\ LastWrite(p) \in Nat
  BY LastWriteIsNat
<1>2. CASE k \in 2 .. 2 * n + 1
  <2>1. k \div 2 \in 1 .. n /\ (k = 2 * (k \div 2) \/ k = 2 * (k \div 2) + 1)
    BY <1>1, <1>2
  <2> QED  BY <2>1
<1> QED  BY <1>1, <1>2

LEMMA WritesNames ==
  ASSUME NEW p \in Invocations, NEW k \in 1 .. LastWrite(p)
  PROVE  Writes(p)[k] \in Names
<1>1. CASE k = 1
  BY <1>1, WritesAt DEF Names
<1>2. ASSUME NEW i \in 1 .. Len(Objectives), k = 2 * i \/ k = 2 * i + 1
      PROVE  Writes(p)[k] \in Names
  <2>1. Objectives[i] \in Plans
    BY PlanNames
  <2>2. \A form \in Range(Forms) : <<Objectives[i], form>> \in Names
    BY <2>1 DEF Names
  <2>3. \/ Writes(p)[k] = <<Objectives[i], "json">>
        \/ Writes(p)[k] = <<Objectives[i], "geojson">>
    BY <1>2, WritesAt
  <2> QED  BY <2>2, <2>3, FormNames
<1>3. CASE k = 2 * Len(Objectives) + 2 \/ k = 2 * Len(Objectives) + 3
  <2>1. Writes(p)[k] \in {Latest("json"), Latest("geojson")}
    BY <1>3, WritesAt
  <2>2. \A form \in Range(Forms) : <<"latest", form>> \in Names
    BY DEF Names
  <2> QED  BY <2>1, <2>2, FormNames DEF Latest
<1>4. CASE k \in 2 * Len(Objectives) + 4 .. LastWrite(p)
  BY <1>4, WritesAt DEF Names
<1>5. \/ k = 1
      \/ \E i \in 1 .. Len(Objectives) : k = 2 * i \/ k = 2 * i + 1
      \/ k = 2 * Len(Objectives) + 2 \/ k = 2 * Len(Objectives) + 3
      \/ k \in 2 * Len(Objectives) + 4 .. LastWrite(p)
  BY Places
<1> QED  BY <1>1, <1>2, <1>3, <1>4, <1>5

-------------------------------------------------------------------------------
(* The documents                                                           *)

LEMMA FileTypesInit == Init => FileTypes
<1> SUFFICES ASSUME Init PROVE FileTypes
  OBVIOUS
<1>1. /\ phase = [p \in Invocations |-> "out"] /\ step = [p \in Invocations |-> 0]
      /\ directory = [n \in Names |-> Absent] /\ durable = [n \in Names |-> Absent]
  BY DEF Init
<1>2. StoredFiles(directory) /\ StoredFiles(durable)
  BY <1>1 DEF StoredFiles
<1>3. PathTypes
  BY PlanFilesAssumption DEF Init, PathTypes
<1> QED  BY <1>1, <1>2, <1>3 DEF FileTypes, Phases, Writing

(* What an invocation goes on to after a write.                            *)
LEMMA OnwardEffect ==
  ASSUME FileTypes, NEW p \in Invocations, phase[p] = "sync", Onward(p)
  PROVE  /\ phase' \in [Invocations -> Phases] /\ step' \in [Invocations -> Nat]
         /\ \A q \in Invocations \ {p} : phase'[q] = phase[q] /\ step'[q] = step[q]
         /\ \/ /\ step[p] = 1 /\ phase'[p] = "planning" /\ step'[p] = 1
            \/ /\ step[p] = LastWrite(p) /\ phase'[p] = "done"
               /\ step'[p] = step[p]
            \/ /\ step[p] < LastWrite(p) /\ phase'[p] = "create"
               /\ step'[p] = step[p] + 1
<1>1. step[p] \in 1 .. LastWrite(p) /\ LastWrite(p) \in Nat
  BY LastWriteIsNat DEF FileTypes, Writing
<1> QED  BY <1>1 DEF Onward, FileTypes, Phases, Writing

(* What a step of one invocation leaves of phases and places.              *)
LEMMA ControlTypes ==
  ASSUME FileTypes, NEW p \in Invocations, Start(p) \/ Invoke(p) \/ Kill(p)
  PROVE  /\ phase' \in [Invocations -> Phases] /\ step' \in [Invocations -> Nat]
         /\ \A q \in Invocations \ {p} : phase'[q] = phase[q] /\ step'[q] = step[q]
         /\ phase'[p] \in Writing => step'[p] \in 1 .. LastWrite(p)
         /\ phase'[p] = "planning" => step'[p] = 1
<1>1. /\ LastWrite(p) \in Nat /\ LastWrite(p) >= 4
  BY LastWriteIsNat
<1>2. CASE Start(p) \/ FindPlans(p)
  BY <1>1, <1>2 DEF Start, FindPlans, Goto, FileTypes, Phases, Writing
<1>3. CASE FindNoPlan(p) \/ FailWrite(p) \/ Kill(p)
  BY <1>3 DEF FindNoPlan, FailWrite, Kill, Goto, FileTypes, Phases, Writing
<1>4. CASE MakeDirectory(p) \/ CreateTemporary(p) \/ FillTemporary(p) \/ ReplaceTarget(p)
  BY <1>4
  DEF MakeDirectory, CreateTemporary, FillTemporary, ReplaceTarget, Goto, FileTypes, Phases,
      Writing
<1>5. CASE SyncDirectory(p)
  <2>1. phase[p] = "sync" /\ Onward(p)
    BY <1>5 DEF SyncDirectory
  <2>2. step[p] \in 1 .. LastWrite(p)
    BY <2>1 DEF FileTypes, Writing
  <2> QED  BY <1>1, <2>1, <2>2, OnwardEffect DEF Writing
<1> QED  BY <1>2, <1>3, <1>4, <1>5 DEF Invoke

LEMMA WholeIsNotTorn ==
  ASSUME NEW name, NEW document, document = Absent \/ Stored(name, document)
  PROVE  Torn(document) = document
BY DEF Torn, Stored, Document

(* A rename puts a whole document where it belongs.                        *)
LEMMA ReplaceStores ==
  ASSUME FileTypes, NEW p \in Invocations, ReplaceTarget(p)
  PROVE  /\ StoredFiles(directory')
         /\ Target(p) \in Names /\ directory'[Target(p)] = Filled(p)
         /\ Filled(p).by = p
         /\ \A n \in Names \ {Target(p)} : directory'[n] = directory[n]
<1>1. step[p] \in 1 .. LastWrite(p)
  BY DEF ReplaceTarget, FileTypes, Writing
<1>2. Target(p) \in Names
  BY <1>1, WritesNames DEF Target
<1>3. /\ directory' = [directory EXCEPT ![Target(p)] = Filled(p)]
      /\ directory = [n \in Names |-> directory[n]]
  BY DEF ReplaceTarget, FileTypes, StoredFiles
<1>4. /\ directory' = [n \in Names |-> directory'[n]]
      /\ directory'[Target(p)] = Filled(p)
      /\ \A n \in Names \ {Target(p)} : directory'[n] = directory[n]
  BY <1>2, <1>3
<1>5. Stored(Target(p), Filled(p))
  BY <1>1 DEF Stored, Filled, Document, Target
<1>6. Filled(p).by = p
  BY DEF Filled, Document
<1> QED  BY <1>2, <1>4, <1>5, <1>6 DEF StoredFiles, FileTypes

(* What is found after a loss of power: under each name the one or the     *)
(* other document, or nothing under any.                                   *)
LEMMA LossEffect ==
  ASSUME FileTypes, LosePower
  PROVE  /\ durable' = directory' /\ StoredFiles(directory')
         /\ \/ \A n \in Names : directory'[n] \in {directory[n], durable[n]}
            \/ /\ found < Depth /\ \A n \in Names : directory'[n] = Absent
         /\ PathTypes' /\ losses' > 0 /\ UNCHANGED <<step, found>>
         /\ phase' \in [Invocations -> Phases]
         /\ \A q \in Invocations : phase'[q] = IF q \in Running THEN "killed"
                                                ELSE phase[q]
<1>1. /\ made' \in anchored .. made /\ anchored' = made' /\ losses' = losses + 1
      /\ UNCHANGED <<step, found>> /\ durable' = directory'
      /\ IF made' = made THEN LoseEntries ELSE LoseDirectory
      /\ phase' = [q \in Invocations |-> IF q \in Running THEN "killed" ELSE phase[q]]
  BY DEF LosePower
<1>2. /\ {found, anchored, made, losses} \subseteq Nat /\ Depth \in Nat
      /\ found <= anchored /\ anchored <= made /\ made <= Depth
  BY PlanFilesAssumption DEF FileTypes, PathTypes
<1>3. /\ PathTypes' /\ losses' > 0
      /\ made' # made => found < Depth
  BY <1>1, <1>2 DEF PathTypes
<1>4. phase' \in [Invocations -> Phases]
  BY <1>1 DEF FileTypes, Phases
<1>5. /\ StoredFiles(directory')
      /\ \/ \A n \in Names : directory'[n] \in {directory[n], durable[n]}
         \/ /\ found < Depth /\ \A n \in Names : directory'[n] = Absent
  <2>1. CASE LoseEntries
    <3>1. PICK lost \in SUBSET {n \in Names : directory[n] # durable[n]} :
            directory' = [n \in Names |->
                            Torn(IF n \in lost THEN durable[n] ELSE directory[n])]
      BY <2>1 DEF LoseEntries
    <3>2. \A n \in Names :
            directory'[n] = IF n \in lost THEN durable[n] ELSE directory[n]
      BY <3>1, WholeIsNotTorn DEF FileTypes, StoredFiles
    <3>3. directory' = [n \in Names |-> directory'[n]]
      BY <3>1
    <3> QED  BY <3>2, <3>3 DEF FileTypes, StoredFiles
  <2>2. CASE LoseDirectory /\ made' # made
    <3>1. /\ directory' = [n \in Names |-> directory'[n]]
          /\ \A n \in Names : directory'[n] = Absent
      BY <2>2 DEF LoseDirectory
    <3> QED  BY <1>3, <2>2, <3>1 DEF StoredFiles
  <2> QED  BY <1>1, <2>1, <2>2
<1> QED  BY <1>1, <1>3, <1>4, <1>5

LEMMA FileTypesNext ==
  ASSUME FileTypes, [Next]_vars
  PROVE  FileTypes'
<1>1. CASE UNCHANGED vars
  BY <1>1 DEF vars, path, conditions, FileTypes, PathTypes, StoredFiles, Stored
<1>2. ASSUME NEW p \in Invocations, Start(p) \/ Invoke(p) \/ Kill(p)
      PROVE  FileTypes'
  <2>1. StoredFiles(directory') /\ StoredFiles(durable')
    <3>1. CASE ReplaceTarget(p)
      BY <3>1, ReplaceStores DEF ReplaceTarget, FileTypes
    <3>2. CASE SyncDirectory(p)
      BY <3>2 DEF SyncDirectory, EntriesSynced, FileTypes
    <3>3. CASE UNCHANGED <<directory, durable>>
      BY <3>3 DEF FileTypes
    <3> QED
      BY <1>2, <3>1, <3>2, <3>3
      DEF Start, Invoke, Kill, FindPlans, FindNoPlan, MakeDirectory,
          CreateTemporary, FillTemporary, FailWrite
  <2>2. /\ phase' \in [Invocations -> Phases] /\ step' \in [Invocations -> Nat]
        /\ \A q \in Invocations :
             /\ phase'[q] \in Writing => step'[q] \in 1 .. LastWrite(q)
             /\ phase'[q] = "planning" => step'[q] = 1
    BY <1>2, ControlTypes DEF FileTypes
  <2>3. PathTypes'
    <3>1. CASE MakeDirectory(p)
      <4>1. made < Depth /\ made' = made + 1 /\ UNCHANGED <<found, anchored, losses>>
        BY <3>1 DEF MakeDirectory, conditions
      <4> QED  BY <4>1, PlanFilesAssumption DEF FileTypes, PathTypes
    <3>2. CASE UNCHANGED <<path, conditions>>
      BY <3>2 DEF path, conditions, FileTypes, PathTypes
    <3> QED
      BY <1>2, <3>1, <3>2
      DEF Start, Invoke, Kill, FindPlans, FindNoPlan, CreateTemporary,
          FillTemporary, ReplaceTarget, SyncDirectory, FailWrite
  <2> QED  BY <2>1, <2>2, <2>3 DEF FileTypes
<1>3. CASE LosePower
  BY <1>3, LossEffect DEF FileTypes, Writing
<1> QED  BY <1>1, <1>2, <1>3 DEF Next

LEMMA FileTypesInvariant == Spec => []FileTypes
BY FileTypesInit, FileTypesNext, PTL DEF Spec

(* Whatever fails, is killed, overlaps or loses power: a name shows a      *)
(* whole document that was written under it, or none.                      *)
THEOREM FilesAreWhole == Spec => []FilesWhole
<1>1. FileTypes => FilesWhole
  BY DEF FileTypes, StoredFiles, Stored, Document, FilesWhole
<1> QED  BY <1>1, FileTypesInvariant, PTL

-------------------------------------------------------------------------------
(* Temporary files                                                         *)

(* A temporary file is of the write its invocation is making, of one that  *)
(* was killed, or of one that failed to remove it.                         *)
TemporaryOfWrite ==
  \A t \in temporary :
    /\ t.by \in Invocations
    /\ t = Document(t.by, t.at, t.state)
    /\ \/ phase[t.by] = "fill" /\ t = Document(t.by, step[t.by], "cached")
       \/ phase[t.by] = "replace" /\ t = Filled(t.by)
       \/ phase[t.by] = "killed"
       \/ phase[t.by] = "failed" /\ ~unlinks

LEMMA TemporaryNext ==
  ASSUME FileTypes, TemporaryOfWrite, [Next]_vars
  PROVE  TemporaryOfWrite'
<1>1. CASE UNCHANGED vars
  BY <1>1 DEF vars, conditions, TemporaryOfWrite, Filled
<1>2. ASSUME NEW p \in Invocations, Start(p) \/ Invoke(p) \/ Kill(p)
      PROVE  TemporaryOfWrite'
  <2>1. \A q \in Invocations \ {p} : phase'[q] = phase[q] /\ step'[q] = step[q]
    BY <1>2, ControlTypes
  <2>0. UNCHANGED unlinks
    BY <1>2
    DEF conditions, Start, Invoke, Kill, FindPlans, FindNoPlan, MakeDirectory,
        CreateTemporary, FillTemporary, ReplaceTarget, SyncDirectory, FailWrite
  <2>2. CASE CreateTemporary(p)
    <3>1. /\ phase[p] = "create" /\ phase'[p] = "fill" /\ step'[p] = step[p]
          /\ temporary' = temporary \cup {Document(p, step[p], "cached")}
      BY <2>2 DEF CreateTemporary, Goto, FileTypes
    <3>2. \A t \in temporary : t.by # p
      BY <3>1 DEF TemporaryOfWrite
    <3> QED  BY <2>0, <2>1, <3>1, <3>2 DEF TemporaryOfWrite, Document, Filled
  <2>3. CASE FillTemporary(p)
    <3>1. /\ phase[p] = "fill" /\ phase'[p] = "replace" /\ step'[p] = step[p]
          /\ temporary' = (temporary \ {Document(p, step[p], "cached")})
                            \cup {Filled(p)}
      BY <2>3 DEF FillTemporary, Goto, FileTypes
    <3>2. \A t \in temporary : t.by = p => t = Document(p, step[p], "cached")
      BY <3>1 DEF TemporaryOfWrite
    <3> QED  BY <2>0, <2>1, <3>1, <3>2 DEF TemporaryOfWrite, Document, Filled
  <2>4. CASE ReplaceTarget(p)
    <3>1. phase[p] = "replace" /\ temporary' = temporary \ {Filled(p)}
      BY <2>4 DEF ReplaceTarget
    <3>2. \A t \in temporary : t.by = p => t = Filled(p)
      BY <3>1 DEF TemporaryOfWrite
    <3> QED  BY <2>0, <2>1, <3>1, <3>2 DEF TemporaryOfWrite, Filled
  <2>5. CASE FailWrite(p)
    <3>1. /\ phase'[p] = "failed"
          /\ \/ temporary' = {t \in temporary : t.by # p}
             \/ ~unlinks /\ temporary' = temporary
      BY <2>5 DEF FailWrite, LeftOnError, Goto, FileTypes
    <3> QED  BY <2>0, <2>1, <3>1 DEF TemporaryOfWrite, Filled
  <2>6. CASE Kill(p)
    <3>1. phase'[p] = "killed" /\ UNCHANGED temporary
      BY <2>6 DEF Kill, Goto, FileTypes
    <3> QED  BY <2>0, <2>1, <3>1 DEF TemporaryOfWrite, Filled
  <2>7. CASE \/ Start(p) \/ FindPlans(p) \/ FindNoPlan(p) \/ MakeDirectory(p)
             \/ SyncDirectory(p)
    <3>1. phase[p] \in {"out", "planning", "create", "sync"} /\ UNCHANGED temporary
      BY <2>7 DEF Start, FindPlans, FindNoPlan, MakeDirectory, SyncDirectory
    <3>2. \A t \in temporary : t.by # p
      BY <3>1 DEF TemporaryOfWrite
    <3> QED  BY <2>0, <2>1, <3>1, <3>2 DEF TemporaryOfWrite, Filled
  <2> QED  BY <1>2, <2>2, <2>3, <2>4, <2>5, <2>6, <2>7 DEF Invoke
<1>3. CASE LosePower
  <2>1. /\ temporary' \subseteq {Torn(t) : t \in temporary}
        /\ UNCHANGED <<unlinks, step>>
    BY <1>3 DEF LosePower, LoseEntries, LoseDirectory
  <2>2. ASSUME NEW t \in temporary
        PROVE  /\ Torn(t).by = t.by /\ Torn(t) = Document(t.by, Torn(t).at, Torn(t).state)
               /\ t.by \in Invocations
               /\ phase'[t.by] = "killed" \/ (phase'[t.by] = "failed" /\ ~unlinks)
    <3>1. t.by \in Invocations /\ t = Document(t.by, t.at, t.state)
      BY DEF TemporaryOfWrite
    <3>2. \/ t.by \in Running \/ phase[t.by] = "killed"
          \/ phase[t.by] = "failed" /\ ~unlinks
      BY <3>1 DEF TemporaryOfWrite, Running, Writing
    <3>3. phase'[t.by] = "killed" \/ (phase'[t.by] = "failed" /\ ~unlinks)
      BY <1>3, <3>1, <3>2, LossEffect DEF Running, Writing
    <3>4. CASE t # Absent /\ t.state = "cached"
      BY <3>1, <3>3, <3>4 DEF Torn, Document
    <3>5. CASE ~(t # Absent /\ t.state = "cached")
      BY <3>1, <3>3, <3>5 DEF Torn, Document
    <3> QED  BY <3>4, <3>5
  <2> QED  BY <2>1, <2>2 DEF TemporaryOfWrite
<1> QED  BY <1>1, <1>2, <1>3 DEF Next

(* An invocation that ends by itself, with an error or without, leaves no  *)
(* temporary file, whatever the others do.                                 *)
THEOREM NoTemporaryIsLeft == Spec => []TemporaryIsRemoved
<1>1. Init => TemporaryOfWrite
  BY DEF Init, TemporaryOfWrite
<1>2. TemporaryOfWrite => TemporaryIsRemoved
  BY DEF TemporaryOfWrite, TemporaryIsRemoved
<1> QED
  BY <1>1, <1>2, TemporaryNext, FileTypesInvariant, PTL DEF Spec

-------------------------------------------------------------------------------
(* One invocation after the other                                          *)

(* The order in which every invocation writes: the mapping, its plans, the *)
(* latest plan, the summary.                                               *)
Rank(name) ==
  IF name = Mapping THEN 0
  ELSE IF name = Summary THEN 3
  ELSE IF name \in {Latest("json"), Latest("geojson")} THEN 2 ELSE 1

RunIn(files, name) == IF files[name] = Absent THEN 0 ELSE files[name].by

(* Either view of the directory, before or after its entries are           *)
(* synchronised, is ordered, and so is every mixture of the two.           *)
Ordered(files, others) ==
  \A n, m \in Names : Rank(n) < Rank(m) => RunIn(others, m) <= RunIn(files, n)

BothOrdered ==
  /\ Ordered(directory, directory) /\ Ordered(directory, durable)
  /\ Ordered(durable, directory) /\ Ordered(durable, durable)

(* What is found was written by invocations that were started.             *)
Known(files) ==
  \A n \in Names : files[n] # Absent => phase[files[n].by] # "out"

Active == Writing \cup {"planning"}

(* Who was started before another one has ended.                           *)
Turns ==
  \A p, q \in Invocations :
    p < q /\ phase[q] # "out" => phase[p] \notin Active \cup {"out"}

NewestRun(p) == \A q \in Invocations : q > p => phase[q] = "out"

WrittenIn(files, p, k) == \A j \in 1 .. k : RunIn(files, Writes(p)[j]) = p

WrittenUpTo(p, k) == WrittenIn(directory, p, k) /\ WrittenIn(durable, p, k)

LeftAll(p) ==
  /\ WrittenUpTo(p, LastWrite(p))
  /\ directory[Summary].at = LastWrite(p)
  /\ durable[Summary].at = LastWrite(p)

(* The directory was taken by a loss of power, which it was not there to   *)
(* survive.                                                                *)
Gone ==
  /\ found < Depth /\ losses > 0
  /\ \A n \in Names : directory[n] = Absent /\ durable[n] = Absent

(* What the running invocation, or the last one, has already left.         *)
Left(p) ==
  /\ phase[p] \in Writing => WrittenUpTo(p, step[p] - 1)
  /\ phase[p] = "planning" => WrittenUpTo(p, 1)
  /\ phase[p] = "sync" => directory[Target(p)] = Filled(p)
  /\ phase[p] = "done" /\ NewestRun(p) => LeftAll(p) \/ Gone

Progress == \A p \in Invocations : Left(p)

InTurn ==
  alone /\ opens =>
    BothOrdered /\ Known(directory) /\ Known(durable) /\ Turns /\ Progress

LEMMA Ranks ==
  /\ Rank(Mapping) = 0 /\ Rank(Summary) = 3
  /\ \A form \in Range(Forms) : Rank(Latest(form)) = 2
  /\ \A plan \in Plans, form \in Range(Forms) : Rank(<<plan, form>>) = 1
  /\ \A n \in Names :
       \/ n = Mapping
       \/ n = Summary
       \/ \E form \in Range(Forms) : n = Latest(form)
       \/ \E plan \in Plans, form \in Range(Forms) : n = <<plan, form>>
<1>1. /\ "latest" \notin Plans /\ "endpoint-mapping" \notin Plans
      /\ "run-summary" \notin Plans
  BY PlanFilesAssumption
<1>2. /\ Rank(Mapping) = 0 /\ Rank(Summary) = 3
      /\ \A form \in Range(Forms) : Rank(Latest(form)) = 2
  BY FormNames DEF Rank, Mapping, Summary, Latest
<1>3. ASSUME NEW plan \in Plans, NEW form \in Range(Forms)
      PROVE  Rank(<<plan, form>>) = 1
  BY <1>1 DEF Rank, Mapping, Summary, Latest
<1>4. ASSUME NEW n \in Names
      PROVE  \/ n = Mapping
             \/ n = Summary
             \/ \E form \in Range(Forms) : n = Latest(form)
             \/ \E plan \in Plans, form \in Range(Forms) : n = <<plan, form>>
  BY DEF Names, Latest
<1> QED  BY <1>2, <1>3, <1>4

(* When a document is written, every name of a lower rank has been written *)
(* before.                                                                 *)
LEMMA LowerIsEarlier ==
  ASSUME NEW p \in Invocations, NEW k \in 1 .. LastWrite(p), NEW n \in Names,
         Rank(n) < Rank(Writes(p)[k])
  PROVE  \E j \in 1 .. k - 1 : Writes(p)[j] = n
<1> DEFINE c == Len(Objectives)
<1>1. /\ c \in Nat /\ LastWrite(p) \in Nat /\ LastWrite(p) >= 2 * c + 4
  BY LastWriteIsNat
<1>2. /\ Writes(p)[1] = Mapping
      /\ \A i \in 1 .. c : /\ Writes(p)[2 * i] = <<Objectives[i], "json">>
                           /\ Writes(p)[2 * i + 1] = <<Objectives[i], "geojson">>
      /\ Writes(p)[2 * c + 2] = Latest("json")
      /\ Writes(p)[2 * c + 3] = Latest("geojson")
      /\ \A j \in 2 * c + 4 .. LastWrite(p) : Writes(p)[j] = Summary
  BY WritesAt
<1>3. \A i \in 1 .. c : Objectives[i] \in Plans
  BY PlanNames
<1>4. /\ k = 1 => Rank(Writes(p)[k]) = 0
      /\ k \in 2 .. 2 * c + 1 => Rank(Writes(p)[k]) = 1
      /\ k \in 2 * c + 2 .. 2 * c + 3 => Rank(Writes(p)[k]) = 2
      /\ k \in 2 * c + 4 .. LastWrite(p) => Rank(Writes(p)[k]) = 3
  <2>1. k = 1 => Rank(Writes(p)[k]) = 0
    BY <1>2, Ranks
  <2>2. ASSUME k \in 2 .. 2 * c + 1 PROVE Rank(Writes(p)[k]) = 1
    <3>1. PICK i \in 1 .. c : k = 2 * i \/ k = 2 * i + 1
      BY <1>1, <2>2, Places
    <3>2. \A form \in {"json", "geojson"} : Rank(<<Objectives[i], form>>) = 1
      BY <1>3, Ranks, FormNames
    <3>3. \/ Writes(p)[k] = <<Objectives[i], "json">>
          \/ Writes(p)[k] = <<Objectives[i], "geojson">>
      BY <1>2, <3>1
    <3> QED  BY <3>2, <3>3
  <2>3. ASSUME k \in 2 * c + 2 .. 2 * c + 3 PROVE Rank(Writes(p)[k]) = 2
    <3>1. k = 2 * c + 2 \/ k = 2 * c + 3
      BY <1>1, <2>3
    <3>2. Writes(p)[k] \in {Latest("json"), Latest("geojson")}
      BY <1>2, <3>1
    <3> QED  BY <3>2, Ranks, FormNames
  <2>4. k \in 2 * c + 4 .. LastWrite(p) => Rank(Writes(p)[k]) = 3
    BY <1>2, Ranks
  <2> QED  BY <2>1, <2>2, <2>3, <2>4
<1>5. CASE n = Mapping
  <2>1. Rank(n) = 0
    BY <1>5, Ranks
  <2>2. k # 1
    BY <1>4, <2>1
  <2>3. 1 \in 1 .. k - 1
    BY <1>1, <2>2
  <2> QED  BY <1>2, <1>5, <2>3
<1>6. CASE n = Summary
  BY <1>1, <1>4, <1>6, Ranks
<1>7. ASSUME NEW form \in Range(Forms), n = Latest(form)
      PROVE  \E j \in 1 .. k - 1 : Writes(p)[j] = n
  <2>1. Rank(n) = 2
    BY <1>7, Ranks
  <2>2. k \in 2 * c + 4 .. LastWrite(p)
    BY <1>1, <1>4, <2>1
  <2>3. 2 * c + 2 \in 1 .. k - 1 /\ 2 * c + 3 \in 1 .. k - 1
    BY <1>1, <2>2
  <2> QED  BY <1>2, <1>7, <2>3, FormNames
<1>8. ASSUME NEW plan \in Plans, NEW form \in Range(Forms), n = <<plan, form>>
      PROVE  \E j \in 1 .. k - 1 : Writes(p)[j] = n
  <2>1. Rank(n) = 1
    BY <1>8, Ranks
  <2>2. k \in 2 * c + 2 .. LastWrite(p)
    BY <1>1, <1>4, <2>1
  <2>3. PICK i \in 1 .. c : plan = Objectives[i]
    BY PlanNames
  <2>4. 2 * i \in 1 .. k - 1 /\ 2 * i + 1 \in 1 .. k - 1
    BY <1>1, <2>2
  <2>5. n \in {<<Objectives[i], "json">>, <<Objectives[i], "geojson">>}
    BY <1>8, <2>3, FormNames
  <2> QED  BY <1>2, <2>4, <2>5
<1> QED  BY <1>5, <1>6, <1>7, <1>8, Ranks

LEMMA InvocationIsNat == Invocations \subseteq Nat \ {0}
BY PlanFilesAssumption DEF Invocations

LEMMA RunsAreNat ==
  ASSUME FileTypes, NEW n \in Names
  PROVE  RunIn(directory, n) \in Nat /\ RunIn(durable, n) \in Nat
BY InvocationIsNat DEF FileTypes, StoredFiles, Stored, RunIn

(* While one invocation runs, no other one does, none is newer, and the    *)
(* directory has nothing from a newer one.                                 *)
LEMMA OnlyOne ==
  ASSUME FileTypes, InTurn, alone, opens, NEW p \in Invocations,
         phase[p] \in Active
  PROVE  /\ \A q \in Invocations \ {p} :
              phase[q] \notin Active /\ ~(phase[q] = "done" /\ NewestRun(q))
         /\ NewestRun(p)
         /\ \A n \in Names : RunIn(directory, n) <= p /\ RunIn(durable, n) <= p
<1>1. Turns /\ Known(directory) /\ Known(durable)
  BY DEF InTurn
<1>2. p \in Nat \ {0} /\ phase[p] # "out"
  BY InvocationIsNat DEF Active, Writing
<1>3. \A q \in Invocations : q \in Nat /\ (q > p => phase[q] = "out")
  BY <1>1, <1>2, InvocationIsNat DEF Turns
<1>4. ASSUME NEW q \in Invocations \ {p}
      PROVE  phase[q] \notin Active /\ ~(phase[q] = "done" /\ NewestRun(q))
  <2>1. CASE q > p
    BY <1>3, <2>1 DEF Active, Writing
  <2>2. CASE q < p
    <3>1. phase[q] \notin Active
      BY <1>1, <1>2, <2>2 DEF Turns
    <3>2. ~NewestRun(q)
      BY <1>2, <1>3, <2>2 DEF NewestRun
    <3> QED  BY <3>1, <3>2
  <2> QED  BY <1>2, <1>3, <2>1, <2>2
<1>5. ASSUME NEW n \in Names
      PROVE  RunIn(directory, n) <= p /\ RunIn(durable, n) <= p
  BY <1>1, <1>2, <1>3 DEF Known, RunIn, FileTypes, StoredFiles, Stored
<1> QED  BY <1>3, <1>4, <1>5 DEF NewestRun

-------------------------------------------------------------------------------
(* Steps in turn                                                           *)

(* Steps that leave the directory alone.                                   *)
LEMMA SameFiles ==
  ASSUME UNCHANGED <<directory, durable>>
  PROVE  /\ BothOrdered' <=> BothOrdered
         /\ \A p \in Invocations : LeftAll(p)' <=> LeftAll(p)
         /\ UNCHANGED conditions => (Gone' <=> Gone)
         /\ \A p \in Invocations, k \in Nat :
              WrittenUpTo(p, k) =>
                WrittenIn(directory', p, k) /\ WrittenIn(durable', p, k)
BY DEF BothOrdered, WrittenUpTo, LeftAll, Gone, conditions

LEMMA StartInTurn ==
  ASSUME FileTypes, InTurn, alone, opens, alone', opens',
         NEW p \in Invocations, Start(p)
  PROVE  InTurn'
<1>1. BothOrdered /\ Known(directory) /\ Known(durable) /\ Turns /\ Progress
  BY DEF InTurn
<1>2. /\ phase[p] = "out" /\ Running = {}
      /\ \A q \in Invocations : q < p => phase[q] # "out"
      /\ UNCHANGED <<directory, durable>> /\ UNCHANGED conditions
      /\ \/ phase'[p] = "create" /\ step'[p] = 1
         \/ phase'[p] = "failed" /\ step'[p] = step[p]
      /\ \A q \in Invocations \ {p} : phase'[q] = phase[q] /\ step'[q] = step[q]
  BY DEF Start, Goto, FileTypes
<1>3. \A q \in Invocations : phase[q] \notin Active
  BY <1>2 DEF Running, Active
<1>4. Turns'
  BY <1>1, <1>2, <1>3, InvocationIsNat DEF Turns, Active, Writing
<1>5. Known(directory)' /\ Known(durable)'
  BY <1>1, <1>2 DEF Known, FileTypes, StoredFiles, Stored
<1>6. Progress'
  <2>1. WrittenIn(directory', p, 1 - 1) /\ WrittenIn(durable', p, 1 - 1)
    BY DEF WrittenIn
  <2>2. \A q \in Invocations : NewestRun(q)' => NewestRun(q)
    BY <1>2 DEF NewestRun
  <2>3. ASSUME NEW q \in Invocations
        PROVE  /\ phase'[q] \in Writing => q = p /\ phase'[q] = "create" /\ step'[q] = 1
               /\ phase'[q] # "planning" /\ phase'[q] # "sync"
               /\ phase'[q] = "done" => q # p /\ phase[q] = "done"
    BY <1>2, <1>3 DEF Active, Writing
  <2>4. \A q \in Invocations :
          phase'[q] = "done" /\ NewestRun(q)' => LeftAll(q)' \/ Gone'
    BY <1>1, <1>2, <2>2, <2>3, SameFiles DEF Progress, Left
  <2> QED  BY <2>1, <2>3, <2>4 DEF Progress, Left, WrittenUpTo
<1> QED  BY <1>1, <1>2, <1>4, <1>5, <1>6, SameFiles DEF InTurn

(* A step of the running invocation: it stays the only one, and only its   *)
(* own progress has to be seen to.                                         *)
LEMMA StepInTurn ==
  ASSUME FileTypes, InTurn, alone, opens, alone', opens',
         NEW p \in Invocations, phase[p] \in Active, phase'[p] # "out",
         phase' \in [Invocations -> Phases],
         \A q \in Invocations \ {p} : phase'[q] = phase[q],
         BothOrdered', Known(directory)', Known(durable)',
         Left(p)'
  PROVE  InTurn'
<1>1. /\ \A q \in Invocations \ {p} :
           phase[q] \notin Active /\ ~(phase[q] = "done" /\ NewestRun(q))
      /\ NewestRun(p) /\ Turns
  BY OnlyOne DEF InTurn
<1>2. Turns'
  <2>1. \A q \in Invocations \ {p} : q > p => phase'[q] = "out"
    BY <1>1 DEF NewestRun
  <2> QED  BY <1>1, <2>1, InvocationIsNat DEF Turns, Active, Writing
<1>3. ASSUME NEW q \in Invocations \ {p}
      PROVE  phase'[q] \notin Active /\ ~(phase'[q] = "done" /\ NewestRun(q)')
  <2>1. NewestRun(q)' => NewestRun(q)
    <3>1. phase[p] = "out" => phase'[p] = "out"
      BY DEF Active, Writing
    <3> QED  BY <1>1, <3>1 DEF NewestRun, Active, Writing
  <2> QED  BY <1>1, <2>1
<1>4. Progress'
  BY <1>3 DEF Progress, Left, Active, Writing
<1> QED  BY <1>2, <1>4 DEF InTurn

(* Before the rename, and where the invocation ends, nothing is new.       *)
LEMMA PrepareInTurn ==
  ASSUME FileTypes, InTurn, alone, opens, alone', opens',
         NEW p \in Invocations,
         \/ FindPlans(p) \/ FindNoPlan(p) \/ MakeDirectory(p)
         \/ CreateTemporary(p) \/ FillTemporary(p) \/ FailWrite(p) \/ Kill(p)
  PROVE  InTurn'
<1>1. /\ phase[p] \in Active /\ UNCHANGED <<directory, durable>>
      /\ phase' \in [Invocations -> Phases] /\ step' \in [Invocations -> Nat]
      /\ \A q \in Invocations \ {p} : phase'[q] = phase[q]
  <2>1. phase[p] \in Active /\ UNCHANGED <<directory, durable>>
    BY DEF FindPlans, FindNoPlan, MakeDirectory, CreateTemporary, FillTemporary, FailWrite, Kill,
           Running, Active, Writing
  <2> QED  BY <2>1, ControlTypes DEF Invoke
<1>2. \/ phase[p] = "planning" /\ phase'[p] = "create" /\ step'[p] = 2
      \/ /\ phase[p] \in Writing /\ phase'[p] \in {"create", "fill", "replace"}
         /\ step'[p] = step[p]
      \/ phase'[p] \in {"failed", "killed"}
  BY DEF FindPlans, FindNoPlan, MakeDirectory, CreateTemporary, FillTemporary, FailWrite, Kill,
         Goto, Writing, FileTypes
<1>3. Left(p) /\ BothOrdered /\ Known(directory) /\ Known(durable)
  BY DEF InTurn, Progress
<1>4. Left(p)'
  <2>1. step[p] \in Nat /\ step'[p] \in Nat
    BY <1>1 DEF FileTypes
  <2>2. CASE phase[p] = "planning" /\ phase'[p] = "create" /\ step'[p] = 2
    <3>1. /\ step'[p] - 1 = 1
          /\ WrittenIn(directory', p, 1) /\ WrittenIn(durable', p, 1)
      BY <1>1, <1>3, <2>2, SameFiles DEF Left
    <3> QED  BY <2>2, <3>1 DEF Left, WrittenUpTo
  <2>3. CASE /\ phase[p] \in Writing /\ phase'[p] \in {"create", "fill", "replace"}
             /\ step'[p] = step[p]
    <3>1. step[p] - 1 \in Nat /\ WrittenUpTo(p, step[p] - 1)
      BY <1>3, <2>3 DEF Left, FileTypes
    <3>2. /\ WrittenIn(directory', p, step[p] - 1)
          /\ WrittenIn(durable', p, step[p] - 1)
      BY <1>1, <3>1, SameFiles
    <3> QED  BY <2>3, <3>2 DEF Left, WrittenUpTo
  <2>4. CASE phase'[p] \in {"failed", "killed"}
    BY <2>4 DEF Left, Writing
  <2> QED  BY <1>2, <2>2, <2>3, <2>4
<1>5. BothOrdered' /\ Known(directory)' /\ Known(durable)'
  <2>1. phase'[p] # "out"
    BY <1>2
  <2>2. Known(directory)' /\ Known(durable)'
    BY <1>1, <1>3, <2>1 DEF Known, FileTypes, StoredFiles, Stored
  <2> QED  BY <1>1, <1>3, <2>2, SameFiles
<1> QED  BY <1>1, <1>2, <1>4, <1>5, StepInTurn

LEMMA ReplaceInTurn ==
  ASSUME FileTypes, InTurn, alone, opens, alone', opens',
         NEW p \in Invocations, ReplaceTarget(p)
  PROVE  InTurn'
<1>1. /\ phase[p] = "replace" /\ phase'[p] = "sync" /\ UNCHANGED <<durable, step>>
      /\ phase' \in [Invocations -> Phases]
      /\ \A q \in Invocations \ {p} : phase'[q] = phase[q]
      /\ phase[p] \in Active
  BY DEF ReplaceTarget, Goto, FileTypes, Active, Writing, Phases
<1>2. step[p] \in 1 .. LastWrite(p) /\ LastWrite(p) \in Nat /\ p \in Nat \ {0}
  BY <1>1, LastWriteIsNat, InvocationIsNat DEF FileTypes, Writing
<1>3. /\ Target(p) \in Names
      /\ RunIn(directory', Target(p)) = p
      /\ \A n \in Names \ {Target(p)} : RunIn(directory', n) = RunIn(directory, n)
  <2>1. Filled(p) # Absent
    BY <1>2, PlanFilesAssumption DEF Filled, Document
  <2>2. /\ Target(p) \in Names /\ directory'[Target(p)] = Filled(p)
        /\ Filled(p).by = p
        /\ \A n \in Names \ {Target(p)} : directory'[n] = directory[n]
    BY ReplaceStores
  <2> QED  BY <2>1, <2>2 DEF RunIn
<1>4. \A n \in Names : RunIn(directory, n) <= p /\ RunIn(durable, n) <= p
  BY <1>1, OnlyOne
<1>5. ASSUME NEW n \in Names, Rank(n) < Rank(Target(p))
      PROVE  RunIn(directory, n) = p /\ RunIn(durable, n) = p
  <2>1. PICK j \in 1 .. step[p] - 1 : Writes(p)[j] = n
    BY <1>2, <1>5, LowerIsEarlier DEF Target
  <2>2. WrittenUpTo(p, step[p] - 1)
    BY <1>1 DEF InTurn, Progress, Left, Writing
  <2> QED  BY <2>1, <2>2 DEF WrittenUpTo, WrittenIn
<1>6. BothOrdered'
  <2>1. BothOrdered
    BY DEF InTurn
  <2>2. \A n \in Names : /\ RunIn(directory, n) \in Nat /\ RunIn(durable, n) \in Nat
                         /\ Rank(n) \in Nat
    <3>1. \A n \in Names : Rank(n) \in Nat
      BY DEF Rank
    <3> QED  BY <3>1, RunsAreNat
  <2>3. ASSUME NEW n \in Names, NEW m \in Names, Rank(n) < Rank(m)
        PROVE  /\ RunIn(directory', m) <= RunIn(directory', n)
               /\ RunIn(durable, m) <= RunIn(directory', n)
               /\ RunIn(directory', m) <= RunIn(durable, n)
               /\ RunIn(durable, m) <= RunIn(durable, n)
    <3>1. /\ RunIn(directory, m) <= RunIn(directory, n)
          /\ RunIn(durable, m) <= RunIn(directory, n)
          /\ RunIn(directory, m) <= RunIn(durable, n)
          /\ RunIn(durable, m) <= RunIn(durable, n)
      BY <2>1, <2>3 DEF BothOrdered, Ordered
    <3>2. CASE n = Target(p)
      <4>1. m # Target(p)
        BY <2>2, <2>3, <3>2
      <4> QED  BY <1>3, <1>4, <2>2, <3>1, <3>2, <4>1
    <3>3. CASE m = Target(p)
      <4>1. n # Target(p)
        BY <2>2, <2>3, <3>3
      <4>2. RunIn(directory, n) = p /\ RunIn(durable, n) = p
        BY <1>5, <2>3, <3>3
      <4> QED  BY <1>2, <1>3, <3>1, <3>3, <4>1, <4>2
    <3>4. CASE n # Target(p) /\ m # Target(p)
      BY <1>3, <3>1, <3>4
    <3> QED  BY <3>2, <3>3, <3>4
  <2> QED  BY <1>1, <2>3 DEF BothOrdered, Ordered, RunIn
<1>7. Known(directory)' /\ Known(durable)'
  <2>1. Known(directory) /\ Known(durable)
    BY DEF InTurn
  <2>2. \A n \in Names \ {Target(p)} : directory'[n] = directory[n]
    BY ReplaceStores
  <2>3. directory'[Target(p)].by = p
    BY ReplaceStores
  <2> QED
    BY <1>1, <2>1, <2>2, <2>3 DEF Known, FileTypes, StoredFiles, Stored
<1>8. Left(p)'
  <2>1. WrittenUpTo(p, step[p] - 1)
    BY <1>1 DEF InTurn, Progress, Left, Writing
  <2>2. ASSUME NEW j \in 1 .. step[p] - 1
        PROVE  /\ RunIn(directory', Writes(p)[j]) = p
               /\ RunIn(durable, Writes(p)[j]) = p
    <3>1. Writes(p)[j] \in Names
      BY <1>2, WritesNames
    <3> QED  BY <1>3, <2>1, <3>1 DEF WrittenUpTo, WrittenIn
  <2>3. directory'[Target(p)] = Filled(p) /\ Target(p)' = Target(p)
        /\ Filled(p)' = Filled(p)
    BY <1>1, ReplaceStores DEF Target, Filled
  <2>4. /\ WrittenIn(directory', p, step[p] - 1)
        /\ WrittenIn(durable', p, step[p] - 1)
    BY <1>1, <2>2 DEF WrittenIn
  <2> QED  BY <1>1, <2>3, <2>4 DEF Left, WrittenUpTo
<1> QED  BY <1>1, <1>6, <1>7, <1>8, StepInTurn

LEMMA SyncInTurn ==
  ASSUME FileTypes, InTurn, alone, opens, alone', opens',
         NEW p \in Invocations, SyncDirectory(p)
  PROVE  InTurn'
<1>1. /\ phase[p] = "sync" /\ phase[p] \in Active
      /\ UNCHANGED directory /\ durable' = directory
  BY DEF SyncDirectory, EntriesSynced, Active, Writing
<1>2. /\ phase' \in [Invocations -> Phases]
      /\ \A q \in Invocations \ {p} : phase'[q] = phase[q]
      /\ \/ step[p] = 1 /\ phase'[p] = "planning" /\ step'[p] = 1
         \/ step[p] = LastWrite(p) /\ phase'[p] = "done" /\ step'[p] = step[p]
         \/ phase'[p] = "create" /\ step'[p] = step[p] + 1
  BY <1>1, OnwardEffect DEF SyncDirectory
<1>3. /\ step[p] \in 1 .. LastWrite(p) /\ LastWrite(p) \in Nat
      /\ LastWrite(p) >= 2 * Len(Objectives) + 4 /\ Len(Objectives) \in Nat
  BY <1>1, LastWriteIsNat DEF FileTypes, Writing
<1>4. BothOrdered'
  BY <1>1 DEF InTurn, BothOrdered, Ordered, RunIn
<1>5. Known(directory)' /\ Known(durable)'
  BY <1>1, <1>2 DEF InTurn, Known, FileTypes, StoredFiles, Stored
<1>6. directory[Target(p)] = Filled(p) /\ WrittenUpTo(p, step[p] - 1)
  BY <1>1 DEF InTurn, Progress, Left, Writing
<1>7. WrittenIn(directory', p, step[p]) /\ WrittenIn(durable', p, step[p])
  <2>1. RunIn(directory, Writes(p)[step[p]]) = p
    BY <1>3, <1>6, PlanFilesAssumption DEF Target, RunIn, Filled, Document
  <2>2. \A j \in 1 .. step[p] : RunIn(directory, Writes(p)[j]) = p
    BY <1>3, <1>6, <2>1 DEF WrittenUpTo, WrittenIn
  <2> QED  BY <1>1, <2>2 DEF WrittenIn
<1>8. step[p] = LastWrite(p) => LeftAll(p)'
  <2>1. Writes(p)[LastWrite(p)] = Summary
    BY <1>3, WritesAt
  <2> QED
    BY <1>1, <1>6, <1>7, <2>1 DEF LeftAll, Target, Filled, Document, WrittenUpTo
<1>9. Left(p)'
  <2>1. CASE step[p] = 1 /\ phase'[p] = "planning"
    BY <1>7, <2>1 DEF Left, Writing, WrittenUpTo
  <2>2. CASE step[p] = LastWrite(p) /\ phase'[p] = "done"
    BY <1>8, <2>2 DEF Left, Writing
  <2>3. CASE phase'[p] = "create" /\ step'[p] = step[p] + 1
    <3>1. step'[p] - 1 = step[p]
      BY <1>3, <2>3
    <3> QED  BY <1>7, <2>3, <3>1 DEF Left, Writing, WrittenUpTo
  <2> QED  BY <1>2, <2>1, <2>2, <2>3
<1> QED  BY <1>1, <1>2, <1>4, <1>5, <1>9, StepInTurn

(* What is found after a loss of power is ordered as well, and everything  *)
(* of an invocation that has exited is there.                              *)
LEMMA LossInTurn ==
  ASSUME FileTypes, InTurn, alone, opens, alone', opens', LosePower
  PROVE  InTurn'
<1>1. /\ durable' = directory' /\ UNCHANGED <<step, found>> /\ losses' > 0
      /\ \/ \A n \in Names : directory'[n] \in {directory[n], durable[n]}
         \/ /\ found < Depth /\ \A n \in Names : directory'[n] = Absent
      /\ \A q \in Invocations : phase'[q] = IF q \in Running THEN "killed"
                                             ELSE phase[q]
  BY LossEffect
<1>2. BothOrdered /\ Known(directory) /\ Known(durable) /\ Turns /\ Progress
  BY DEF InTurn
<1>3. \/ \A n \in Names : RunIn(directory', n) \in {RunIn(directory, n), RunIn(durable, n)}
      \/ \A n \in Names : RunIn(directory', n) = 0
  BY <1>1 DEF RunIn
<1>4. BothOrdered'
  <2>1. Ordered(directory', directory')
    BY <1>2, <1>3 DEF BothOrdered, Ordered
  <2> QED  BY <1>1, <2>1 DEF BothOrdered, Ordered, RunIn
<1>5. \A q \in Invocations : /\ phase'[q] = "out" <=> phase[q] = "out"
                             /\ phase'[q] \notin Active
                             /\ phase'[q] = "done" => phase[q] = "done"
  BY <1>1 DEF Running, Active, Writing
<1>6. Known(directory)' /\ Known(durable)'
  BY <1>1, <1>2, <1>5 DEF Known, FileTypes, StoredFiles, Stored
<1>7. Turns'
  BY <1>2, <1>5 DEF Turns
<1>8. ASSUME NEW q \in Invocations, phase'[q] = "done", NewestRun(q)'
      PROVE  LeftAll(q)' \/ Gone'
  <2>1. LeftAll(q) \/ Gone
    BY <1>2, <1>5, <1>8 DEF NewestRun, Progress, Left
  <2>2. CASE Gone \/ (found < Depth /\ \A n \in Names : directory'[n] = Absent)
    BY <1>1, <2>2 DEF Gone
  <2>3. CASE /\ LeftAll(q)
             /\ \A n \in Names : directory'[n] \in {directory[n], durable[n]}
    <3>1. \A j \in 1 .. LastWrite(q) : Writes(q)[j] \in Names
      BY WritesNames
    <3>2. WrittenIn(directory', q, LastWrite(q))
      BY <2>3, <3>1 DEF LeftAll, WrittenUpTo, WrittenIn, RunIn
    <3>3. directory'[Summary].at = LastWrite(q)
      BY <2>3 DEF LeftAll, Names
    <3>4. WrittenUpTo(q, LastWrite(q))'
      BY <1>1, <3>2 DEF WrittenUpTo
    <3> QED  BY <1>1, <3>3, <3>4 DEF LeftAll
  <2> QED  BY <1>1, <2>1, <2>2, <2>3
<1>9. Progress'
  BY <1>5, <1>8 DEF Progress, Left, Active, Writing
<1> QED  BY <1>4, <1>6, <1>7, <1>9 DEF InTurn

LEMMA NextInTurn ==
  ASSUME FileTypes, InTurn, [Next]_vars
  PROVE  InTurn'
<1>1. UNCHANGED <<alone, opens>>
  BY DEF Next, vars, conditions, Start, Invoke, Kill, FindPlans, FindNoPlan,
         MakeDirectory, CreateTemporary, FillTemporary, ReplaceTarget, SyncDirectory, FailWrite,
         LosePower
<1> SUFFICES ASSUME alone', opens' PROVE InTurn'
  BY DEF InTurn
<1>2. alone /\ opens
  BY <1>1
<1>3. CASE UNCHANGED vars
  <2>1. InTurn' <=> InTurn
    BY <1>3
    DEF vars, conditions, Gone, InTurn, BothOrdered, Ordered, RunIn, Known, Turns, Progress, Left,
        WrittenUpTo, WrittenIn, LeftAll, NewestRun, Target, Filled
  <2> QED  BY <2>1
<1>4. ASSUME NEW p \in Invocations, Start(p) \/ Invoke(p) \/ Kill(p)
      PROVE  InTurn'
  BY <1>2, <1>4, StartInTurn, PrepareInTurn, ReplaceInTurn, SyncInTurn
  DEF Invoke
<1> QED  BY <1>2, <1>3, <1>4, LossInTurn DEF Next

LEMMA InTurnInvariant == Spec => []InTurn
<1>1. Init => InTurn
  <2> SUFFICES ASSUME Init PROVE InTurn
    OBVIOUS
  <2>1. /\ \A n \in Names : directory[n] = Absent /\ durable[n] = Absent
        /\ \A p \in Invocations : phase[p] = "out"
    BY DEF Init
  <2>2. BothOrdered
    BY <2>1 DEF BothOrdered, Ordered, RunIn
  <2> QED
    BY <2>1, <2>2 DEF InTurn, Known, Turns, Progress, Left, Writing, Active
<1> QED
  BY <1>1, NextInTurn, FileTypesInvariant, PTL DEF Spec

(* Where invocations are run one after the other, the directory is at any  *)
(* time the beginning of a newer one over the end of an older one, whether *)
(* they fail, are killed or lose power.                                    *)
THEOREM NewerComesFirst == Spec => []NewerFirst
<1>1. InTurn => NewerFirst
  <2> SUFFICES ASSUME InTurn, alone, opens,
                      NEW form \in Range(Forms), NEW plan \in Plans
               PROVE  /\ RunOf(Summary) <= RunOf(Latest(form))
                      /\ RunOf(Latest(form)) <= RunOf(<<plan, form>>)
                      /\ RunOf(<<plan, form>>) <= RunOf(Mapping)
    BY DEF NewerFirst
  <2>1. /\ Summary \in Names /\ Mapping \in Names
        /\ Latest(form) \in Names /\ <<plan, form>> \in Names
    BY DEF Names, Latest
  <2>2. /\ Rank(Mapping) = 0 /\ Rank(Summary) = 3
        /\ Rank(Latest(form)) = 2 /\ Rank(<<plan, form>>) = 1
    BY Ranks
  <2>3. \A n, m \in Names : Rank(n) < Rank(m) => RunOf(m) <= RunOf(n)
    BY DEF InTurn, BothOrdered, Ordered, RunIn, RunOf
  <2> QED  BY <2>1, <2>2, <2>3
<1> QED  BY <1>1, InTurnInvariant, PTL

(* What an invocation has left when it exits stays, whatever happens to    *)
(* the machine before the next one; or it goes as a whole, with a directory*)
(* that some invocation made.                                              *)
THEOREM ExitsAreDurable == Spec => []ExitIsDurable
<1>1. InTurn => ExitIsDurable
  BY DEF InTurn, Progress, Left, NewestRun, LeftAll, WrittenUpTo, WrittenIn,
         Gone, RunIn, RunOf, ExitIsDurable
<1> QED  BY <1>1, InTurnInvariant, PTL

===============================================================================
