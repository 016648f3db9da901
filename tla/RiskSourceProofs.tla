--------------------------- MODULE RiskSourceProofs ---------------------------
(***************************************************************************)
(* What the windows of the source hold, and what the lease of a committed  *)
(* window guarantees, for any frames, queries and number of threads.       *)
(*                                                                         *)
(* get_window() is a loop over the frames.  What such a recursion computes *)
(* is shown by the set of the lengths it is right for, which holds every   *)
(* natural number (EveryNatural).                                          *)
(***************************************************************************)
EXTENDS RiskSource, Recursion, TLAPS

-------------------------------------------------------------------------------
(* Recursion over the frames                                               *)

Dictionaries == UNION {[D -> Frames] : D \in SUBSET Nat}

LEMMA NoFrames == <<>> \in Dictionaries /\ DOMAIN <<>> = {}
<1>1. <<>> \in [{} -> Frames]
  OBVIOUS
<1> QED
  BY <1>1 DEF Dictionaries

LEMMA PutFrame ==
  ASSUME NEW d \in Dictionaries, NEW h \in Nat, NEW f \in Frames
  PROVE  /\ Put(d, h, f) \in Dictionaries
         /\ DOMAIN Put(d, h, f) = DOMAIN d \cup {h}
         /\ Put(d, h, f)[h] = f
         /\ \A k \in DOMAIN d : k # h => Put(d, h, f)[k] = d[k]
<1>1. PICK D \in SUBSET Nat : d \in [D -> Frames]
  BY DEF Dictionaries
<1>2. Put(d, h, f) \in [D \cup {h} -> Frames] /\ D \cup {h} \in SUBSET Nat
  BY <1>1 DEF Put
<1> QED
  BY <1>1, <1>2 DEF Put, Dictionaries

LEMMA FrameTypes ==
  ASSUME NEW f \in Frames
  PROVE  /\ f.hour \in Nat /\ f.asof \in Nat /\ f.made \in Nat /\ f.id \in Nat
         /\ f.generation \in Nat
BY SourceAssumption

LEMMA KeptFrame ==
  ASSUME NEW d \in Dictionaries, NEW f \in Frames
  PROVE  /\ KeepNewer(d, f) \in Dictionaries
         /\ DOMAIN KeepNewer(d, f) = DOMAIN d \cup {f.hour}
         /\ \A h \in DOMAIN KeepNewer(d, f) :
              \/ h = f.hour /\ KeepNewer(d, f)[h] = f
              \/ h \in DOMAIN d /\ KeepNewer(d, f)[h] = d[h]
         /\ \A h \in DOMAIN d : KeepNewer(d, f)[h] = d[h] \/ Newer(f, d[h])
         /\ ~ Newer(f, KeepNewer(d, f)[f.hour])
<1>1. f.hour \in Nat /\ ~ Newer(f, f)
  BY FrameTypes DEF Newer
<1>2. CASE f.hour \in DOMAIN d /\ ~ Newer(f, d[f.hour])
  <2>1. KeepNewer(d, f) = d
    BY <1>2 DEF KeepNewer
  <2> QED
    BY <1>2, <2>1
<1>3. CASE ~(f.hour \in DOMAIN d /\ ~ Newer(f, d[f.hour]))
  <2>1. KeepNewer(d, f) = Put(d, f.hour, f)
    BY <1>3 DEF KeepNewer
  <2>2. /\ KeepNewer(d, f) \in Dictionaries
        /\ DOMAIN KeepNewer(d, f) = DOMAIN d \cup {f.hour}
        /\ KeepNewer(d, f)[f.hour] = f
        /\ \A h \in DOMAIN d : h # f.hour => KeepNewer(d, f)[h] = d[h]
    <3>1. /\ Put(d, f.hour, f) \in Dictionaries
          /\ DOMAIN Put(d, f.hour, f) = DOMAIN d \cup {f.hour}
          /\ Put(d, f.hour, f)[f.hour] = f
          /\ \A h \in DOMAIN d : h # f.hour => Put(d, f.hour, f)[h] = d[h]
      BY <1>1, PutFrame
    <3> QED
      BY <2>1, <3>1
  <2>3. ~ Newer(f, KeepNewer(d, f)[f.hour])
    BY <1>1, <2>2
  <2>4. \A h \in DOMAIN d : KeepNewer(d, f)[h] = d[h] \/ Newer(f, d[h])
    BY <1>3, <2>2
  <2> QED
    BY <2>2, <2>3, <2>4
<1> QED
  BY <1>2, <1>3

(* The dictionary of get_window() after each of the frames.                *)
LEMMA ByTimeUnfolds ==
  ASSUME frames \in Seq(Frames), NEW q
  PROVE  /\ ByTime(q) \in [0 .. Len(frames) -> Dictionaries]
         /\ ByTime(q)[0] = <<>>
         /\ \A n \in 1 .. Len(frames) :
              ByTime(q)[n] = IF Answers(frames[n], q)
                               THEN KeepNewer(ByTime(q)[n - 1], frames[n])
                               ELSE ByTime(q)[n - 1]
<1> DEFINE L == Len(frames)
           After(n, d) == IF Answers(frames[n], q) THEN KeepNewer(d, frames[n]) ELSE d
           Step == [p \in (1 .. L) \X Dictionaries |-> After(p[1], p[2])]
           Is(g) == g = [n \in 0 .. L |->
                           IF n = 0 THEN <<>>
                           ELSE IF Answers(frames[n], q)
                             THEN KeepNewer(g[n - 1], frames[n])
                           ELSE g[n - 1]]
<1>1. L \in Nat /\ \A n \in 1 .. L : frames[n] \in Frames
  OBVIOUS
<1>2. ASSUME NEW n \in 1 .. L, NEW d \in Dictionaries
      PROVE  Step[<<n, d>>] = After(n, d) /\ After(n, d) \in Dictionaries
  <2>1. Step[<<n, d>>] = After(n, d)
    OBVIOUS
  <2>2. After(n, d) \in Dictionaries
    BY <1>1, KeptFrame
  <2> QED
    BY <2>1, <2>2
<1>3. PICK g : Steps(g, L, Dictionaries, <<>>, Step)
  <2>1. Step \in [(1 .. L) \X Dictionaries -> Dictionaries]
    <3>1. \A p \in (1 .. L) \X Dictionaries :
            p[1] \in 1 .. L /\ p[2] \in Dictionaries
      OBVIOUS
    <3>2. \A p \in (1 .. L) \X Dictionaries : After(p[1], p[2]) \in Dictionaries
      <4> HIDE DEF After
      <4> QED
        BY <1>2, <3>1
    <3> HIDE DEF After
    <3> QED
      BY <3>2
  <2>2. L \in Nat /\ <<>> \in Dictionaries
    BY <1>1, NoFrames
  <2> HIDE DEF Step, L, After
  <2> QED
    BY <2>1, <2>2, StepsExist
<1>4. ASSUME NEW n \in 1 .. L PROVE g[n] = After(n, g[n - 1])
  <2>1. /\ n - 1 \in 0 .. L /\ g[n - 1] \in Dictionaries
        /\ g[n] = Step[<<n, g[n - 1]>>]
    <3> HIDE DEF Step
    <3> QED
      BY <1>1, <1>3 DEF Steps
  <2>2. Step[<<n, g[n - 1]>>] = After(n, g[n - 1])
    <3> HIDE DEF Step, After
    <3> QED
      BY <1>2, <2>1
  <2> QED
    BY <2>1, <2>2
<1>5. Is(g)
  <2>1. ASSUME NEW n \in 0 .. L
        PROVE  g[n] = IF n = 0 THEN <<>>
                      ELSE IF Answers(frames[n], q)
                        THEN KeepNewer(g[n - 1], frames[n])
                      ELSE g[n - 1]
    BY <1>1, <1>3, <1>4 DEF Steps
  <2> QED
    BY <1>3, <2>1 DEF Steps
<1>6. Is(ByTime(q))
  <2>1. ByTime(q) = CHOOSE x : Is(x)
    BY DEF ByTime
  <2> HIDE DEF Is
  <2> QED
    BY <1>5, <2>1, Zenon
<1>7. ByTime(q)[0] = <<>>
  BY <1>1, <1>6
<1>8. ASSUME NEW n \in 1 .. L PROVE ByTime(q)[n] = After(n, ByTime(q)[n - 1])
  <2>1. n \in 0 .. L /\ n # 0
    BY <1>1
  <2>2. ByTime(q)[n] = IF n = 0 THEN <<>>
                       ELSE IF Answers(frames[n], q)
                         THEN KeepNewer(ByTime(q)[n - 1], frames[n])
                       ELSE ByTime(q)[n - 1]
    BY <1>6, <2>1
  <2> QED
    BY <2>1, <2>2
<1>9. ByTime(q) \in [0 .. L -> Dictionaries]
  <2> DEFINE T == {n \in Nat : n <= L => ByTime(q)[n] \in Dictionaries}
  <2>1. 0 \in T
    BY <1>7, NoFrames
  <2>2. ASSUME NEW n \in Nat, n \in T PROVE n + 1 \in T
    <3> SUFFICES ASSUME n + 1 <= L PROVE ByTime(q)[n + 1] \in Dictionaries
      OBVIOUS
    <3>1. n + 1 \in 1 .. L /\ (n + 1) - 1 = n /\ ByTime(q)[n] \in Dictionaries
      BY <1>1, <2>2
    <3>2. After(n + 1, ByTime(q)[n]) \in Dictionaries
      <4> HIDE DEF After
      <4> QED
        BY <1>2, <3>1
    <3>3. ByTime(q)[n + 1] = After(n + 1, ByTime(q)[n])
      <4> HIDE DEF After
      <4> QED
        BY <1>8, <3>1
    <3> QED
      BY <3>2, <3>3
  <2>3. Nat \subseteq T
    <3> HIDE DEF T
    <3> QED
      BY <2>1, <2>2, EveryNatural
  <2>4. \A n \in 0 .. L : ByTime(q)[n] \in Dictionaries
    BY <1>1, <2>3
  <2>5. ByTime(q) = [n \in 0 .. L |-> ByTime(q)[n]]
    BY <1>6
  <2> HIDE DEF L
  <2> QED
    BY <2>4, <2>5
<1> QED
  BY <1>7, <1>8, <1>9
(* A reset keeps frames only.                                              *)
LEMMA FramesOfGeneration ==
  ASSUME frames \in Seq(Frames), NEW generation
  PROVE  FramesOf(generation) \in Seq(Frames)
<1> DEFINE L == Len(frames)
           After(n, s) == IF frames[n].generation = generation
                            THEN Append(s, frames[n]) ELSE s
           Step == [p \in (1 .. L) \X Seq(Frames) |-> After(p[1], p[2])]
           Is(g) == g = [n \in 0 .. L |->
                           IF n = 0 THEN <<>>
                           ELSE IF frames[n].generation = generation
                             THEN Append(g[n - 1], frames[n])
                           ELSE g[n - 1]]
           Kept == CHOOSE x : Is(x)
<1>1. L \in Nat /\ \A n \in 1 .. L : frames[n] \in Frames
  OBVIOUS
<1>2. ASSUME NEW n \in 1 .. L, NEW s \in Seq(Frames)
      PROVE  Step[<<n, s>>] = After(n, s) /\ After(n, s) \in Seq(Frames)
  <2>1. Step[<<n, s>>] = After(n, s)
    OBVIOUS
  <2>2. After(n, s) \in Seq(Frames)
    BY <1>1
  <2> QED
    BY <2>1, <2>2
<1>3. PICK g : Steps(g, L, Seq(Frames), <<>>, Step)
  <2>1. Step \in [(1 .. L) \X Seq(Frames) -> Seq(Frames)]
    <3>1. \A p \in (1 .. L) \X Seq(Frames) : After(p[1], p[2]) \in Seq(Frames)
      <4>1. \A p \in (1 .. L) \X Seq(Frames) :
              p[1] \in 1 .. L /\ p[2] \in Seq(Frames)
        OBVIOUS
      <4> HIDE DEF After
      <4> QED
        BY <1>2, <4>1
    <3> HIDE DEF After
    <3> QED
      BY <3>1
  <2>2. L \in Nat /\ <<>> \in Seq(Frames)
    BY <1>1
  <2> HIDE DEF Step, L, After
  <2> QED
    BY <2>1, <2>2, StepsExist
<1>4. ASSUME NEW n \in 1 .. L PROVE g[n] = After(n, g[n - 1])
  <2>1. /\ n - 1 \in 0 .. L /\ g[n - 1] \in Seq(Frames)
        /\ g[n] = Step[<<n, g[n - 1]>>]
    <3>1. n - 1 \in 0 .. L
      BY <1>1
    <3> DEFINE S == Seq(Frames)
    <3>2. Steps(g, L, S, <<>>, Step)
      BY <1>3
    <3> HIDE DEF Step, L, S
    <3>3. g \in [0 .. L -> S] /\ \A k \in 1 .. L : g[k] = Step[<<k, g[k - 1]>>]
      BY <3>2 DEF Steps
    <3>4. g[n - 1] \in S /\ g[n] = Step[<<n, g[n - 1]>>]
      BY <3>1, <3>3
    <3> QED
      BY <3>1, <3>4 DEF S
  <2>2. Step[<<n, g[n - 1]>>] = After(n, g[n - 1])
    <3> HIDE DEF Step, After
    <3> QED
      BY <1>2, <2>1
  <2> QED
    BY <2>1, <2>2
<1>5. Is(g)
  <2>1. g[0] = <<>> /\ g = [n \in 0 .. L |-> g[n]]
    BY <1>3 DEF Steps
  <2>2. ASSUME NEW n \in 0 .. L
        PROVE  g[n] = IF n = 0 THEN <<>>
                      ELSE IF frames[n].generation = generation
                        THEN Append(g[n - 1], frames[n])
                      ELSE g[n - 1]
    BY <1>1, <1>4, <2>1
  <2> QED
    BY <2>1, <2>2
<1>6. Is(Kept) /\ FramesOf(generation) = Kept[L]
  <2>1. FramesOf(generation) = Kept[L]
    BY DEF FramesOf
  <2>2. Is(Kept)
    <3> HIDE DEF Is
    <3> QED
      BY <1>5, Zenon
  <2> QED
    BY <2>1, <2>2
<1>7. /\ Kept[0] = <<>>
      /\ \A n \in 1 .. L : Kept[n] = After(n, Kept[n - 1])
  <2> HIDE DEF Kept
  <2>1. Kept[0] = <<>>
    BY <1>1, <1>6
  <2>2. ASSUME NEW n \in 1 .. L PROVE Kept[n] = After(n, Kept[n - 1])
    <3>1. n \in 0 .. L /\ n # 0
      BY <1>1
    <3>2. Kept[n] = IF n = 0 THEN <<>>
                    ELSE IF frames[n].generation = generation
                      THEN Append(Kept[n - 1], frames[n])
                    ELSE Kept[n - 1]
      BY <1>6, <3>1
    <3> QED
      BY <3>1, <3>2
  <2> QED
    BY <2>1, <2>2
<1> DEFINE T == {n \in Nat : n <= L => Kept[n] \in Seq(Frames)}
<1>8. Nat \subseteq T
  <2>1. 0 \in T
    <3>1. Kept[0] = <<>>
      BY <1>7
    <3> HIDE DEF Kept
    <3>2. Kept[0] \in Seq(Frames)
      BY <3>1
    <3> QED
      BY <3>2
  <2>2. ASSUME NEW n \in Nat, n \in T PROVE n + 1 \in T
    <3> HIDE DEF After, Kept
    <3> SUFFICES ASSUME n + 1 <= L PROVE Kept[n + 1] \in Seq(Frames)
      OBVIOUS
    <3>1. n + 1 \in 1 .. L /\ (n + 1) - 1 = n /\ Kept[n] \in Seq(Frames)
      BY <1>1, <2>2
    <3>2. After(n + 1, Kept[n]) \in Seq(Frames)
      BY <1>2, <3>1
    <3>3. Kept[n + 1] = After(n + 1, Kept[n])
      BY <1>7, <3>1
    <3> QED
      BY <3>2, <3>3
  <2> HIDE DEF T
  <2> QED
    BY <2>1, <2>2, EveryNatural
<1> HIDE DEF Kept
<1> QED
  BY <1>1, <1>6, <1>8

(* The order by (as_of_time, generated_at, risk_id) is total.              *)
LEMMA NewerThanNewest ==
  ASSUME NEW e \in Frames, NEW f \in Frames, NEW g \in Frames,
         ~ Newer(e, g), Newer(f, g)
  PROVE  ~ Newer(e, f)
BY FrameTypes DEF Newer

(* What get_window() has selected after n frames: frames that answer the   *)
(* query, under their hours, and for each the newest.                      *)
SelectedFrom(q, n) ==
  LET d == ByTime(q)[n] IN
  /\ \A h \in DOMAIN d : d[h] \in Frames /\ d[h].hour = h /\ Answers(d[h], q)
  /\ \A i \in 1 .. n :
       Answers(frames[i], q) =>
         /\ frames[i].hour \in DOMAIN d
         /\ ~ Newer(frames[i], d[frames[i].hour])

LEMMA SelectedNext ==
  ASSUME frames \in Seq(Frames), NEW q, NEW n \in Nat, n + 1 <= Len(frames),
         SelectedFrom(q, n)
  PROVE  SelectedFrom(q, n + 1)
<1> DEFINE d == ByTime(q)[n]
           e == ByTime(q)[n + 1]
           f == frames[n + 1]
<1>1. /\ d \in Dictionaries /\ f \in Frames
      /\ e = IF Answers(f, q) THEN KeepNewer(d, f) ELSE d
  <2>1. n \in 0 .. Len(frames) /\ n + 1 \in 1 .. Len(frames) /\ (n + 1) - 1 = n
    OBVIOUS
  <2>2. f \in Frames
    BY <2>1
  <2>3. d \in Dictionaries
    BY <2>1, ByTimeUnfolds
  <2>4. e = IF Answers(f, q) THEN KeepNewer(d, f) ELSE d
    BY <2>1, ByTimeUnfolds
  <2> QED
    BY <2>2, <2>3, <2>4
<1>2. /\ \A h \in DOMAIN d : d[h] \in Frames /\ d[h].hour = h /\ Answers(d[h], q)
      /\ \A i \in 1 .. n :
           Answers(frames[i], q) =>
             /\ frames[i].hour \in DOMAIN d
             /\ ~ Newer(frames[i], d[frames[i].hour])
  BY DEF SelectedFrom
<1>3. CASE ~ Answers(f, q)
  <2>1. e = d /\ \A i \in 1 .. n + 1 : i \in 1 .. n \/ frames[i] = f
    BY <1>1, <1>3
  <2> HIDE DEF d, e, f
  <2>2. \A i \in 1 .. n + 1 :
          Answers(frames[i], q) =>
            /\ frames[i].hour \in DOMAIN e
            /\ ~ Newer(frames[i], e[frames[i].hour])
    BY <1>2, <1>3, <2>1
  <2> QED
    BY <1>2, <2>1, <2>2 DEF SelectedFrom, e
<1>4. CASE Answers(f, q)
  <2> HIDE DEF d, e
  <2>1. /\ DOMAIN e = DOMAIN d \cup {f.hour}
        /\ \A h \in DOMAIN e : \/ h = f.hour /\ e[h] = f
                               \/ h \in DOMAIN d /\ e[h] = d[h]
        /\ \A h \in DOMAIN d : e[h] = d[h] \/ Newer(f, d[h])
        /\ ~ Newer(f, e[f.hour])
    <3> HIDE DEF f
    <3> DEFINE k == KeepNewer(d, f)
    <3>1. /\ DOMAIN k = DOMAIN d \cup {f.hour}
          /\ \A h \in DOMAIN k : \/ h = f.hour /\ k[h] = f
                                 \/ h \in DOMAIN d /\ k[h] = d[h]
          /\ \A h \in DOMAIN d : k[h] = d[h] \/ Newer(f, d[h])
          /\ ~ Newer(f, k[f.hour])
      BY <1>1, KeptFrame
    <3>2. e = k
      BY <1>1, <1>4
    <3> HIDE DEF k
    <3> QED
      BY <3>1, <3>2
  <2>2. \A h \in DOMAIN e : e[h] \in Frames /\ e[h].hour = h /\ Answers(e[h], q)
    BY <1>1, <1>2, <1>4, <2>1
  <2>3. ASSUME NEW i \in 1 .. n + 1, Answers(frames[i], q)
        PROVE  /\ frames[i].hour \in DOMAIN e
               /\ ~ Newer(frames[i], e[frames[i].hour])
    <3>1. CASE i \in 1 .. n
      <4> DEFINE g == frames[i]
      <4>1. g \in Frames /\ g.hour \in DOMAIN d /\ ~ Newer(g, d[g.hour])
        BY <1>2, <2>3, <3>1
      <4> HIDE DEF g, f
      <4>2. CASE e[g.hour] = d[g.hour]
        BY <2>1, <4>1, <4>2 DEF g
      <4>3. CASE e[g.hour] # d[g.hour]
        <5>1. e[g.hour] = f /\ Newer(f, d[g.hour]) /\ d[g.hour] \in Frames
          BY <1>2, <2>1, <4>1, <4>3
        <5>2. ~ Newer(g, f)
          BY <1>1, <4>1, <5>1, NewerThanNewest
        <5> QED
          BY <2>1, <4>1, <5>1, <5>2 DEF g
      <4> QED
        BY <4>2, <4>3
    <3>2. CASE i \notin 1 .. n
      <4>1. frames[i] = f
        BY <3>2
      <4> QED
        BY <2>1, <4>1
    <3> QED
      BY <3>1, <3>2
  <2> QED
    BY <2>2, <2>3 DEF SelectedFrom, e
<1> QED
  BY <1>3, <1>4

LEMMA SelectedAll ==
  ASSUME frames \in Seq(Frames), NEW q
  PROVE  Selected(q) \in Dictionaries /\ SelectedFrom(q, Len(frames))
<1> DEFINE T == {n \in Nat : n <= Len(frames) => SelectedFrom(q, n)}
<1>1. 0 \in T
  <2>1. ByTime(q)[0] = <<>> /\ DOMAIN <<>> = {}
    BY ByTimeUnfolds, NoFrames
  <2> QED
    BY <2>1 DEF SelectedFrom
<1>2. ASSUME NEW n \in Nat, n \in T PROVE n + 1 \in T
  <2> SUFFICES ASSUME n + 1 <= Len(frames) PROVE SelectedFrom(q, n + 1)
    OBVIOUS
  <2>1. Len(frames) \in Nat
    OBVIOUS
  <2>2. SelectedFrom(q, n)
    BY <1>2, <2>1
  <2> QED
    BY <2>2, SelectedNext
<1>3. Nat \subseteq T
  <2> HIDE DEF T
  <2> QED
    BY <1>1, <1>2, EveryNatural
<1>4. Len(frames) \in Nat /\ Len(frames) \in 0 .. Len(frames)
  OBVIOUS
<1>5. ByTime(q)[Len(frames)] \in Dictionaries
  BY <1>4, ByTimeUnfolds
<1>6. SelectedFrom(q, Len(frames))
  BY <1>3, <1>4
<1> QED
  BY <1>5, <1>6 DEF Selected
LEMMA SelectedIsWindow ==
  ASSUME frames \in Seq(Frames), NEW q \in Queries, Complete(q, Selected(q))
  PROVE  Selected(q) \in Window(q)
<1>1. PICK D \in SUBSET Nat : Selected(q) \in [D -> Frames]
  BY SelectedAll DEF Dictionaries
<1>2. D = q.start .. q.end
  BY <1>1 DEF Complete
<1> QED
  BY <1>1, <1>2 DEF Window

-------------------------------------------------------------------------------
(* Types                                                                   *)

(* What a thread is doing, apart from being idle.                          *)
LEMMA TaskFields ==
  ASSUME NEW r \in Task
  PROVE  \/ r = Idle /\ r.at = "idle"
         \/ /\ r.at \in {"committing", "prepared", "planning"}
            /\ r.query \in Queries /\ r.window \in Window(r.query)
            /\ r = [at |-> r.at, query |-> r.query, window |-> r.window]
<1>1. CASE r = Idle
  BY <1>1 DEF Idle
<1>2. CASE r # Idle
  <2>1. PICK q \in Queries :
          r \in [at : {"committing", "prepared", "planning"}, query : {q},
                 window : Window(q)]
    BY <1>2 DEF Task
  <2>2. r.query = q
    BY <2>1
  <2> QED
    BY <2>1, <2>2
<1> QED
  BY <1>1, <1>2

LEMMA TaskMade ==
  ASSUME NEW q \in Queries, NEW w \in Window(q),
         NEW at \in {"committing", "prepared", "planning"}
  PROVE  [at |-> at, query |-> q, window |-> w] \in Task
<1>1. [at |-> at, query |-> q, window |-> w]
        \in [at : {"committing", "prepared", "planning"}, query : {q},
             window : Window(q)]
  OBVIOUS
<1> QED
  BY <1>1 DEF Task

LEMMA NextTypes ==
  ASSUME SourceTypeOK, [SourceNext]_sourceVars PROVE SourceTypeOK'
<1> USE DEF SourceTypeOK
<1>0. Idle \in Task
  BY DEF Task
<1>1. ASSUME NEW f \in Frames, Publish(f) PROVE SourceTypeOK'
  BY <1>1 DEF Publish
<1>2. ASSUME NEW generation, ResetToGeneration(generation) PROVE SourceTypeOK'
  <2>1. frames' \in Seq(Frames)
    BY <1>2, FramesOfGeneration DEF ResetToGeneration
  <2>2. /\ DOMAIN committed' \subseteq DOMAIN committed
        /\ \A q \in DOMAIN committed' : committed'[q] = committed[q]
        /\ UNCHANGED <<holder, task>>
    BY <1>2 DEF ResetToGeneration
  <2> QED
    BY <2>1, <2>2
<1>3. ASSUME NEW t \in Threads, NEW q \in Queries, ReadWindow(t, q)
      PROVE  SourceTypeOK'
  <2>1. Selected(q) \in Window(q)
    BY <1>3, SelectedIsWindow DEF ReadWindow
  <2>2. [at |-> "committing", query |-> q, window |-> Selected(q)] \in Task
    BY <2>1, TaskMade
  <2> QED
    BY <1>3, <2>2 DEF ReadWindow
<1>4. ASSUME NEW t \in Threads, StoreWindow(t) PROVE SourceTypeOK'
  <2>1. task[t] \in Task /\ task[t].at = "committing"
    BY <1>4 DEF StoreWindow
  <2>2. task[t].query \in Queries /\ task[t].window \in Window(task[t].query)
    BY <2>1, TaskFields
  <2>3. CASE MayStore(task[t].query, task[t].window)
    <3>1. committed' = Put(committed, task[t].query, task[t].window)
      BY <1>4, <2>3 DEF StoreWindow
    <3>2. /\ DOMAIN committed' = DOMAIN committed \cup {task[t].query}
          /\ \A q \in DOMAIN committed' :
               committed'[q] = IF q = task[t].query THEN task[t].window
                               ELSE committed[q]
      BY <3>1 DEF Put
    <3>3. \A q \in DOMAIN committed' : committed'[q] \in Window(q)
      BY <2>2, <3>2
    <3> QED
      BY <1>0, <1>4, <2>2, <3>2, <3>3 DEF StoreWindow
  <2>4. CASE ~ MayStore(task[t].query, task[t].window)
    BY <1>0, <1>4, <2>4 DEF StoreWindow
  <2> QED
    BY <2>3, <2>4
<1>5. ASSUME NEW t \in Threads, NEW q \in Queries, Prepare(t, q)
      PROVE  SourceTypeOK'
  <2>1. committed[q] \in Window(q)
    BY <1>5 DEF Prepare
  <2>2. [at |-> "prepared", query |-> q, window |-> committed[q]] \in Task
    BY <2>1, TaskMade
  <2> QED
    BY <1>5, <2>2 DEF Prepare
<1>6. ASSUME NEW t \in Threads, EnterLease(t) PROVE SourceTypeOK'
  <2>1. task[t] \in Task /\ task[t].at = "prepared"
    BY <1>6 DEF EnterLease
  <2>2. /\ task[t].query \in Queries /\ task[t].window \in Window(task[t].query)
        /\ task[t] = [at |-> task[t].at, query |-> task[t].query,
                      window |-> task[t].window]
    BY <2>1, TaskFields
  <2>3. [task[t] EXCEPT !.at = "planning"]
          = [at |-> "planning", query |-> task[t].query, window |-> task[t].window]
    BY <2>2
  <2>4. [task[t] EXCEPT !.at = "planning"] \in Task
    <3>1. [at |-> "planning", query |-> task[t].query, window |-> task[t].window]
            \in Task
      <4> DEFINE q == task[t].query
                 w == task[t].window
      <4>1. q \in Queries /\ w \in Window(q)
        BY <2>2
      <4> HIDE DEF q, w
      <4>2. [at |-> "planning", query |-> q, window |-> w] \in Task
        BY <4>1, TaskMade
      <4> QED
        BY <4>2 DEF q, w
    <3> QED
      BY <2>3, <3>1
  <2> QED
    BY <1>0, <1>6, <2>4 DEF EnterLease
<1>7. ASSUME NEW t \in Threads, LeaveLease(t) PROVE SourceTypeOK'
  BY <1>0, <1>7 DEF LeaveLease
<1>8. CASE UNCHANGED sourceVars
  BY <1>8 DEF sourceVars
<1> QED
  BY <1>1, <1>2, <1>3, <1>4, <1>5, <1>6, <1>7, <1>8 DEF SourceNext

(* The source is well typed, and a window complete from the moment it is   *)
(* read, whoever publishes, resets, commits and plans.                     *)
THEOREM SourceTypeCorrect == SourceSpec => []SourceTypeOK
<1>1. SourceInit => SourceTypeOK
  <2> SUFFICES ASSUME SourceInit PROVE SourceTypeOK
    OBVIOUS
  <2>1. Idle \in Task /\ DOMAIN <<>> = {}
    BY NoFrames DEF Task
  <2> QED
    BY <2>1 DEF SourceInit, SourceTypeOK
<1>2. SourceTypeOK /\ [SourceNext]_sourceVars => SourceTypeOK'
  BY NextTypes
<1> QED
  BY <1>1, <1>2, PTL DEF SourceSpec

-------------------------------------------------------------------------------
(* Contents of windows                                                     *)

(* Whatever the order of publication, no frame that the query may know of  *)
(* has later knowledge than the one selected for its hour.                 *)
THEOREM NewestIsSelected == SourceSpec => []NewestKnown
<1>1. SourceTypeOK => NewestKnown
  <2> SUFFICES ASSUME frames \in Seq(Frames), NEW q \in Queries,
                      NEW f \in ToSet(frames),
                      f.context = q.context, f.corridor = q.corridor,
                      f.generation = q.generation,
                      f.hour \in q.start .. q.end, f.asof <= q.asof
               PROVE  /\ f.hour \in DOMAIN Selected(q)
                      /\ Selected(q)[f.hour].asof >= f.asof
    BY DEF SourceTypeOK, NewestKnown
  <2>1. PICK i \in 1 .. Len(frames) : f = frames[i]
    BY DEF ToSet
  <2>2. f \in Frames /\ q.start \in Nat /\ q.end \in Nat
    BY <2>1, SourceAssumption
  <2>3. Answers(f, q)
    BY <2>2, FrameTypes DEF Answers, Alike
  <2>4. SelectedFrom(q, Len(frames))
    BY SelectedAll
  <2>5. /\ f.hour \in DOMAIN Selected(q)
        /\ Selected(q)[f.hour] \in Frames
        /\ ~ Newer(f, Selected(q)[f.hour])
    BY <2>1, <2>3, <2>4 DEF SelectedFrom, Selected
  <2> QED
    BY <2>2, <2>5, FrameTypes DEF Newer
<1> QED
  BY <1>1, SourceTypeCorrect, PTL

(* A window holds for each of its hours a frame that answers the query.    *)
ExactWindow(q, window) ==
  \A hour \in DOMAIN window :
    window[hour].hour = hour /\ Answers(window[hour], q)

(* Windows are exact in the source, and already in the hands of a thread.  *)
ContentsInv ==
  /\ SourceTypeOK
  /\ \A q \in DOMAIN committed : ExactWindow(q, committed[q])
  /\ \A t \in Threads :
       task[t] # Idle => ExactWindow(task[t].query, task[t].window)

LEMMA NextContents ==
  ASSUME ContentsInv, [SourceNext]_sourceVars PROVE ContentsInv'
<1> USE DEF ContentsInv
<1>0. SourceTypeOK'
  BY NextTypes
<1>a. task \in [Threads -> Task] /\ Idle.at = "idle"
  BY DEF SourceTypeOK, Idle
<1>1. ASSUME NEW f \in Frames, Publish(f) PROVE ContentsInv'
  BY <1>0, <1>1 DEF Publish
<1>2. ASSUME NEW generation, ResetToGeneration(generation) PROVE ContentsInv'
  <2>1. /\ DOMAIN committed' \subseteq DOMAIN committed
        /\ \A q \in DOMAIN committed' : committed'[q] = committed[q]
        /\ UNCHANGED task
    BY <1>2 DEF ResetToGeneration
  <2> QED
    BY <1>0, <2>1
<1>3. ASSUME NEW t \in Threads, NEW q \in Queries, ReadWindow(t, q)
      PROVE  ContentsInv'
  <2>1. ExactWindow(q, Selected(q))
    BY SelectedAll DEF ExactWindow, SelectedFrom, Selected, SourceTypeOK
  <2> DEFINE r == [at |-> "committing", query |-> q, window |-> Selected(q)]
  <2>2. ExactWindow(r.query, r.window)
    BY <2>1
  <2>3. task' = [task EXCEPT ![t] = r] /\ UNCHANGED committed
    BY <1>3 DEF ReadWindow
  <2> HIDE DEF r
  <2> QED
    BY <1>0, <1>a, <2>2, <2>3
<1>4. ASSUME NEW t \in Threads, StoreWindow(t) PROVE ContentsInv'
  <2>1. task[t] # Idle /\ task' = [task EXCEPT ![t] = Idle]
    BY <1>4, <1>a DEF StoreWindow
  <2>2. \A u \in Threads :
          task'[u] # Idle => ExactWindow(task'[u].query, task'[u].window)
    BY <1>a, <2>1
  <2>3. \A q \in DOMAIN committed' : ExactWindow(q, committed'[q])
    <3>1. CASE MayStore(task[t].query, task[t].window)
      <4>1. committed' = Put(committed, task[t].query, task[t].window)
        BY <1>4, <3>1 DEF StoreWindow
      <4>2. \A q \in DOMAIN committed' :
              \/ q = task[t].query /\ committed'[q] = task[t].window
              \/ q \in DOMAIN committed /\ committed'[q] = committed[q]
        BY <4>1 DEF Put
      <4> QED
        BY <2>1, <4>2
    <3>2. CASE ~ MayStore(task[t].query, task[t].window)
      BY <1>4, <3>2 DEF StoreWindow
    <3> QED
      BY <3>1, <3>2
  <2> QED
    BY <1>0, <2>2, <2>3
<1>5. ASSUME NEW t \in Threads, NEW q \in Queries, Prepare(t, q)
      PROVE  ContentsInv'
  <2> DEFINE r == [at |-> "prepared", query |-> q, window |-> committed[q]]
  <2>1. ExactWindow(r.query, r.window)
    BY <1>5 DEF Prepare
  <2>2. task' = [task EXCEPT ![t] = r] /\ UNCHANGED committed
    BY <1>5 DEF Prepare
  <2> HIDE DEF r
  <2> QED
    BY <1>0, <1>a, <2>1, <2>2
<1>6. ASSUME NEW t \in Threads, EnterLease(t) PROVE ContentsInv'
  <2>1. task[t] # Idle /\ task[t] \in Task
    BY <1>6, <1>a DEF EnterLease
  <2>2. \/ task' = [task EXCEPT ![t].at = "planning"]
        \/ task' = [task EXCEPT ![t] = Idle]
    BY <1>6 DEF EnterLease
  <2>3. \/ task'[t] = Idle
        \/ task'[t].query = task[t].query /\ task'[t].window = task[t].window
    BY <1>a, <2>1, <2>2, TaskFields
  <2>4. \A u \in Threads \ {t} : task'[u] = task[u]
    BY <1>a, <2>2
  <2>5. UNCHANGED committed
    BY <1>6 DEF EnterLease
  <2> QED
    BY <1>0, <2>1, <2>3, <2>4, <2>5
<1>7. ASSUME NEW t \in Threads, LeaveLease(t) PROVE ContentsInv'
  BY <1>0, <1>a, <1>7 DEF LeaveLease
<1>8. CASE UNCHANGED sourceVars
  BY <1>0, <1>8 DEF sourceVars
<1> QED
  BY <1>1, <1>2, <1>3, <1>4, <1>5, <1>6, <1>7, <1>8 DEF SourceNext

(* A committed window holds for each hour a frame valid then, of the       *)
(* query's context, corridor and generation, that was known by its as_of:  *)
(* also where it was read and stored in two steps.                         *)
THEOREM WindowsAreExact == SourceSpec => []WindowsExact
<1>1. SourceInit => ContentsInv
  <2> SUFFICES ASSUME SourceInit PROVE ContentsInv
    OBVIOUS
  <2>1. SourceTypeOK
    <3>1. Idle \in Task /\ DOMAIN <<>> = {}
      BY NoFrames DEF Task
    <3> QED
      BY <3>1 DEF SourceInit, SourceTypeOK
  <2> QED
    BY <2>1, NoFrames DEF SourceInit, ContentsInv
<1>2. ContentsInv /\ [SourceNext]_sourceVars => ContentsInv'
  BY NextContents
<1>3. ContentsInv => WindowsExact
  <2> SUFFICES ASSUME ContentsInv, NEW q \in DOMAIN committed
               PROVE  /\ DOMAIN committed[q] = q.start .. q.end
                      /\ ExactWindow(q, committed[q])
    BY DEF WindowsExact, ExactWindow, Answers, Alike
  <2>1. committed[q] \in Window(q)
    BY DEF ContentsInv, SourceTypeOK
  <2>2. DOMAIN committed[q] = q.start .. q.end
    BY <2>1 DEF Window
  <2> QED  BY <2>2 DEF ContentsInv
<1> QED
  BY <1>1, <1>2, <1>3, PTL DEF SourceSpec
-------------------------------------------------------------------------------
(* Leases                                                                  *)

(* A thread's record, whatever window it carries.                          *)
TasksShaped ==
  /\ DOMAIN task = Threads
  /\ task = [t \in Threads |-> task[t]]
  /\ \A t \in Threads :
       \/ task[t] = Idle
       \/ task[t] = [at |-> task[t].at, query |-> task[t].query,
                     window |-> task[t].window]

OnlyHolderPlans ==
  \A t \in Threads : task[t].at = "planning" <=> holder = t

LeaseInv == TasksShaped /\ OnlyHolderPlans /\ LeaseStable

(* A step that ends with thread t idle and nobody, or nobody new, planning.*)
LEMMA TaskReplaced ==
  ASSUME TasksShaped, NEW t \in Threads, NEW r,
         task' = [task EXCEPT ![t] = r],
         \/ r = Idle
         \/ r = [at |-> r.at, query |-> r.query, window |-> r.window]
  PROVE  /\ TasksShaped'
         /\ task'[t] = r
         /\ \A u \in Threads \ {t} : task'[u] = task[u]
BY DEF TasksShaped

LEMMA NextLease ==
  ASSUME LeaseInv, NoThread \notin Threads, [SourceNext]_sourceVars
  PROVE  LeaseInv'
<1> USE DEF LeaseInv
<1>0. Idle.at = "idle"
  BY DEF Idle
<1>1. ASSUME NEW f \in Frames, Publish(f) PROVE LeaseInv'
  BY <1>1 DEF Publish, TasksShaped, OnlyHolderPlans, LeaseStable
<1>2. ASSUME NEW generation, ResetToGeneration(generation) PROVE LeaseInv'
  BY <1>2 DEF ResetToGeneration, Unlocked, TasksShaped, OnlyHolderPlans,
     LeaseStable
<1>3. ASSUME NEW t \in Threads, NEW q \in Queries,
             ReadWindow(t, q) \/ Prepare(t, q)
      PROVE  LeaseInv'
  <2>1. PICK r : /\ task' = [task EXCEPT ![t] = r]
                 /\ r = [at |-> r.at, query |-> r.query, window |-> r.window]
                 /\ r.at # "planning"
    <3>1. CASE ReadWindow(t, q)
      <4> WITNESS [at |-> "committing", query |-> q, window |-> Selected(q)]
      <4> QED
        BY <3>1 DEF ReadWindow
    <3>2. CASE Prepare(t, q)
      <4> WITNESS [at |-> "prepared", query |-> q, window |-> committed[q]]
      <4> QED
        BY <3>2 DEF Prepare
    <3> QED
      BY <1>3, <3>1, <3>2
  <2>2. UNCHANGED <<committed, holder>> /\ holder = NoThread
    BY <1>3 DEF ReadWindow, Prepare, Unlocked
  <2>3. /\ TasksShaped' /\ task'[t] = r
        /\ \A u \in Threads \ {t} : task'[u] = task[u]
    BY <2>1, TaskReplaced
  <2>4. \A u \in Threads : task'[u].at # "planning"
    BY <2>1, <2>2, <2>3 DEF OnlyHolderPlans
  <2> QED
    BY <2>2, <2>3, <2>4 DEF OnlyHolderPlans, LeaseStable
<1>4. ASSUME NEW t \in Threads, StoreWindow(t) \/ LeaveLease(t)
      PROVE  LeaseInv'
  <2>1. task' = [task EXCEPT ![t] = Idle]
    BY <1>4 DEF StoreWindow, LeaveLease
  <2>2. holder' = NoThread /\ \A u \in Threads \ {t} : task[u].at # "planning"
    BY <1>4 DEF StoreWindow, LeaveLease, Unlocked, OnlyHolderPlans
  <2>3. /\ TasksShaped' /\ task'[t] = Idle
        /\ \A u \in Threads \ {t} : task'[u] = task[u]
    BY <2>1, TaskReplaced
  <2>4. \A u \in Threads : task'[u].at # "planning"
    BY <1>0, <2>2, <2>3
  <2> QED
    BY <2>2, <2>3, <2>4 DEF OnlyHolderPlans, LeaseStable
<1>5. ASSUME NEW t \in Threads, EnterLease(t) PROVE LeaseInv'
  <2>1. /\ holder = NoThread /\ UNCHANGED committed
        /\ task[t].at = "prepared"
    BY <1>5 DEF EnterLease, Unlocked
  <2>2. \A u \in Threads : task[u].at # "planning"
    BY <2>1 DEF OnlyHolderPlans
  <2>3. CASE AsPrepared(t)
    <3> DEFINE r == [at |-> "planning", query |-> task[t].query,
                     window |-> task[t].window]
    <3>1. holder' = t /\ task' = [task EXCEPT ![t].at = "planning"]
      BY <1>5, <2>3 DEF EnterLease
    <3>2. task[t] = [at |-> task[t].at, query |-> task[t].query,
                     window |-> task[t].window]
      BY <1>0, <2>1 DEF TasksShaped
    <3>3. [task[t] EXCEPT !.at = "planning"] = r
      BY <3>2
    <3>4. task' = [task EXCEPT ![t] = r]
      BY <3>1, <3>3
    <3>5. r = [at |-> r.at, query |-> r.query, window |-> r.window]
      OBVIOUS
    <3>6. /\ TasksShaped' /\ task'[t] = r
          /\ \A u \in Threads \ {t} : task'[u] = task[u]
      <4> HIDE DEF r
      <4> QED
        BY <3>4, <3>5, TaskReplaced
    <3>7. task'[t].at = "planning" /\ task'[t].query = task[t].query
          /\ task'[t].window = task[t].window
      BY <3>6
    <3>8. OnlyHolderPlans'
      BY <2>2, <3>1, <3>6, <3>7 DEF OnlyHolderPlans
    <3>9. LeaseStable'
      BY <2>1, <2>2, <2>3, <3>1, <3>6, <3>7 DEF LeaseStable, AsPrepared
    <3> QED
      BY <3>6, <3>8, <3>9
  <2>4. CASE ~AsPrepared(t)
    <3>1. holder' = NoThread /\ task' = [task EXCEPT ![t] = Idle]
      BY <1>5, <2>1, <2>4 DEF EnterLease
    <3>2. /\ TasksShaped' /\ task'[t] = Idle
          /\ \A u \in Threads \ {t} : task'[u] = task[u]
      BY <3>1, TaskReplaced
    <3>3. \A u \in Threads : task'[u].at # "planning"
      BY <1>0, <2>2, <3>2
    <3> QED
      BY <3>1, <3>2, <3>3 DEF OnlyHolderPlans, LeaseStable
  <2> QED
    BY <2>3, <2>4
<1>6. CASE UNCHANGED sourceVars
  BY <1>6 DEF sourceVars, TasksShaped, OnlyHolderPlans, LeaseStable
<1> QED
  BY <1>1, <1>2, <1>3, <1>4, <1>5, <1>6 DEF SourceNext

(* While a planning lasts, the window it was prepared from stays committed,*)
(* unchanged, and nobody else plans.                                       *)
THEOREM LeaseAlwaysStable == SourceSpec => []LeaseStable
<1>1. SourceInit => LeaseInv
  <2> SUFFICES ASSUME SourceInit PROVE LeaseInv
    OBVIOUS
  <2>1. task = [t \in Threads |-> Idle] /\ Idle.at = "idle"
    BY DEF SourceInit, Idle
  <2> QED
    BY <2>1, SourceAssumption
       DEF SourceInit, LeaseInv, TasksShaped, OnlyHolderPlans, LeaseStable
<1>2. LeaseInv /\ [SourceNext]_sourceVars => LeaseInv'
  BY NextLease, SourceAssumption
<1>3. LeaseInv => LeaseStable
  BY DEF LeaseInv
<1> QED
  BY <1>1, <1>2, <1>3, PTL DEF SourceSpec

(* A committed window never changes: it can only be discarded by a reset.  *)
THEOREM CommitsAreFinal == SourceSpec => WindowsFixed
<1> DEFINE Fixed == \A q \in DOMAIN committed \cap DOMAIN committed' :
                      committed'[q] = committed[q]
<1>1. ASSUME SourceNext PROVE Fixed
  <2>1. ASSUME NEW generation, ResetToGeneration(generation) PROVE Fixed
    BY <2>1 DEF ResetToGeneration
  <2>2. ASSUME NEW t \in Threads, StoreWindow(t) PROVE Fixed
    <3>1. CASE MayStore(task[t].query, task[t].window)
      <4>1. committed' = Put(committed, task[t].query, task[t].window)
        BY <2>2, <3>1 DEF StoreWindow
      <4>2. SUFFICES ASSUME NEW q \in DOMAIN committed,
                            q \in DOMAIN committed'
                     PROVE  committed'[q] = committed[q]
        OBVIOUS
      <4>3. CASE q = task[t].query
        <5>1. committed'[q] = task[t].window
          BY <4>1, <4>3 DEF Put
        <5> QED
          BY <3>1, <4>3, <5>1 DEF MayStore
      <4>4. CASE q # task[t].query
        BY <4>1, <4>4 DEF Put
      <4> QED
        BY <4>3, <4>4
    <3>2. CASE ~MayStore(task[t].query, task[t].window)
      BY <2>2, <3>2 DEF StoreWindow
    <3> QED
      BY <3>1, <3>2
  <2> QED
    BY <1>1, <2>1, <2>2
       DEF SourceNext, Publish, ReadWindow, Prepare, EnterLease, LeaveLease
<1>2. [SourceNext]_sourceVars => [Fixed]_sourceVars
  BY <1>1
<1> QED
  BY <1>2, PTL DEF SourceSpec, WindowsFixed

===============================================================================
