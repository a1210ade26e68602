--------------------------- MODULE RelayEdgeProofs ---------------------------
(***************************************************************************)
(* Theorems about Listeners, for any number of system channels,            *)
(* controllers and data listeners, any ports, and any ports other programs *)
(* hold, and about ClientPipeline, for any files and versions, any payload *)
(* size and any capacity of the queue; and the types of both.              *)
(***************************************************************************)
EXTENDS MCRelayEdge, SeqMeasureTheorems

-----------------------------------------------------------------------------
(***************************************************************************)
(* The listeners. The invariant says, for every step the holder of mutex_  *)
(* can be at, what each acceptor is: the list the holder works through     *)
(* tells what is done from what is not.                                    *)
(***************************************************************************)

Most == Max(Counts \cup {Initial})

MainAt == call[Main].step

Resizing(t) == call[t].step \in {"resizing", "joining"}

Holds(t) ==
  Resizing(t) \/ (t = Main /\ MainAt \in {"starting", "closing", "waiting"})

Joining == \E t \in Callers : At(t, "joining")

\* What main has still to start, or to close.
ToDo(id) == \E i \in 1..Len(call[Main].rest) : call[Main].rest[i] = id

\* The acceptor main has closed and waits for.
Awaited(id) == MainAt = "waiting" /\ id = Head(call[Main].rest)

MainPlaces ==
  {"none", "starting", "resizing", "joining", "serving", "closing", "waiting", "stopped"}

Typed ==
  /\ started \in BOOLEAN /\ desired \in 0..Most /\ count \in 0..Most
  /\ owner \in Callers \cup {NoThread}
  /\ acceptor \in [Ids -> {"absent", "refused", "listening", "closed"}]
  /\ loop \in [Ids -> {"none", "check", "enter", "blocked"}]
  /\ DOMAIN call = Callers

\* Who has the mutex, and what for.
Held ==
  /\ \A t \in Callers :
       /\ owner = t <=> Holds(t)
       /\ Resizing(t) => call[t].rest = <<desired>> /\ started
       /\ At(t, "scaling") => t # Main /\ \E n \in Counts : call[t].rest = <<n>>
  /\ MainAt \in MainPlaces
  /\ started <=> MainAt \notin {"none", "stopped"}
  /\ MainAt \in {"none", "starting", "stopped"} => count = 0
  /\ started /\ owner = NoThread => count = desired

\* Main's list has no acceptor twice, and only those there are.
Listed ==
  MainAt \in {"starting", "closing", "waiting"} =>
    LET rest == call[Main].rest IN
    /\ rest \in Seq(Ids)
    /\ \A i, j \in 1..Len(rest) : rest[i] = rest[j] => i = j
    /\ \A i \in 1..Len(rest) :
         rest[i] \in SystemIds \/ (MainAt # "starting" /\ rest[i][2] < count)
    /\ MainAt = "waiting" => rest # <<>>

\* A thread runs while its acceptor listens, and until it is joined.
Runs(id) ==
  /\ acceptor[id] = "listening" => loop[id] # "none"
  /\ loop[id] # "none" =>
       \/ acceptor[id] = "listening"
       \/ acceptor[id] = "closed" /\ (Awaited(id) \/ (Joining /\ id = Data(count)))

\* What an acceptor may be.
Spare(id) == id \in DataIds /\ id[2] >= count

Shape(id) ==
  /\ Spare(id) =>
       acceptor[id] \in IF Joining /\ id[2] = count THEN {"closed", "refused"} ELSE {"absent"}
  /\ ~Spare(id) =>
       /\ MainAt = "none" => acceptor[id] = "absent"
       /\ MainAt = "starting" =>
            acceptor[id] \in IF ToDo(id) THEN {"absent"} ELSE {"listening", "refused"}
       /\ MainAt \in {"resizing", "joining", "serving"} =>
            acceptor[id] \in {"listening", "refused"}
       /\ MainAt \in {"closing", "waiting"} =>
            acceptor[id] \in IF ToDo(id) /\ ~Awaited(id) THEN {"listening", "refused"}
                             ELSE {"closed", "refused"}
       /\ MainAt = "stopped" => acceptor[id] \in {"closed", "refused"}

LInv == Typed /\ Held /\ Listed /\ \A id \in Ids : Runs(id) /\ Shape(id)

-----------------------------------------------------------------------------
(* The identifiers.                                                        *)

\* A finite set of numbers that has one has a largest.
LEMMA Largest ==
  ASSUME NEW S \in SUBSET Nat, IsFiniteSet(S), S # {}
  PROVE  Max(S) \in S /\ \A y \in S : y <= Max(S)
<1>. DEFINE Above(x) == {y \in S : y > x}
            I == {Above(x) : x \in S}
<1>1. IsWellFoundedOn(StrictSubsetOrdering(S), FiniteSubsetsOf(S))
  BY FS_StrictSubsetOrderingWellFounded
<1>2. I \subseteq FiniteSubsetsOf(S) /\ I # {}
  <2>1. \A x \in S : Above(x) \in FiniteSubsetsOf(S)
    BY FS_Subset DEF FiniteSubsetsOf
  <2>. QED
    BY <2>1
<1>3. \E A \in I : \A B \in I : <<B, A>> \notin StrictSubsetOrdering(S)
  <2>. HIDE DEF I
  <2>. QED
    BY <1>1, <1>2, WFMin
<1>4. PICK x \in S : \A y \in S : <<Above(y), Above(x)>> \notin StrictSubsetOrdering(S)
  BY <1>3
<1>5. ASSUME NEW y \in S, y > x PROVE FALSE
  <2>1. y \in Above(x) /\ y \notin Above(y)
    BY <1>5
  <2>2. ASSUME NEW z \in Above(y) PROVE z \in Above(x)
    <3>1. x \in Nat /\ y \in Nat /\ z \in Nat /\ z \in S /\ z > y
      OBVIOUS
    <3>. QED
      BY <1>5, <3>1
  <2>3. <<Above(y), Above(x)>> \in StrictSubsetOrdering(S)
    <3>. HIDE DEF Above
    <3>1. Above(y) \subseteq Above(x) /\ Above(y) # Above(x)
      BY <2>1, <2>2
    <3>2. Above(x) \subseteq S
      BY DEF Above
    <3>. QED
      BY <3>1, <3>2 DEF StrictSubsetOrdering
  <2>. QED
    BY <1>4, <2>3
<1>6. \A y \in S : x >= y
  BY <1>5
<1>. QED
  BY <1>6 DEF Max

\* There are as many data listeners as ever asked for.
LEMMA MostFacts ==
  /\ Most \in Nat /\ Initial <= Most
  /\ \A n \in Counts : n \in Nat /\ n <= Most
<1>1. Counts \cup {Initial} \in SUBSET Nat /\ IsFiniteSet(Counts \cup {Initial})
  BY ListenersAssumption, FS_AddElement
<1>. QED
  BY <1>1, Largest, ListenersAssumption DEF Most

\* Two kinds of identifiers.
LEMMA IdFacts ==
  /\ \A i : Data(i) \in DataIds <=> i \in 0..(Most - 1)
  /\ \A id \in DataIds : id = Data(id[2]) /\ id[2] \in 0..(Most - 1)
  /\ \A id \in SystemIds : id \notin DataIds /\ \A i : id # Data(i)
  /\ SystemIds \subseteq Ids /\ DataIds \subseteq Ids
  /\ \A id \in Ids : id \in SystemIds \/ id \in DataIds
BY DEF DataIds, SystemIds, Ids, Data, Most

\* FromTo lists each identifier once.
LEMMA FromToFacts ==
  ASSUME NEW ids, NEW n \in Nat
  PROVE  /\ Len(FromTo(ids, n)) = n
         /\ \A i \in 1..n : FromTo(ids, n)[i] = <<ids, i - 1>>
BY DEF FromTo

\* A thread that goes on leaves the others where they are.
LEMMA Goes ==
  ASSUME DOMAIN call = Callers, NEW t \in Callers, NEW step, NEW rest, GoTo(t, step, rest)
  PROVE  /\ DOMAIN call' = Callers
         /\ call'[t].step = step /\ call'[t].rest = rest
         /\ \A u \in Callers : u # t => call'[u] = call[u]
BY DEF GoTo

\* The threads, and what the holder of the mutex excludes.
LEMMA HolderFacts ==
  ASSUME LInv
  PROVE  /\ Main \in Callers /\ NoThread \notin Callers
         /\ \A c \in Controllers : c \in Callers /\ c # Main
         /\ \A t, u \in Callers : Holds(t) /\ u # t => ~Holds(u)
         /\ owner = NoThread => (~Joining /\ \A t \in Callers : ~Holds(t))
         /\ \A t \in Callers : At(t, "resizing") => ~Joining
         /\ MainAt \in {"starting", "closing", "waiting"} => ~Joining
BY ListenersAssumption DEF LInv, Held, Holds, Resizing, Joining, At, Callers, MainAt

\* What a step says of the acceptors stays true while neither they, nor main's
\* list, nor the number of data listeners changes.
LEMMA Frame ==
  ASSUME LInv, UNCHANGED <<count, acceptor, loop>>, call'[Main] = call[Main],
         Joining' <=> Joining
  PROVE  Listed' /\ \A id \in Ids : Runs(id)' /\ Shape(id)'
<1>. USE DEF LInv
<1>1. MainAt' = MainAt /\ \A id \in Ids : ToDo(id)' <=> ToDo(id)
  BY DEF MainAt, ToDo
<1>2. \A id \in Ids : (Awaited(id)' <=> Awaited(id)) /\ (Spare(id)' <=> Spare(id))
  BY DEF MainAt, Awaited, Spare
<1>3. Listed'
  BY <1>1 DEF Listed
<1>. QED
  BY <1>1, <1>2, <1>3 DEF Runs, Shape

\* A controller that neither had the mutex nor takes it goes on.
LEMMA Aside ==
  ASSUME LInv, NEW c \in Controllers, NEW step, NEW rest, GoTo(c, step, rest),
         ~Resizing(c), step \in {"none", "reading", "reply", "scaling"},
         step = "scaling" => \E n \in Counts : rest = <<n>>,
         UNCHANGED <<owner, started, count, acceptor>>,
         desired' = desired \/ (~started /\ desired' \in 0..Most),
         loop' \in [Ids -> {"none", "check", "enter", "blocked"}]
  PROVE  /\ Typed' /\ Held' /\ (Joining' <=> Joining)
         /\ call'[Main] = call[Main]
<1>. USE HolderFacts, Goes DEF LInv
<1>1. DOMAIN call = Callers
  BY DEF Typed
<1>2. Typed'
  BY <1>1 DEF Typed
<1>3. call'[Main] = call[Main]
  BY <1>1
<1>4. \A t \in Callers : (Holds(t)' <=> Holds(t)) /\ (Resizing(t)' <=> Resizing(t))
  BY <1>1, <1>3 DEF Holds, Resizing, MainAt
<1>5. Held'
  <2>1. \A t \in Callers : owner' = t <=> Holds(t)'
    BY <1>4 DEF Held
  <2>2. ASSUME NEW t \in Callers, Resizing(t)' PROVE call'[t].rest = <<desired'>> /\ started'
    BY <1>1, <1>4, <2>2 DEF Held, Resizing
  <2>3. ASSUME NEW t \in Callers, At(t, "scaling")'
        PROVE  t # Main /\ \E n \in Counts : call'[t].rest = <<n>>
    BY <1>1, <2>3 DEF Held, At
  <2>. QED
    BY <1>3, <2>1, <2>2, <2>3 DEF Held, MainAt
<1>6. \A t \in Callers : At(t, "joining")' <=> At(t, "joining")
  BY <1>1 DEF At, Resizing
<1>. QED
  BY <1>2, <1>3, <1>5, <1>6 DEF Joining

-----------------------------------------------------------------------------
(* The acceptor threads.                                                   *)

\* What is left to show when only a thread's place has changed.
LEMMA LoopFrame ==
  ASSUME LInv, UNCHANGED <<owner, started, desired, count, acceptor, call>>,
         loop' \in [Ids -> {"none", "check", "enter", "blocked"}],
         \A id \in Ids : Runs(id)'
  PROVE  LInv'
<1>. USE DEF LInv
<1>1. Typed' /\ Held' /\ Listed'
  BY DEF Typed, Held, Holds, Resizing, At, MainAt, Listed
<1>2. \A id \in Ids : Shape(id)'
  BY DEF Shape, Spare, Joining, At, MainAt, ToDo, Awaited
<1>. QED
  BY <1>1, <1>2

\* accept_loop, its condition and its accept.
LEMMA LoopsStep ==
  ASSUME LInv, NEW id \in Ids, Loops(id)
  PROVE  LInv'
<1>. USE DEF LInv
<1>1. loop' \in [Ids -> {"none", "check", "enter", "blocked"}]
  BY DEF Loops, LoopAgain, EnterAccept, Typed
<1>2. UNCHANGED <<owner, started, desired, count, acceptor, call>>
  BY DEF Loops, LoopAgain, EnterAccept
<1>3. ASSUME NEW other \in Ids PROVE Runs(other)'
  <2>1. acceptor'[other] = acceptor[other] /\ (Awaited(other)' <=> Awaited(other))
        /\ (Joining' <=> Joining)
    BY <1>2 DEF Awaited, MainAt, Joining, At
  <2>2. loop'[other] # "none" =>
          loop[other] # "none"
    BY DEF Loops, LoopAgain, EnterAccept, Typed
  <2>3. acceptor[other] = "listening" => loop'[other] # "none"
    BY DEF Loops, LoopAgain, EnterAccept, Typed, Runs
  <2>. QED
    BY <1>2, <2>1, <2>2, <2>3 DEF Runs
<1>. QED
  BY <1>1, <1>2, <1>3, LoopFrame

\* accept returns, and perhaps a controller has a connection.
LEMMA ReturnStep ==
  ASSUME LInv, NEW id \in Ids, AcceptReturns(id)
  PROVE  LInv'
<1>. USE DEF LInv
<1>1. loop' \in [Ids -> {"none", "check", "enter", "blocked"}]
  BY DEF AcceptReturns, Typed
<1>2. UNCHANGED <<owner, started, desired, count, acceptor>>
  BY DEF AcceptReturns
<1>3. \A other \in Ids : loop'[other] # "none" <=> loop[other] # "none"
  BY DEF AcceptReturns, Typed
<1>4. ASSUME UNCHANGED call PROVE LInv'
  <2>1. \A other \in Ids : Runs(other)'
    BY <1>2, <1>3, <1>4 DEF Runs, Awaited, MainAt, Joining, At
  <2>. QED
    BY <1>1, <1>2, <1>4, <2>1, LoopFrame
<1>5. ASSUME NEW c \in Controllers, At(c, "none"), GoTo(c, "reading", <<>>) PROVE LInv'
  <2>1. Typed' /\ Held' /\ (Joining' <=> Joining) /\ call'[Main] = call[Main]
    BY <1>1, <1>2, <1>5, Aside DEF At, Resizing
  <2>2. ASSUME NEW other \in Ids PROVE Runs(other)' /\ Shape(other)'
    <3>1. (Awaited(other)' <=> Awaited(other)) /\ (ToDo(other)' <=> ToDo(other))
          /\ MainAt' = MainAt /\ (Spare(other)' <=> Spare(other))
      BY <1>2, <2>1 DEF Awaited, ToDo, MainAt, Spare
    <3>. QED
      BY <1>2, <1>3, <2>1, <3>1 DEF Runs, Shape
  <2>3. Listed'
    BY <1>2, <2>1 DEF Listed, MainAt
  <2>. QED
    BY <2>1, <2>2, <2>3
<1>. QED
  BY <1>4, <1>5 DEF AcceptReturns

-----------------------------------------------------------------------------
(* The control connections.                                                *)

\* SCALE_DATA, the other commands and the answers touch no acceptor.
LEMMA TalkStep ==
  ASSUME LInv, NEW c \in Controllers, Scale(c) \/ Query(c) \/ Answer(c)
  PROVE  LInv'
<1>. USE DEF LInv
<1>1. UNCHANGED <<owner, started, desired, count, acceptor, loop>>
  BY DEF Scale, Query, Answer
<1>2. loop' \in [Ids -> {"none", "check", "enter", "blocked"}]
  BY <1>1 DEF Typed
<1>3. ~Resizing(c)
  BY DEF Scale, Query, Answer, At, Resizing
<1>4. \E step \in {"none", "reading", "reply", "scaling"}, rest \in {<<>>} \cup {<<n>> : n \in Counts} :
        GoTo(c, step, rest) /\ (step = "scaling" => \E n \in Counts : rest = <<n>>)
  <2>1. CASE Scale(c)
    BY <2>1 DEF Scale
  <2>2. CASE Query(c)
    BY <2>2 DEF Query
  <2>3. CASE Answer(c)
    BY <2>3 DEF Answer
  <2>. QED
    BY <2>1, <2>2, <2>3
<1>5. Typed' /\ Held' /\ (Joining' <=> Joining) /\ call'[Main] = call[Main]
  BY <1>1, <1>2, <1>3, <1>4, Aside
<1>. QED
  BY <1>1, <1>5, Frame

\* update_data_listener_count takes the mutex, or only keeps the number.
LEMMA UpdateStep ==
  ASSUME LInv, NEW c \in Controllers, Update(c)
  PROVE  LInv'
<1>. USE HolderFacts DEF LInv
<1>1. PICK n \in Counts : call[c].rest = <<n>>
  BY DEF Update, Held
<1>2. n \in 0..Most /\ desired' = n /\ owner = NoThread /\ At(c, "scaling")
  BY <1>1, MostFacts DEF Update
<1>3. UNCHANGED <<started, count, acceptor, loop>>
  BY DEF Update
<1>4. ASSUME ~started PROVE LInv'
  <2>1. GoTo(c, "reply", <<>>) /\ UNCHANGED owner /\ ~Resizing(c)
    BY <1>2, <1>4 DEF Update, At, Resizing
  <2>2. loop' \in [Ids -> {"none", "check", "enter", "blocked"}]
    BY <1>3 DEF Typed
  <2>3. Typed' /\ Held' /\ (Joining' <=> Joining) /\ call'[Main] = call[Main]
    BY <1>2, <1>3, <1>4, <2>1, <2>2, Aside
  <2>. QED
    BY <1>3, <2>3, Frame
<1>5. ASSUME started PROVE LInv'
  <2>1. GoTo(c, "resizing", <<n>>) /\ owner' = c
    BY <1>1, <1>5 DEF Update
  <2>2. DOMAIN call' = Callers /\ call'[c].step = "resizing" /\ call'[c].rest = <<n>>
        /\ \A u \in Callers : u # c => call'[u] = call[u]
    BY <2>1, Goes DEF Typed
  <2>3. Typed'
    BY <1>2, <1>3, <2>1, <2>2 DEF Typed
  <2>4. call'[Main] = call[Main] /\ ~Joining /\ ~Joining'
    BY <1>2, <2>2 DEF Joining, At
  <2>5. Held'
    <3>1. \A t \in Callers : Resizing(t)' <=> t = c
      BY <1>2, <2>2 DEF Resizing, Holds
    <3>2. \A t \in Callers : Holds(t)' <=> t = c
      BY <1>2, <2>4, <3>1 DEF Holds, MainAt
    <3>3. \A t \in Callers : At(t, "scaling")' => At(t, "scaling") /\ call'[t] = call[t]
      BY <2>2 DEF At
    <3>4. started' /\ owner' # NoThread
      BY <1>3, <1>5, <2>1, ListenersAssumption
    <3>5. MainAt' = MainAt /\ started' = started /\ count' = count
      BY <1>3, <2>4 DEF MainAt
    <3>6. ASSUME NEW t \in Callers
          PROVE  /\ owner' = t <=> Holds(t)'
                 /\ Resizing(t)' => call'[t].rest = <<desired'>> /\ started'
                 /\ At(t, "scaling")' => t # Main /\ \E k \in Counts : call'[t].rest = <<k>>
      <4>1. owner' = t <=> Holds(t)'
        BY <2>1, <3>2
      <4>2. Resizing(t)' => call'[t].rest = <<desired'>> /\ started'
        BY <1>2, <2>2, <3>1, <3>4
      <4>3. At(t, "scaling")' => t # Main /\ \E k \in Counts : call'[t].rest = <<k>>
        BY <3>3 DEF Held
      <4>. QED
        BY <4>1, <4>2, <4>3
    <3>. QED
      BY <3>4, <3>5, <3>6 DEF Held
  <2>. QED
    BY <1>3, <2>3, <2>4, <2>5, Frame
<1>. QED
  BY <1>4, <1>5 DEF Typed

-----------------------------------------------------------------------------
(* The mutex, and the number of data listeners.                            *)

\* What Held says once a step's holder is known.
LEMMA HeldBy ==
  ASSUME LInv, NEW t \in Callers, NEW step, NEW rest, GoTo(t, step, rest),
         owner \in {NoThread, t}, step # "scaling",
         owner' = IF step \in {"resizing", "joining", "starting", "closing", "waiting"}
                  THEN t ELSE NoThread,
         step \in {"starting", "closing", "waiting"} => t = Main,
         step \in {"resizing", "joining"} => rest = <<desired'>> /\ started',
         t = Main => step \in MainPlaces,
         started' <=> MainAt' \notin {"none", "stopped"},
         MainAt' \in {"none", "starting", "stopped"} => count' = 0,
         started' /\ owner' = NoThread => count' = desired'
  PROVE  Held' /\ (Joining' <=> step = "joining")
<1>. USE HolderFacts DEF LInv
<1>1. DOMAIN call = Callers
  BY DEF Typed
<1>2. /\ call'[t].step = step /\ call'[t].rest = rest
      /\ \A u \in Callers : u # t => call'[u] = call[u]
  BY <1>1, Goes
<1>3. \A u \in Callers : u # t => ~Holds(u) /\ ~Holds(u)'
  <2>1. \A u \in Callers : u # t => ~Holds(u)
    BY DEF Held
  <2>. QED
    BY <1>2, <2>1 DEF Holds, Resizing, MainAt
<1>4. \A u \in Callers : u # t => ~Resizing(u)'
  BY <1>3 DEF Holds
<1>5. Holds(t)' <=> step \in {"resizing", "joining", "starting", "closing", "waiting"}
  BY <1>2 DEF Holds, Resizing, MainAt
<1>6. Joining' <=> step = "joining"
  BY <1>2, <1>4 DEF Joining, At, Resizing
<1>7. \A u \in Callers : owner' = u <=> Holds(u)'
  BY <1>3, <1>5
<1>8. \A u \in Callers : Resizing(u)' => call'[u].rest = <<desired'>> /\ started'
  BY <1>2, <1>4 DEF Resizing
<1>9. \A u \in Callers : At(u, "scaling")' => u # Main /\ \E n \in Counts : call'[u].rest = <<n>>
  BY <1>2 DEF At, Held
<1>10. MainAt' \in MainPlaces
  BY <1>2 DEF Held, MainAt
<1>. QED
  BY <1>6, <1>7, <1>8, <1>9, <1>10 DEF Held

\* start() has every system channel to start.
LEMMA StartStep ==
  ASSUME LInv, Start
  PROVE  LInv'
<1>. USE HolderFacts, IdFacts DEF LInv
<1>1. owner = NoThread /\ MainAt = "none" /\ count = 0 /\ ~Joining
  BY DEF Start, At, MainAt, Held
<1>2. /\ owner' = Main /\ started' = TRUE
      /\ GoTo(Main, "starting", FromTo("system", Systems))
      /\ UNCHANGED <<desired, count, acceptor, loop>>
  BY DEF Start
<1>3. /\ DOMAIN call' = Callers /\ MainAt' = "starting"
      /\ call'[Main].rest = FromTo("system", Systems)
  BY <1>2, Goes DEF Typed, MainAt
<1>4. Held' /\ ~Joining'
  BY <1>1, <1>2, <1>3, HeldBy DEF MainPlaces
<1>5. /\ Len(FromTo("system", Systems)) = Systems
      /\ \A i \in 1..Systems : FromTo("system", Systems)[i] = <<"system", i - 1>>
      /\ Systems \in Nat
  BY FromToFacts, ListenersAssumption
<1>6. Listed'
  <2>1. FromTo("system", Systems) \in Seq(SystemIds)
    BY ListenersAssumption DEF FromTo, SystemIds
  <2>2. FromTo("system", Systems) \in Seq(Ids)
    BY <2>1 DEF Ids
  <2>. QED
    BY <1>3, <1>5, <2>1, <2>2 DEF Listed
<1>7. ASSUME NEW id \in SystemIds PROVE ToDo(id)'
  <2>1. PICK i \in 0..(Systems - 1) : id = <<"system", i>>
    BY DEF SystemIds
  <2>2. i + 1 \in 1..Systems /\ FromTo("system", Systems)[i + 1] = id
    BY <1>5, <2>1
  <2>. QED
    BY <1>3, <1>5, <2>2 DEF ToDo
<1>8. ASSUME NEW id \in Ids PROVE acceptor[id] = "absent"
  BY <1>1 DEF Shape, Spare
<1>9. ASSUME NEW id \in Ids PROVE Runs(id)' /\ Shape(id)'
  <2>1. loop'[id] = "none" /\ acceptor'[id] = "absent"
    BY <1>2, <1>8 DEF Runs, Typed
  <2>2. ~Spare(id)' => id \in SystemIds
    BY <1>1, <1>2 DEF Spare
  <2>. QED
    BY <1>3, <1>4, <1>7, <2>1, <2>2 DEF Runs, Shape
<1>. QED
  BY <1>2, <1>3, <1>4, <1>6, <1>9 DEF Typed

\* A list without its head has the others pending still, and only those.
LEMMA TailFacts ==
  ASSUME LInv, NEW rest, rest = call[Main].rest, rest # <<>>,
         MainAt \in {"starting", "closing", "waiting"},
         call'[Main].rest = Tail(rest)
  PROVE  /\ Head(rest) \in Ids
         /\ ToDo(Head(rest))
         /\ Head(rest) \in SystemIds \/ (MainAt # "starting" /\ Head(rest)[2] < count)
         /\ \A id \in Ids : ToDo(id)' <=> ToDo(id) /\ id # Head(rest)
         /\ Tail(rest) \in Seq(Ids)
         /\ \A i, j \in 1..Len(Tail(rest)) : Tail(rest)[i] = Tail(rest)[j] => i = j
         /\ \A i \in 1..Len(Tail(rest)) :
              \/ Tail(rest)[i] \in SystemIds
              \/ MainAt # "starting" /\ Tail(rest)[i][2] < count
<1>1. /\ rest \in Seq(Ids)
      /\ \A i, j \in 1..Len(rest) : rest[i] = rest[j] => i = j
      /\ \A i \in 1..Len(rest) :
           rest[i] \in SystemIds \/ (MainAt # "starting" /\ rest[i][2] < count)
  BY DEF LInv, Listed
<1>2. /\ Len(rest) \in Nat \ {0} /\ Head(rest) = rest[1] /\ Head(rest) \in Ids
      /\ Tail(rest) \in Seq(Ids) /\ Len(Tail(rest)) = Len(rest) - 1
      /\ \A i \in 1..Len(Tail(rest)) : Tail(rest)[i] = rest[i + 1]
  BY <1>1
<1>3. \A i \in 1..Len(Tail(rest)) : i + 1 \in 1..Len(rest) /\ i + 1 # 1
  BY <1>2
<1>4. \A i, j \in 1..Len(Tail(rest)) : Tail(rest)[i] = Tail(rest)[j] => i = j
  BY <1>1, <1>2, <1>3
<1>5. ASSUME NEW id \in Ids, ToDo(id)' PROVE ToDo(id) /\ id # Head(rest)
  <2>1. PICK i \in 1..Len(Tail(rest)) : Tail(rest)[i] = id
    BY <1>5 DEF ToDo
  <2>2. i + 1 \in 1..Len(rest) /\ rest[i + 1] = id /\ i + 1 # 1 /\ 1 \in 1..Len(rest)
    BY <1>2, <1>3, <2>1
  <2>. QED
    BY <1>1, <1>2, <2>2 DEF ToDo
<1>6. ASSUME NEW id \in Ids, ToDo(id), id # Head(rest) PROVE ToDo(id)'
  <2>1. PICK i \in 1..Len(rest) : rest[i] = id
    BY <1>6 DEF ToDo
  <2>2. i - 1 \in 1..Len(Tail(rest)) /\ Tail(rest)[i - 1] = id
    BY <1>2, <1>6, <2>1
  <2>. QED
    BY <2>2 DEF ToDo
<1>7. 1 \in 1..Len(rest)
  BY <1>2
<1>. QED
  BY <1>1, <1>2, <1>3, <1>4, <1>5, <1>6, <1>7 DEF ToDo

\* What starting an acceptor does to it.
LEMMA StartedFacts ==
  ASSUME Typed, NEW id \in Ids, StartAcceptor(id), loop[id] = "none"
  PROVE  /\ acceptor' \in [Ids -> {"absent", "refused", "listening", "closed"}]
         /\ loop' \in [Ids -> {"none", "check", "enter", "blocked"}]
         /\ acceptor'[id] \in {"listening", "refused"}
         /\ acceptor'[id] = "listening" <=> loop'[id] # "none"
         /\ \A other \in Ids : other # id =>
              acceptor'[other] = acceptor[other] /\ loop'[other] = loop[other]
BY DEF StartAcceptor, Typed

\* start() starts the next system channel, or goes on with the data listeners.
LEMMA StartSystemStep ==
  ASSUME LInv, StartSystem
  PROVE  LInv'
<1>. USE HolderFacts, IdFacts DEF LInv
<1>. DEFINE rest == call[Main].rest
<1>1. MainAt = "starting" /\ owner = Main /\ count = 0 /\ started /\ ~Joining
  BY DEF StartSystem, At, MainAt, Held, Holds
<1>2. UNCHANGED <<owner, started, desired, count>> /\ DOMAIN call = Callers
  BY DEF StartSystem, Typed
<1>3. ASSUME rest = <<>> PROVE LInv'
  <2>1. GoTo(Main, "resizing", <<desired>>) /\ UNCHANGED <<acceptor, loop>>
    BY <1>3 DEF StartSystem
  <2>2. DOMAIN call' = Callers /\ MainAt' = "resizing"
    BY <1>2, <2>1, Goes DEF MainAt
  <2>3. Held' /\ ~Joining'
    BY <1>1, <1>2, <2>1, <2>2, HeldBy DEF MainPlaces
  <2>4. ASSUME NEW id \in Ids PROVE Runs(id)' /\ Shape(id)'
    <3>1. ~ToDo(id)
      BY <1>3 DEF ToDo
    <3>. QED
      BY <1>1, <1>2, <2>1, <2>2, <2>3, <3>1 DEF Runs, Shape, Spare, Awaited
  <2>. QED
    BY <1>2, <2>1, <2>2, <2>3, <2>4 DEF Typed, Listed
<1>4. ASSUME rest # <<>> PROVE LInv'
  <2>1. StartAcceptor(Head(rest)) /\ GoTo(Main, "starting", Tail(rest))
    BY <1>4 DEF StartSystem
  <2>2. DOMAIN call' = Callers /\ MainAt' = "starting" /\ call'[Main].rest = Tail(rest)
    BY <1>2, <2>1, Goes DEF MainAt
  <2>. DEFINE h == Head(rest)
  <2>3. /\ h \in Ids /\ h \in SystemIds /\ ToDo(h)
        /\ \A id \in Ids : ToDo(id)' <=> ToDo(id) /\ id # h
        /\ Listed'
    BY <1>1, <1>4, <2>2, TailFacts DEF Listed
  <2>4. acceptor[h] = "absent" /\ loop[h] = "none"
    BY <1>1, <2>3 DEF Shape, Spare, Runs, Typed
  <2>5. /\ acceptor' \in [Ids -> {"absent", "refused", "listening", "closed"}]
        /\ loop' \in [Ids -> {"none", "check", "enter", "blocked"}]
        /\ acceptor'[h] \in {"listening", "refused"}
        /\ acceptor'[h] = "listening" <=> loop'[h] # "none"
        /\ \A other \in Ids : other # h =>
             acceptor'[other] = acceptor[other] /\ loop'[other] = loop[other]
    BY <2>1, <2>3, <2>4, StartedFacts
  <2>. HIDE DEF rest, h
  <2>6. Held' /\ ~Joining'
    BY <1>1, <1>2, <2>1, <2>2, HeldBy DEF MainPlaces
  <2>7. ASSUME NEW id \in Ids PROVE Runs(id)' /\ Shape(id)'
    <3>1. (Spare(id)' <=> Spare(id)) /\ (Spare(id) => id # h)
      BY <1>2, <2>3 DEF Spare
    <3>2. ASSUME id = h PROVE Runs(id)' /\ Shape(id)'
      BY <2>2, <2>3, <2>5, <2>6, <3>1, <3>2 DEF Runs, Shape
    <3>3. ASSUME id # h PROVE Runs(id)' /\ Shape(id)'
      BY <1>1, <2>2, <2>3, <2>5, <2>6, <3>1, <3>3 DEF Runs, Shape, Awaited
    <3>. QED
      BY <3>2, <3>3
  <2>. QED
    BY <1>2, <2>2, <2>3, <2>5, <2>6, <2>7 DEF Typed
<1>. QED
  BY <1>3, <1>4

\* The thread that resizes: main, or a controller while main serves.
LEMMA ResizerFacts ==
  ASSUME LInv, NEW t \in Callers, Resizing(t)
  PROVE  /\ owner = t /\ started /\ desired \in 0..Most
         /\ call[t].rest = <<desired>> /\ call[t].rest[1] = desired
         /\ MainAt = IF t = Main THEN call[t].step ELSE "serving"
BY HolderFacts DEF LInv, Held, Holds, Resizing, MainAt, MainPlaces, Typed

\* ensure_data_acceptors_locked makes one more, or one less, or has done.
LEMMA ResizeStep ==
  ASSUME LInv, NEW t \in Callers, Resize(t)
  PROVE  LInv'
<1>. USE HolderFacts, IdFacts, MostFacts DEF LInv
<1>1. /\ call[t].step = "resizing" /\ Resizing(t) /\ ~Joining
      /\ owner = t /\ started /\ desired \in 0..Most /\ call[t].rest[1] = desired
      /\ call[t].rest = <<desired>>
      /\ MainAt = IF t = Main THEN "resizing" ELSE "serving"
  <2>1. call[t].step = "resizing" /\ Resizing(t) /\ ~Joining
    BY DEF Resize, At, Resizing
  <2>. QED
    BY <2>1, ResizerFacts
<1>2. UNCHANGED <<started, desired>> /\ DOMAIN call = Callers /\ count \in 0..Most
  BY DEF Resize, Typed
<1>3. ASSUME Fewer(desired), StartAcceptor(Data(count)), count' = count + 1,
             UNCHANGED <<owner, call>>
      PROVE  LInv'
  <2>. DEFINE h == Data(count)
  <2>1. h \in DataIds /\ h \in Ids /\ Spare(h) /\ h[2] = count
    BY <1>1, <1>2, <1>3 DEF Fewer, Spare, Data
  <2>2. acceptor[h] = "absent" /\ loop[h] = "none"
    BY <1>1, <2>1 DEF Shape, Runs, Typed
  <2>3. /\ acceptor' \in [Ids -> {"absent", "refused", "listening", "closed"}]
        /\ loop' \in [Ids -> {"none", "check", "enter", "blocked"}]
        /\ acceptor'[h] \in {"listening", "refused"}
        /\ acceptor'[h] = "listening" <=> loop'[h] # "none"
        /\ \A other \in Ids : other # h =>
             acceptor'[other] = acceptor[other] /\ loop'[other] = loop[other]
    BY <1>3, <2>1, <2>2, StartedFacts
  <2>4. Typed'
    BY <1>1, <1>2, <1>3, <2>3 DEF Fewer, Typed
  <2>5. Held' /\ ~Joining' /\ MainAt' = MainAt
    BY <1>1, <1>2, <1>3 DEF Held, Holds, Resizing, Joining, At, MainAt
  <2>. HIDE DEF h
  <2>6. ASSUME NEW id \in Ids PROVE Runs(id)' /\ Shape(id)'
    <3>1. Spare(id)' <=> Spare(id) /\ id # h
      <4>1. id \in DataIds => (id[2] = count <=> id = h) /\ id[2] \in Nat
        BY <2>1
      <4>. QED
        BY <1>2, <1>3, <2>1, <4>1 DEF Spare
    <3>2. ASSUME id = h PROVE Runs(id)' /\ Shape(id)'
      BY <1>1, <2>3, <2>5, <3>1, <3>2 DEF Runs, Shape
    <3>3. ASSUME id # h PROVE Runs(id)' /\ Shape(id)'
      BY <1>1, <2>3, <2>5, <3>1, <3>3 DEF Runs, Shape, Awaited
    <3>. QED
      BY <3>2, <3>3
  <2>. QED
    BY <1>1, <2>4, <2>5, <2>6 DEF Listed
<1>4. ASSUME count > desired, CloseAcceptor(Data(count - 1)), count' = count - 1,
             GoTo(t, "joining", <<desired>>), UNCHANGED <<owner, loop>>
      PROVE  LInv'
  <2>. DEFINE h == Data(count - 1)
  <2>1. h \in DataIds /\ h \in Ids /\ ~Spare(h) /\ h[2] = count - 1
    BY <1>1, <1>2, <1>4 DEF Spare, Data
  <2>2. acceptor[h] \in {"listening", "refused"}
    BY <1>1, <2>1 DEF Shape
  <2>3. /\ acceptor' \in [Ids -> {"absent", "refused", "listening", "closed"}]
        /\ acceptor'[h] = IF acceptor[h] = "listening" THEN "closed" ELSE "refused"
        /\ \A other \in Ids : other # h => acceptor'[other] = acceptor[other]
    BY <1>4, <2>1, <2>2 DEF CloseAcceptor, Typed
  <2>4. /\ DOMAIN call' = Callers
        /\ MainAt' = IF t = Main THEN "joining" ELSE "serving"
    BY <1>1, <1>2, <1>4, Goes DEF MainAt
  <2>5. Held' /\ Joining'
    BY <1>1, <1>2, <1>4, <2>4, HeldBy DEF MainPlaces
  <2>6. h = Data(count')
    BY <1>4
  <2>. HIDE DEF h
  <2>7. ASSUME NEW id \in Ids PROVE Runs(id)' /\ Shape(id)'
    <3>1. /\ Spare(id)' <=> Spare(id) \/ id = h
          /\ id \in DataIds => (id[2] = count' <=> id = h)
      <4>1. id \in DataIds => (id[2] = count - 1 <=> id = h) /\ id[2] \in Nat
        BY <2>1
      <4>. QED
        BY <1>2, <1>4, <2>1, <4>1 DEF Spare
    <3>2. ASSUME id = h PROVE Runs(id)' /\ Shape(id)'
      <4>1. Spare(id)' /\ id[2] = count' /\ acceptor'[id] \in {"closed", "refused"}
        BY <1>4, <2>1, <2>2, <2>3, <3>1, <3>2
      <4>2. loop'[id] # "none" => acceptor'[id] = "closed"
        BY <1>1, <1>4, <2>2, <2>3, <3>2 DEF Runs
      <4>. QED
        BY <1>4, <2>5, <2>6, <3>2, <4>1, <4>2 DEF Runs, Shape
    <3>3. ASSUME id # h PROVE Runs(id)' /\ Shape(id)'
      <4>1. Spare(id)' => id[2] # count'
        BY <3>1, <3>3 DEF Spare
      <4>. QED
        BY <1>1, <1>4, <2>3, <2>4, <2>5, <3>1, <3>3, <4>1 DEF Runs, Shape, Awaited
    <3>. QED
      BY <3>2, <3>3
  <2>8. Typed'
    BY <1>1, <1>2, <1>4, <2>3, <2>4 DEF Typed
  <2>. QED
    BY <2>4, <2>5, <2>7, <2>8 DEF Listed
<1>5. ASSUME count = desired, owner' = NoThread,
             GoTo(t, IF t = Main THEN "serving" ELSE "reply", <<>>),
             UNCHANGED <<count, acceptor, loop>>
      PROVE  LInv'
  <2>1. DOMAIN call' = Callers /\ MainAt' = "serving"
    BY <1>1, <1>2, <1>5, Goes DEF MainAt
  <2>2. Held' /\ ~Joining'
    BY <1>1, <1>2, <1>5, <2>1, HeldBy DEF MainPlaces
  <2>3. ASSUME NEW id \in Ids PROVE Runs(id)' /\ Shape(id)'
    <3>1. Spare(id)' <=> Spare(id)
      BY <1>5 DEF Spare
    <3>. QED
      BY <1>1, <1>5, <2>1, <2>2, <3>1 DEF Runs, Shape, Awaited
  <2>. QED
    BY <1>2, <1>5, <2>1, <2>2, <2>3 DEF Typed, Listed
<1>. QED
  BY <1>1, <1>3, <1>4, <1>5 DEF Resize

\* The data listener that was closed goes when its thread has ended.
LEMMA DiscardStep ==
  ASSUME LInv, NEW t \in Callers, Discard(t)
  PROVE  LInv'
<1>. USE HolderFacts, IdFacts, MostFacts DEF LInv
<1>1. /\ call[t].step = "joining" /\ Resizing(t) /\ Joining
      /\ owner = t /\ started /\ call[t].rest = <<desired>>
      /\ MainAt = IF t = Main THEN "joining" ELSE "serving"
  <2>1. call[t].step = "joining" /\ Resizing(t) /\ Joining
    BY DEF Discard, At, Resizing, Joining
  <2>. QED
    BY <2>1, ResizerFacts
<1>2. /\ UNCHANGED <<owner, started, desired, count, loop>> /\ DOMAIN call = Callers
      /\ GoTo(t, "resizing", <<desired>>) /\ loop[Data(count)] = "none"
      /\ count \in 0..Most
  BY <1>1 DEF Discard, Joined, Typed
<1>3. /\ acceptor' \in [Ids -> {"absent", "refused", "listening", "closed"}]
      /\ \A id \in Ids : acceptor'[id] = IF id = Data(count) THEN "absent" ELSE acceptor[id]
  BY DEF Discard, Typed
<1>4. /\ DOMAIN call' = Callers
      /\ MainAt' = IF t = Main THEN "resizing" ELSE "serving"
  BY <1>1, <1>2, Goes DEF MainAt
<1>5. Held' /\ ~Joining'
  BY <1>1, <1>2, <1>4, HeldBy DEF MainPlaces
<1>6. ASSUME NEW id \in Ids PROVE Runs(id)' /\ Shape(id)'
  <2>1. (Spare(id)' <=> Spare(id)) /\ (id = Data(count) => Spare(id))
    BY <1>2 DEF Spare, Data
  <2>2. Spare(id) /\ id[2] = count => id = Data(count)
    BY DEF Spare
  <2>. QED
    BY <1>1, <1>2, <1>3, <1>4, <1>5, <2>1, <2>2 DEF Runs, Shape, Awaited
<1>. QED
  BY <1>2, <1>3, <1>4, <1>5, <1>6 DEF Typed, Listed

\* stop() has every acceptor there is to close.
LEMMA StopStep ==
  ASSUME LInv, Stop
  PROVE  LInv'
<1>. USE HolderFacts, IdFacts, MostFacts DEF LInv
<1>. DEFINE sys == FromTo("system", Systems)
            dat == FromTo("data", count)
<1>1. /\ owner = NoThread /\ MainAt = "serving" /\ started /\ ~Joining
      /\ DOMAIN call = Callers /\ count \in 0..Most /\ Systems \in Nat
  BY ListenersAssumption DEF Stop, At, MainAt, Held, Typed
<1>2. /\ owner' = Main /\ UNCHANGED <<started, desired, count, acceptor, loop>>
      /\ GoTo(Main, "closing", sys \o dat)
  BY DEF Stop
<1>3. DOMAIN call' = Callers /\ MainAt' = "closing" /\ call'[Main].rest = sys \o dat
  <2>. HIDE DEF sys, dat
  <2>. QED
    BY <1>1, <1>2, Goes DEF MainAt
<1>4. Held' /\ ~Joining'
  BY <1>1, <1>2, <1>3, HeldBy DEF MainPlaces
<1>5. /\ sys \in Seq(SystemIds) /\ Len(sys) = Systems
      /\ \A i \in 1..Systems : sys[i] = <<"system", i - 1>>
  BY <1>1 DEF FromTo, SystemIds
<1>6. /\ dat \in Seq(DataIds) /\ Len(dat) = count
      /\ \A i \in 1..count : dat[i] = Data(i - 1)
  <2>1. \A i \in 1..count : dat[i] = Data(i - 1) /\ Data(i - 1) \in DataIds
    BY <1>1 DEF FromTo, Data
  <2>2. dat = [i \in 1..count |-> Data(i - 1)]
    BY DEF FromTo, Data
  <2>. QED
    BY <1>1, <2>1, <2>2
<1>. HIDE DEF sys, dat
<1>. DEFINE all == sys \o dat
<1>7. /\ all \in Seq(Ids) /\ Len(all) = Systems + count
      /\ \A i \in 1..Systems : all[i] = <<"system", i - 1>> /\ all[i] \in SystemIds
      /\ \A i \in (Systems + 1)..(Systems + count) :
           all[i] = Data(i - Systems - 1) /\ all[i] \in DataIds /\ all[i][2] = i - Systems - 1
  <2>1. sys \in Seq(Ids) /\ dat \in Seq(Ids)
    BY <1>5, <1>6
  <2>2. all \in Seq(Ids) /\ Len(all) = Systems + count
    <3>1. sys \o dat \in Seq(Ids)
      BY <2>1
    <3>2. Len(sys \o dat) = Len(sys) + Len(dat)
      BY <2>1
    <3>. QED
      BY <1>5, <1>6, <3>1, <3>2
  <2>3. ASSUME NEW i \in 1..Systems PROVE all[i] = <<"system", i - 1>> /\ all[i] \in SystemIds
    <3>1. i \in 1..Len(sys) /\ i <= Len(sys) /\ i \in 1..(Len(sys) + Len(dat))
      BY <1>1, <1>5, <1>6
    <3>2. all[i] = sys[i]
      BY <1>5, <2>1, <3>1
    <3>. QED
      BY <1>5, <3>1, <3>2
  <2>4. ASSUME NEW i \in (Systems + 1)..(Systems + count)
        PROVE  all[i] = Data(i - Systems - 1) /\ all[i] \in DataIds /\ all[i][2] = i - Systems - 1
    <3>1. i \in Int /\ i >= Systems + 1 /\ i <= Systems + count /\ count \in Nat
      BY <1>1
    <3>2. i - Systems \in 1..count /\ i \in 1..(Len(sys) + Len(dat)) /\ ~(i <= Len(sys))
      BY <1>1, <1>5, <1>6, <3>1
    <3>3. all[i] = dat[i - Systems]
      BY <1>5, <2>1, <3>2
    <3>. QED
      BY <1>1, <1>6, <3>2, <3>3 DEF Data
  <2>. QED
    BY <2>2, <2>3, <2>4
<1>. HIDE DEF all
<1>8. Listed'
  <2>1. ASSUME NEW i \in 1..Len(all), NEW j \in 1..Len(all), all[i] = all[j] PROVE i = j
    <3>1. CASE i \in 1..Systems /\ j \in 1..Systems
      BY <1>1, <1>7, <2>1, <3>1
    <3>2. CASE i \notin 1..Systems /\ j \notin 1..Systems
      <4>1. i \in (Systems + 1)..(Systems + count) /\ j \in (Systems + 1)..(Systems + count)
        BY <1>1, <1>7, <3>2
      <4>. QED
        BY <1>1, <1>7, <2>1, <4>1
    <3>3. CASE i \in 1..Systems /\ j \notin 1..Systems
      <4>1. j \in (Systems + 1)..(Systems + count)
        BY <1>1, <1>7, <3>3
      <4>. QED
        BY <1>1, <1>7, <2>1, <3>3, <4>1
    <3>4. CASE i \notin 1..Systems /\ j \in 1..Systems
      <4>1. i \in (Systems + 1)..(Systems + count)
        BY <1>1, <1>7, <3>4
      <4>. QED
        BY <1>1, <1>7, <2>1, <3>4, <4>1
    <3>. QED
      BY <3>1, <3>2, <3>3, <3>4
  <2>2. ASSUME NEW i \in 1..Len(all) PROVE all[i] \in SystemIds \/ all[i][2] < count
    <3>1. i \in 1..Systems \/ i \in (Systems + 1)..(Systems + count)
      BY <1>1, <1>7
    <3>2. CASE i \in 1..Systems
      BY <1>7, <3>2
    <3>3. CASE i \in (Systems + 1)..(Systems + count)
      <4>1. all[i][2] = i - Systems - 1 /\ i - Systems - 1 < count
        BY <1>1, <1>7, <3>3
      <4>. QED
        BY <4>1
    <3>. QED
      BY <3>1, <3>2, <3>3
  <2>. QED
    BY <1>2, <1>3, <1>7, <2>1, <2>2 DEF Listed, all
<1>9. ASSUME NEW id \in Ids, ~Spare(id) PROVE ToDo(id)'
  <2>1. ASSUME id \in SystemIds PROVE \E i \in 1..Len(all) : all[i] = id
    <3>1. PICK i \in 0..(Systems - 1) : id = <<"system", i>>
      BY <2>1 DEF SystemIds
    <3>2. i + 1 \in 1..Systems /\ i + 1 \in 1..Len(all)
      BY <1>1, <1>7, <3>1
    <3>. QED
      BY <1>7, <3>1, <3>2
  <2>2. ASSUME id \in DataIds PROVE \E i \in 1..Len(all) : all[i] = id
    <3>1. id = Data(id[2]) /\ id[2] \in 0..(count - 1)
      BY <1>1, <1>9, <2>2 DEF Spare
    <3>2. /\ Systems + id[2] + 1 \in (Systems + 1)..(Systems + count)
          /\ Systems + id[2] + 1 \in 1..Len(all)
          /\ (Systems + id[2] + 1) - Systems - 1 = id[2]
      <4>1. PICK k \in 0..(count - 1) : k = id[2]
        BY <3>1
      <4>2. Systems \in Nat /\ count \in Nat /\ Len(all) = Systems + count
        BY <1>1, <1>7
      <4>3. /\ Systems + k + 1 \in (Systems + 1)..(Systems + count)
            /\ Systems + k + 1 \in 1..(Systems + count) /\ (Systems + k + 1) - Systems - 1 = k
        BY <4>2
      <4>. QED
        BY <4>1, <4>2, <4>3
    <3>. QED
      BY <1>7, <3>1, <3>2
  <2>. QED
    BY <1>3, <2>1, <2>2 DEF ToDo, all
<1>10. ASSUME NEW id \in Ids PROVE Runs(id)' /\ Shape(id)'
  <2>1. Spare(id)' <=> Spare(id)
    BY <1>2 DEF Spare
  <2>. QED
    BY <1>1, <1>2, <1>3, <1>4, <1>9, <2>1 DEF Runs, Shape, Awaited
<1>. QED
  BY <1>2, <1>3, <1>4, <1>8, <1>10 DEF Typed

\* stop() closes the next one and waits for its thread, or has done.
LEMMA StopNextStep ==
  ASSUME LInv, StopNext
  PROVE  LInv'
<1>. USE HolderFacts, IdFacts, MostFacts DEF LInv
<1>. DEFINE rest == call[Main].rest
<1>1. MainAt = "closing" /\ owner = Main /\ started /\ ~Joining /\ DOMAIN call = Callers
  BY DEF StopNext, At, MainAt, Held, Holds, Typed
<1>2. UNCHANGED <<desired, loop>>
  BY DEF StopNext
<1>3. ASSUME rest = <<>> PROVE LInv'
  <2>1. /\ acceptor' = [id \in Ids |-> IF id \in DataIds THEN "absent" ELSE acceptor[id]]
        /\ owner' = NoThread /\ started' = FALSE /\ count' = 0
        /\ GoTo(Main, "stopped", <<>>)
    BY <1>3 DEF StopNext
  <2>2. DOMAIN call' = Callers /\ MainAt' = "stopped"
    BY <1>1, <2>1, Goes DEF MainAt
  <2>3. Held' /\ ~Joining'
    BY <1>1, <1>2, <2>1, <2>2, HeldBy DEF MainPlaces
  <2>4. ASSUME NEW id \in Ids PROVE Runs(id)' /\ Shape(id)'
    <3>1. /\ ~Spare(id) => acceptor[id] \in {"closed", "refused"}
          /\ Spare(id) => acceptor[id] = "absent"
      BY <1>1, <1>3 DEF Shape, ToDo
    <3>2. loop[id] = "none"
      BY <1>1, <3>1 DEF Runs, Awaited, Typed
    <3>3. Spare(id)' <=> id \in DataIds
      BY <2>1 DEF Spare
    <3>4. id \notin DataIds => ~Spare(id)
      BY DEF Spare
    <3>. QED
      BY <1>2, <2>1, <2>2, <2>3, <3>1, <3>2, <3>3, <3>4 DEF Runs, Shape
  <2>5. Typed'
    <3>1. acceptor' \in [Ids -> {"absent", "refused", "listening", "closed"}]
      BY <2>1 DEF Typed
    <3>2. desired' \in 0..Most /\ loop' \in [Ids -> {"none", "check", "enter", "blocked"}]
      BY <1>2 DEF Typed
    <3>3. count' \in 0..Most
      BY <2>1
    <3>4. owner' \in Callers \cup {NoThread}
      BY <2>1
    <3>5. started' \in BOOLEAN
      BY <2>1
    <3>. QED
      BY <2>2, <3>1, <3>2, <3>3, <3>4, <3>5 DEF Typed
  <2>. QED
    BY <2>2, <2>3, <2>4, <2>5 DEF Listed
<1>4. ASSUME rest # <<>> PROVE LInv'
  <2>1. CloseAcceptor(Head(rest)) /\ GoTo(Main, "waiting", rest) /\ UNCHANGED <<owner, started, count>>
    BY <1>4 DEF StopNext
  <2>2. DOMAIN call' = Callers /\ MainAt' = "waiting" /\ call'[Main].rest = rest
    BY <1>1, <2>1, Goes DEF MainAt
  <2>3. Held' /\ ~Joining'
    BY <1>1, <1>2, <2>1, <2>2, HeldBy DEF MainPlaces
  <2>4. /\ rest \in Seq(Ids) /\ 1 \in 1..Len(rest) /\ Head(rest) = rest[1] /\ Head(rest) \in Ids
        /\ Head(rest) \in SystemIds \/ Head(rest)[2] < count
    <3>1. rest \in Seq(Ids)
      BY <1>1 DEF Listed
    <3>2. 1 \in 1..Len(rest) /\ Head(rest) = rest[1] /\ Head(rest) \in Ids
      BY <1>4, <3>1
    <3>. QED
      BY <1>1, <3>1, <3>2 DEF Listed
  <2>5. Listed'
    BY <1>1, <1>4, <2>1, <2>2 DEF Listed
  <2>. DEFINE h == Head(rest)
  <2>6. h \in Ids /\ ~Spare(h) /\ ToDo(h)
    <3>1. h \in DataIds => h[2] < count /\ h[2] \in Nat /\ count \in Nat
      BY <2>4 DEF Typed
    <3>2. ~Spare(h)
      BY <3>1 DEF Spare
    <3>. QED
      BY <2>4, <3>2 DEF ToDo
  <2>7. acceptor[h] \in {"listening", "refused"}
    BY <1>1, <2>6 DEF Shape, Awaited
  <2>8. /\ acceptor' \in [Ids -> {"absent", "refused", "listening", "closed"}]
        /\ acceptor'[h] = IF acceptor[h] = "listening" THEN "closed" ELSE "refused"
        /\ \A other \in Ids : other # h => acceptor'[other] = acceptor[other]
    BY <2>1, <2>6, <2>7 DEF CloseAcceptor, Typed
  <2>9. \A id \in Ids : (ToDo(id)' <=> ToDo(id)) /\ (Awaited(id)' <=> id = h)
    BY <2>2 DEF ToDo, Awaited
  <2>. HIDE DEF rest, h
  <2>10. ASSUME NEW id \in Ids PROVE Runs(id)' /\ Shape(id)'
    <3>1. Spare(id)' <=> Spare(id)
      BY <2>1 DEF Spare
    <3>2. ASSUME id = h PROVE Runs(id)' /\ Shape(id)'
      <4>1. loop'[id] # "none" => acceptor'[id] = "closed"
        BY <1>1, <1>2, <2>6, <2>7, <2>8, <3>2 DEF Runs
      <4>. QED
        BY <1>1, <2>2, <2>3, <2>6, <2>7, <2>8, <2>9, <3>1, <3>2, <4>1 DEF Runs, Shape
    <3>3. ASSUME id # h PROVE Runs(id)' /\ Shape(id)'
      BY <1>1, <1>2, <2>2, <2>3, <2>8, <2>9, <3>1, <3>3 DEF Runs, Shape, Awaited
    <3>. QED
      BY <3>2, <3>3
  <2>. QED
    BY <1>2, <2>1, <2>2, <2>3, <2>5, <2>8, <2>10 DEF Typed
<1>. QED
  BY <1>3, <1>4

\* The thread waited for has ended, and the next one is closed.
LEMMA StopJoinedStep ==
  ASSUME LInv, StopJoined
  PROVE  LInv'
<1>. USE HolderFacts, IdFacts DEF LInv
<1>. DEFINE rest == call[Main].rest
            h == Head(rest)
<1>1. /\ MainAt = "waiting" /\ owner = Main /\ started /\ ~Joining /\ DOMAIN call = Callers
      /\ rest # <<>>
  BY DEF StopJoined, At, MainAt, Held, Holds, Typed, Listed
<1>2. /\ UNCHANGED <<owner, started, desired, count, acceptor, loop>> /\ loop[h] = "none"
      /\ GoTo(Main, "closing", Tail(rest))
  BY DEF StopJoined, Joined
<1>3. DOMAIN call' = Callers /\ MainAt' = "closing" /\ call'[Main].rest = Tail(rest)
  BY <1>1, <1>2, Goes DEF MainAt
<1>4. Held' /\ ~Joining'
  BY <1>1, <1>2, <1>3, HeldBy DEF MainPlaces
<1>5. /\ h \in Ids /\ ToDo(h)
      /\ \A id \in Ids : ToDo(id)' <=> ToDo(id) /\ id # h
      /\ Listed'
  BY <1>1, <1>2, <1>3, TailFacts DEF Listed
<1>6. \A id \in Ids : Awaited(id) <=> id = h
  BY <1>1 DEF Awaited
<1>. HIDE DEF rest, h
<1>7. ASSUME NEW id \in Ids PROVE Runs(id)' /\ Shape(id)'
  <2>1. Spare(id)' <=> Spare(id)
    BY <1>2 DEF Spare
  <2>2. ~Awaited(id)'
    BY <1>3 DEF Awaited
  <2>3. Runs(id)'
    BY <1>1, <1>2, <1>4, <1>6 DEF Runs
  <2>. QED
    BY <1>1, <1>2, <1>3, <1>4, <1>5, <1>6, <2>1, <2>2, <2>3 DEF Shape
<1>. QED
  BY <1>2, <1>3, <1>4, <1>5, <1>7 DEF Typed

-----------------------------------------------------------------------------
(* The theorem.                                                            *)

LEMMA LInit ==
  ASSUME ListenersInit
  PROVE  LInv
<1>. USE ListenersAssumption, MostFacts DEF ListenersInit
<1>1. Initial \in 0..Most /\ 0 \in 0..Most
  OBVIOUS
<1>2. Typed
  BY <1>1 DEF Typed
<1>3. \A t \in Callers : call[t].step = "none"
  OBVIOUS
<1>4. Held
  BY <1>3 DEF Held, Holds, Resizing, At, MainAt, MainPlaces, Callers
<1>5. MainAt = "none" /\ ~Joining
  BY <1>3 DEF MainAt, Joining, At, Callers
<1>6. Listed /\ \A id \in Ids : Runs(id) /\ Shape(id)
  BY <1>5 DEF Listed, Runs, Shape
<1>. QED
  BY <1>2, <1>4, <1>6 DEF LInv

LEMMA LStutter ==
  ASSUME LInv, UNCHANGED listenerVars
  PROVE  LInv'
<1>. USE DEF LInv, listenerVars
<1>1. Typed' /\ Held' /\ Listed'
  BY DEF Typed, Held, Holds, Resizing, At, MainAt, Listed
<1>2. \A id \in Ids : Runs(id)' /\ Shape(id)'
  BY DEF Runs, Shape, Spare, Joining, At, MainAt, ToDo, Awaited
<1>. QED
  BY <1>1, <1>2

LEMMA LNext ==
  ASSUME LInv, [ListenersNext]_listenerVars
  PROVE  LInv'
<1>1. ASSUME NEW id \in Ids, Loops(id) \/ AcceptReturns(id) PROVE LInv'
  BY <1>1, LoopsStep, ReturnStep
<1>2. ASSUME NEW t \in Callers, Holding(t) PROVE LInv'
  BY <1>2, ResizeStep, DiscardStep, StartSystemStep, StopNextStep, StopJoinedStep DEF Holding
<1>3. ASSUME NEW c \in Controllers, Scale(c) \/ Query(c) \/ Answer(c) \/ Update(c) PROVE LInv'
  BY <1>3, TalkStep, UpdateStep
<1>. QED
  BY <1>1, <1>2, <1>3, StartStep, StopStep, LStutter DEF ListenersNext

\* With the mutex free, the acceptors are those the manager should have.
LEMMA LSettled ==
  ASSUME LInv
  PROVE  AcceptorsSettled
<1>. USE HolderFacts, IdFacts DEF LInv
<1>1. \A id \in Ids : loop[id] # "none" => acceptor[id] \in {"listening", "closed"}
  BY DEF Runs
<1>2. ASSUME owner = NoThread PROVE MainAt \in {"none", "serving", "stopped"} /\ ~Joining
  BY <1>2 DEF Held, Holds, Resizing, MainAt, MainPlaces
<1>3. ASSUME owner = NoThread PROVE count = IF started THEN desired ELSE 0
  BY <1>2, <1>3 DEF Held
<1>4. ASSUME owner = NoThread, NEW id \in Ids,
             NEW wanted, wanted = (started /\ (id \in DataIds => id[2] < count))
      PROVE  /\ acceptor[id] \in (IF wanted THEN {"listening", "refused"}
                                  ELSE {"absent", "refused", "closed"})
             /\ (loop[id] # "none") = (acceptor[id] = "listening")
  <2>1. started <=> MainAt = "serving"
    BY <1>2, <1>4 DEF Held
  <2>2. Spare(id) <=> (id \in DataIds /\ ~(id[2] < count))
    BY DEF Spare, Typed
  <2>3. Spare(id) => acceptor[id] = "absent"
    BY <1>2, <1>4 DEF Shape
  <2>4. acceptor[id] \in (IF wanted THEN {"listening", "refused"}
                          ELSE {"absent", "refused", "closed"})
    <3>1. ASSUME wanted PROVE acceptor[id] \in {"listening", "refused"}
      BY <1>4, <2>1, <2>2, <3>1 DEF Shape
    <3>2. ASSUME ~wanted, ~started PROVE acceptor[id] \in {"absent", "refused", "closed"}
      BY <1>2, <1>4, <2>1, <2>3, <3>2 DEF Shape
    <3>3. ASSUME ~wanted, started PROVE acceptor[id] \in {"absent", "refused", "closed"}
      BY <1>4, <2>2, <2>3, <3>3
    <3>. QED
      BY <3>1, <3>2, <3>3
  <2>5. loop[id] # "none" <=> acceptor[id] = "listening"
    BY <1>2, <1>4 DEF Runs, Awaited
  <2>. QED
    BY <2>4, <2>5
<1>. QED
  BY <1>1, <1>3, <1>4 DEF AcceptorsSettled

\* Whenever nobody is rescaling, starting or stopping, the listeners are the system
\* channels and the first `desired` data listeners, each with its thread if and only if
\* it listens, and none once stop() has returned (start, stop,
\* update_data_listener_count, ensure_data_acceptors_locked, stop_acceptor_locked).
THEOREM Settled == ListenersSpec => []AcceptorsSettled
<1>1. ListenersInit => LInv
  BY LInit
<1>2. LInv /\ [ListenersNext]_listenerVars => LInv'
  BY LNext
<1>3. LInv => AcceptorsSettled
  BY LSettled
<1>. QED
  BY <1>1, <1>2, <1>3, PTL DEF ListenersSpec

-----------------------------------------------------------------------------
(***************************************************************************)
(* The client's main loop. The invariant divides the queue into whole      *)
(* uploads and what has been queued of the file in hand, whose remaining   *)
(* chunks follow it, and says of every file that does not wait to be       *)
(* processed what was queued of it last.                                   *)
(***************************************************************************)

ChunksOf(content) == ChunkCount(CompressedSize(content))

BusyPhases == {"reading", "announcing", "pushing", "processed"}

QueueingPhases == {"announcing", "pushing"}

PipelineTyped ==
  /\ file \in [Paths -> [version : Versions, there : BOOLEAN]]
  /\ known \in [Paths -> {0} \cup Versions]
  /\ listed \subseteq Paths /\ updated \in Seq(Paths)
  /\ half \in {0} \cup Versions
  /\ chunks \in Seq(Chunks) /\ accepted \in Seq(Chunks)
  /\ phase \in BusyPhases => updated # <<>>
  /\ phase = "sleeping" => updated = <<>>

\* The first m chunks of the queue are whole uploads.
WholeTo(m) ==
  \A i \in 1..m :
    LET c == accepted[i]
        base == i - c.index IN
    /\ base >= 1 /\ base + c.total - 1 <= m
    /\ \A k \in 1..c.total : accepted[base + k - 1] = Chunker(c.path, c.sha)[k]

\* Of a file's chunks those after the first m of the queue are queued, and the rest are
\* in hand.
InHand(m, p, content) ==
  LET begun == Len(accepted) - m IN
  /\ begun <= ChunksOf(content)
  /\ \A k \in 1..begun : accepted[m + k] = Chunker(p, content)[k]
  /\ Len(chunks) = ChunksOf(content) - begun
  /\ \A k \in 1..Len(chunks) : chunks[k] = Chunker(p, content)[begun + k]

\* Bytes read no earlier than the watcher last saw the file.
SinceKnown(p, content) ==
  known[p] <= content[1] /\ content[1] <= content[2] /\ content[2] <= file[p].version

Queueing(m) ==
  \E content \in Content : InHand(m, Current, content) /\ SinceKnown(Current, content)

Cut ==
  \E m \in 0..Len(accepted) :
    /\ WholeTo(m)
    /\ phase \in QueueingPhases => Queueing(m)
    /\ phase \notin QueueingPhases => m = Len(accepted) /\ chunks = <<>>

\* The watcher knows nothing of p, its last version known could not be read, or what
\* was queued of it last was read since.
LastSince(p) ==
  \E i \in 1..Len(accepted) :
    /\ accepted[i].path = p /\ SinceKnown(p, accepted[i].sha)
    /\ \A j \in 1..Len(accepted) : j > i => accepted[j].path # p

Caught(p) == p \in unread \/ known[p] = 0 \/ LastSince(p)

Waits(p) == \E k \in 1..Len(updated) : updated[k] = p

Followed ==
  /\ \A p \in Paths : known[p] <= file[p].version
  /\ \A p \in Paths : ~Waits(p) => Caught(p)
  /\ phase = "processed" => Caught(Current)
  /\ phase = "reading" =>
       half \in Versions /\ known[Current] <= half /\ half <= file[Current].version

\* What was handed to the system channel was sent or lost.
Told == messages \cup lost

AnnouncedChunk(c) == {Meta(c), PatchMap(c)} \subseteq Told

Announced ==
  /\ published \subseteq Told
  /\ \A i \in 1..Len(accepted) : AnnouncedChunk(accepted[i])
  /\ phase = "pushing" => chunks # <<>> /\ AnnouncedChunk(Head(chunks))

PipelineInv == PipelineTyped /\ Cut /\ Followed /\ Announced

-----------------------------------------------------------------------------
(* Chunks *)

LEMMA SizeFacts ==
  ASSUME NEW content \in Content
  PROVE  /\ CompressedSize(content) \in Nat \ {0}
         /\ ChunksOf(content) \in Nat \ {0}
         /\ (ChunksOf(content) - 1) * PayloadSize < CompressedSize(content)
         /\ CompressedSize(content) <= ChunksOf(content) * PayloadSize
<1>. DEFINE a == SizeOf[content[1]]
            b == SizeOf[content[2]]
            s == CompressedSize(content)
<1>1. a \in Nat \ {0} /\ b \in Nat \ {0}
  BY PipelineAssumption DEF Content, Versions
<1>. HIDE DEF a, b
<1>2. \E x \in {a, b} : \A y \in {a, b} : x >= y
  BY <1>1
<1>3. Max({a, b}) \in {a, b}
  BY <1>2 DEF Max
<1>4. s \in Nat \ {0}
  BY <1>1, <1>3 DEF CompressedSize, a, b
<1>. HIDE DEF s
<1>5. PayloadSize \in Nat \ {0}
  BY PipelineAssumption
<1>6. LET t == (s + PayloadSize - 1) \div PayloadSize IN
      t \in Nat \ {0} /\ (t - 1) * PayloadSize < s /\ s <= t * PayloadSize
  BY <1>4, <1>5
<1>. QED
  BY <1>4, <1>6 DEF s, ChunksOf, ChunkCount

LEMMA MinOfTwo ==
  ASSUME NEW a \in Int, NEW b \in Int
  PROVE  Min({a, b}) = IF a <= b THEN a ELSE b
<1>1. \E x \in {a, b} : \A y \in {a, b} : x =< y
  OBVIOUS
<1>2. Min({a, b}) \in {a, b} /\ Min({a, b}) <= a /\ Min({a, b}) <= b
  BY <1>1 DEF Min
<1>. QED
  BY <1>2

LEMMA ChunkFacts ==
  ASSUME NEW p \in Paths, NEW content \in Content
  PROVE  LET f == Chunker(p, content) IN
         /\ f \in Seq(Chunks) /\ Len(f) = ChunksOf(content)
         /\ \A k \in 1..ChunksOf(content) :
              /\ f[k] \in Chunks
              /\ f[k].path = p /\ f[k].sha = content /\ f[k].index = k - 1
              /\ f[k].total = ChunksOf(content)
              /\ f[k].size = IF k < ChunksOf(content) THEN PayloadSize
                             ELSE CompressedSize(content) - (k - 1) * PayloadSize
<1>. DEFINE f == Chunker(p, content)
            T == ChunksOf(content)
            S == CompressedSize(content)
<1>1. T \in Nat \ {0} /\ S \in Nat /\ (T - 1) * PayloadSize < S /\ S <= T * PayloadSize
  BY SizeFacts
<1>2. PayloadSize \in Nat
  BY PipelineAssumption
<1>3. f = [k \in 1..T |-> [path |-> p, sha |-> content, index |-> k - 1, total |-> T,
                           size |-> Min({PayloadSize, S - (k - 1) * PayloadSize})]]
  BY DEF Chunker, ChunksOf
<1>. HIDE DEF S, T, f
<1>4. ASSUME NEW k \in 1..T
      PROVE  Min({PayloadSize, S - (k - 1) * PayloadSize}) =
               IF k < T THEN PayloadSize ELSE S - (k - 1) * PayloadSize
  <2>1. k < T => k * PayloadSize <= (T - 1) * PayloadSize
    BY <1>1, <1>2
  <2>2. (k - 1) * PayloadSize \in Int /\ k * PayloadSize = (k - 1) * PayloadSize + PayloadSize
    BY <1>1, <1>2
  <2>3. k < T => PayloadSize <= S - (k - 1) * PayloadSize
    BY <1>1, <1>2, <2>1, <2>2
  <2>4. k = T => S - (k - 1) * PayloadSize <= PayloadSize
    BY <1>1, <1>2, <2>2
  <2>5. Min({PayloadSize, S - (k - 1) * PayloadSize}) =
          IF PayloadSize <= S - (k - 1) * PayloadSize
          THEN PayloadSize ELSE S - (k - 1) * PayloadSize
    BY <1>1, <1>2, <2>2, MinOfTwo
  <2>. QED
    BY <1>1, <1>2, <2>2, <2>3, <2>4, <2>5
<1>5. \A k \in 1..T : f[k] \in Chunks
  <2>1. \A k \in 1..T : f[k] \in Range(f)
    BY <1>3 DEF Range
  <2>2. Range(f) \subseteq Chunks
    BY DEF Chunks, f
  <2>. QED
    BY <2>1, <2>2
<1>6. f \in Seq(Chunks) /\ Len(f) = T
  BY <1>1, <1>3, <1>5
<1>7. ASSUME NEW k \in 1..T
      PROVE  /\ f[k].path = p /\ f[k].sha = content /\ f[k].index = k - 1 /\ f[k].total = T
             /\ f[k].size = IF k < T THEN PayloadSize ELSE S - (k - 1) * PayloadSize
  <2>1. f[k] = [path |-> p, sha |-> content, index |-> k - 1, total |-> T,
                size |-> Min({PayloadSize, S - (k - 1) * PayloadSize})]
    BY <1>3
  <2>. QED
    BY <1>4, <2>1
<1>. QED
  BY <1>5, <1>6, <1>7 DEF f, S, T

\* A chunk tells where it comes from.
LEMMA ChunkIs ==
  ASSUME NEW c \in Chunks
  PROVE  /\ c.path \in Paths /\ c.sha \in Content /\ c.index \in Nat
         /\ c.total = ChunksOf(c.sha) /\ c.index < c.total
         /\ c.index + 1 \in 1..c.total
         /\ c = Chunker(c.path, c.sha)[c.index + 1]
<1>1. PICK p \in Paths, content \in Content : c \in Range(Chunker(p, content))
  BY DEF Chunks
<1>2. PICK k \in 1..ChunksOf(content) : c = Chunker(p, content)[k]
  BY <1>1 DEF Range, Chunker, ChunksOf
<1>3. ChunksOf(content) \in Nat
  BY SizeFacts
<1>. QED
  BY <1>2, <1>3, ChunkFacts

\* The chunks of a file hold its bytes.
LEMMA SizesSum ==
  ASSUME NEW p \in Paths, NEW content \in Content, NEW s, Len(s) = ChunksOf(content),
         \A k \in 1..ChunksOf(content) : s[k] = Chunker(p, content)[k].size
  PROVE  Total(s) = CompressedSize(content)
<1>. DEFINE T == ChunksOf(content)
            S == CompressedSize(content)
            P == PayloadSize
<1>1. T \in Nat \ {0} /\ S \in Nat /\ P \in Nat
  BY SizeFacts, PipelineAssumption
<1>2. \A k \in 1..T : s[k] = IF k < T THEN P ELSE S - (k - 1) * P
  BY ChunkFacts
<1>3. Len(s) \in Nat /\ Len(s) = T
  BY <1>1
<1>4. PICK f : Running(f, s, T) /\ Total(s) = f[T]
  BY <1>3, TotalIs
<1>. HIDE DEF T, S, P
<1>5. \A i \in 0..T : f[i] = IF i = 0 THEN 0 ELSE f[i - 1] + s[i]
  BY <1>4 DEF Running
<1>. DEFINE L == {i \in Nat : i < T => f[i] = i * P}
<1>6. 0 \in L
  BY <1>1, <1>5
<1>7. ASSUME NEW i \in Nat, i \in L PROVE i + 1 \in L
  <2>. SUFFICES ASSUME i + 1 < T PROVE f[i + 1] = (i + 1) * P
    OBVIOUS
  <2>1. f[i] = i * P /\ i + 1 \in 1..T /\ i + 1 \in 0..T /\ i + 1 # 0 /\ (i + 1) - 1 = i
    BY <1>1, <1>7
  <2>2. f[i + 1] = i * P + P
    BY <1>2, <1>5, <2>1
  <2>. QED
    BY <1>1, <2>2
<1>. HIDE DEF L
<1>8. \A i \in Nat : i \in L
  BY <1>6, <1>7, Induction
<1>9. f[T - 1] = (T - 1) * P
  BY <1>1, <1>8 DEF L
<1>10. f[T] = (T - 1) * P + (S - (T - 1) * P)
  <2>1. T \in 0..T /\ T # 0 /\ T \in 1..T
    BY <1>1
  <2>2. f[T] = f[T - 1] + s[T]
    BY <1>5, <2>1
  <2>3. s[T] = S - (T - 1) * P
    BY <1>1, <1>2, <2>1
  <2>. QED
    BY <1>9, <2>2, <2>3
<1>11. (T - 1) * P \in Int
  BY <1>1
<1>. QED
  BY <1>1, <1>4, <1>10, <1>11 DEF S

-----------------------------------------------------------------------------
(* The steps *)

LEMMA PipelineInitInv == PipelineInit => PipelineInv
<1>. SUFFICES ASSUME PipelineInit PROVE PipelineInv
  OBVIOUS
<1>1. (1 \in Versions /\ Versions \subseteq Nat) \/ Paths = {}
  BY PipelineAssumption DEF Versions
<1>2. /\ file \in [Paths -> [version : {1}, there : BOOLEAN]] /\ known = [p \in Paths |-> 0]
      /\ listed = There /\ updated = <<>> /\ half = 0 /\ chunks = <<>> /\ accepted = <<>>
      /\ phase = "scanning"
  BY DEF PipelineInit, Queue!Init
<1>3. PipelineTyped
  <2>1. file \in [Paths -> [version : Versions, there : BOOLEAN]]
    BY <1>1, <1>2
  <2>2. listed \subseteq Paths
    BY <1>2 DEF There
  <2>. QED
    BY <1>2, <2>1, <2>2 DEF PipelineTyped, BusyPhases
<1>4. Cut
  BY <1>2 DEF Cut, WholeTo, QueueingPhases
<1>5. Followed
  BY <1>2 DEF Followed, Caught
<1>6. Announced
  BY <1>2 DEF Announced, PipelineInit
<1>. QED
  BY <1>3, <1>4, <1>5, <1>6 DEF PipelineInv

\* What follows from the types for the file in hand.
LEMMA CurrentFacts ==
  ASSUME PipelineTyped, updated # <<>>
  PROVE  /\ Current \in Paths /\ Waits(Current) /\ Tail(updated) \in Seq(Paths)
         /\ \A p \in Paths : (Waits(p) <=> p = Current \/ \E k \in 1..Len(Tail(updated)) : Tail(updated)[k] = p)
<1>1. updated \in Seq(Paths) /\ Len(updated) \in Nat \ {0} /\ Current = updated[1]
  BY DEF PipelineTyped, Current
<1>2. /\ Tail(updated) \in Seq(Paths) /\ Len(Tail(updated)) = Len(updated) - 1
      /\ \A k \in 1..(Len(updated) - 1) : Tail(updated)[k] = updated[k + 1]
  BY <1>1
<1>3. \A k \in 1..Len(updated) : k = 1 \/ (k - 1 \in 1..(Len(updated) - 1) /\ (k - 1) + 1 = k)
  BY <1>1
<1>. QED
  BY <1>1, <1>2, <1>3 DEF Waits

LEMMA TypedNext ==
  ASSUME PipelineInv, [PipelineNext]_pipelineVars
  PROVE  PipelineTyped'
<1>. USE DEF PipelineInv, PipelineTyped, BusyPhases
<1>1. ASSUME NEW p \in Paths, Edit(p) PROVE PipelineTyped'
  <2>1. file' \in [Paths -> [version : Versions, there : BOOLEAN]]
    <3>1. ASSUME file[p].version < MaxVersion[p],
                 file' = [file EXCEPT ![p] = [version |-> @.version + 1, there |-> TRUE]]
          PROVE  file' \in [Paths -> [version : Versions, there : BOOLEAN]]
      <4>1. file[p].version + 1 \in Versions
        <5>1. Versions = 1..Len(SizeOf) /\ Len(SizeOf) \in Nat /\ MaxVersion[p] \in Versions
          BY PipelineAssumption DEF Versions
        <5>2. file[p].version \in Versions
          OBVIOUS
        <5>. QED
          BY <3>1, <5>1, <5>2
      <4>2. [version |-> file[p].version + 1, there |-> TRUE] \in [version : Versions, there : BOOLEAN]
        BY <4>1
      <4>. QED
        BY <3>1, <4>2
    <3>. QED
      BY <1>1, <3>1 DEF Edit
  <2>. QED
    BY <1>1, <2>1 DEF Edit, scanVars, fileVars, queueVars
<1>2. CASE UNCHANGED <<file, phase, scanVars, half, chunks, accepted>>
  BY <1>2 DEF scanVars
<1>3. ASSUME NEW p \in Paths, ScanEntry(p) PROVE PipelineTyped'
  <2>1. /\ phase = "scanning" /\ listed' \subseteq Paths
        /\ UNCHANGED <<file, phase, half, chunks, accepted>>
    BY <1>3 DEF ScanEntry, worldVars, fileVars, queueVars
  <2>2. known' \in [Paths -> {0} \cup Versions] /\ updated' \in Seq(Paths)
    <3>1. CASE UNCHANGED <<known, updated>>
      BY <3>1
    <3>2. CASE known' = [known EXCEPT ![p] = file[p].version] /\ updated' = Append(updated, p)
      <4>1. file[p].version \in Versions /\ updated \in Seq(Paths)
        OBVIOUS
      <4>. QED
        BY <3>2, <4>1
    <3>. QED
      BY <1>3, <3>1, <3>2 DEF ScanEntry
  <2>. QED
    BY <2>1, <2>2
<1>4. CASE ScanEnds
  BY <1>4 DEF ScanEnds, worldVars, fileVars, queueVars
<1>5. CASE Open
  <2>1. Current \in Paths
    BY <1>5, CurrentFacts DEF Open
  <2>. QED
    BY <1>5, <2>1 DEF Open, worldVars, scanVars, queueVars
<1>6. CASE CannotRead
  BY <1>6 DEF CannotRead, worldVars, scanVars, queueVars
<1>7. CASE Compress
  <2>1. Current \in Paths /\ half \in Versions
    BY <1>7, CurrentFacts DEF Compress, Followed
  <2>2. PICK rest \in {half} \cup {file[p].version : p \in There \cap {Current}} :
          chunks' = Chunker(Current, <<half, rest>>)
    BY <1>7 DEF Compress
  <2>3. <<half, rest>> \in Content
    BY <2>1, <2>2 DEF Content
  <2>4. chunks' \in Seq(Chunks)
    BY <2>1, <2>2, <2>3, ChunkFacts
  <2>. QED
    BY <1>7, <2>4 DEF Compress, worldVars, scanVars, queueVars
<1>8. CASE Announce
  BY <1>8 DEF Announce, worldVars, scanVars, queueVars
<1>9. CASE Push
  <2>1. chunks # <<>> /\ chunks' = Tail(chunks) /\ accepted' = Append(accepted, Head(chunks))
    BY <1>9 DEF Push, Announced, Queue!Accept
  <2>2. chunks' \in Seq(Chunks) /\ accepted' \in Seq(Chunks)
    BY <2>1
  <2>. QED
    BY <1>9, <2>2 DEF Push, worldVars, scanVars
<1>10. CASE FileDone
  BY <1>10 DEF FileDone, worldVars, scanVars, fileVars, queueVars
<1>11. CASE Proceed
  <2>1. phase' \in {"closing", "next", "sleeping", "scanning"}
        /\ (phase' = "sleeping" => phase = "next")
    BY <1>11 DEF Proceed, Obey, NextPhase
  <2>2. updated' \in Seq(Paths) /\ (phase = "next" => updated' = <<>>)
    BY <1>11, CurrentFacts DEF Proceed
  <2>3. listed' \subseteq Paths
    BY <1>11 DEF Proceed, There
  <2>. QED
    BY <1>11, <2>1, <2>2, <2>3 DEF Proceed, worldVars, queueVars
<1>12. CASE CloseQueue
  BY <1>12 DEF CloseQueue, worldVars, scanVars, fileVars, Queue!Close
<1>13. CASE SenderStopped \/ ChannelsStopped
  BY <1>13 DEF SenderStopped, ChannelsStopped, worldVars, scanVars, fileVars, queueVars
<1>14. CASE Signal \/ Pop \/ MeterStops \/ UNCHANGED pipelineVars
  BY <1>2, <1>14 DEF Signal, Pop, MeterStops, pipelineVars, worldVars, scanVars, fileVars, queueVars,
                     Queue!Deliver
<1>. QED
  BY <1>1, <1>3, <1>4, <1>5, <1>6, <1>7, <1>8, <1>9, <1>10, <1>11, <1>12, <1>13, <1>14
     DEF PipelineNext, MainStep

\* Versions are numbers, and only grow.
LEMMA VersionsGrow ==
  ASSUME PipelineInv, [PipelineNext]_pipelineVars
  PROVE  /\ Versions \subseteq Nat
         /\ \A p \in Paths : /\ file[p].version \in Nat /\ file'[p].version \in Nat
                             /\ known[p] \in Nat /\ file[p].version <= file'[p].version
<1>1. Versions \subseteq Nat
  BY PipelineAssumption DEF Versions
<1>2. \A p \in Paths : /\ file[p].version \in Versions /\ file'[p].version \in Versions
                       /\ known[p] \in {0} \cup Versions
  BY TypedNext DEF PipelineInv, PipelineTyped
<1>3. \A p \in Paths : /\ file[p].version \in Nat /\ file'[p].version \in Nat
                       /\ known[p] \in Nat
  <2>1. \A v \in {0} \cup Versions : v \in Nat
    BY <1>1
  <2>. QED
    BY <1>2, <2>1
<1>4. ASSUME NEW p \in Paths, NEW q \in Paths, Edit(q) PROVE file[p].version <= file'[p].version
  <2>1. /\ file \in [Paths -> [version : Versions, there : BOOLEAN]]
        /\ \/ file' = [file EXCEPT ![q] = [version |-> @.version + 1, there |-> TRUE]]
           \/ file' = [file EXCEPT ![q].there = FALSE]
    BY <1>4 DEF Edit, PipelineInv, PipelineTyped
  <2>2. file'[p].version = file[p].version \/ file'[p].version = file[p].version + 1
    <3>1. CASE p = q
      BY <2>1, <3>1
    <3>2. CASE p # q
      BY <2>1, <3>2
    <3>. QED
      BY <3>1, <3>2
  <2>3. file[p].version \in Nat
    BY <1>3
  <2>. QED
    BY <2>2, <2>3
<1>5. (\E q \in Paths : Edit(q)) \/ UNCHANGED file
  BY DEF PipelineNext, MainStep, pipelineVars, worldVars, Signal, Pop, MeterStops, ScanEntry,
         ScanEnds, Open, CannotRead, Compress, Announce, Push, FileDone, Proceed, CloseQueue,
         SenderStopped, ChannelsStopped
<1>6. ASSUME NEW p \in Paths PROVE file[p].version <= file'[p].version
  <2>1. CASE UNCHANGED file
    <3>1. file[p].version \in Nat
      BY <1>3
    <3>. QED
      BY <2>1, <3>1
  <2>. QED
    BY <1>4, <1>5, <2>1
<1>. QED
  BY <1>1, <1>3, <1>6

\* Where the queue and the chunks in hand stay, what there is of uploads stays.
LEMMA CutStays ==
  ASSUME PipelineInv, [PipelineNext]_pipelineVars, UNCHANGED <<accepted, chunks>>,
         phase \in QueueingPhases <=> phase' \in QueueingPhases,
         phase \in QueueingPhases => UNCHANGED <<updated, known>>
  PROVE  Cut'
<1>1. PICK m \in 0..Len(accepted) :
        /\ WholeTo(m)
        /\ phase \in QueueingPhases => Queueing(m)
        /\ phase \notin QueueingPhases => m = Len(accepted) /\ chunks = <<>>
  BY DEF PipelineInv, Cut
<1>2. WholeTo(m)'
  BY <1>1 DEF WholeTo
<1>3. phase \in QueueingPhases => Queueing(m)'
  <2>. SUFFICES ASSUME phase \in QueueingPhases PROVE Queueing(m)'
    OBVIOUS
  <2>1. PICK content \in Content : InHand(m, Current, content) /\ SinceKnown(Current, content)
    BY <1>1 DEF Queueing
  <2>2. Current \in Paths /\ Current' = Current
    BY CurrentFacts DEF PipelineInv, PipelineTyped, BusyPhases, QueueingPhases, Current
  <2>3. content[1] \in Nat /\ content[2] \in Nat
    BY VersionsGrow DEF Content
  <2>4. SinceKnown(Current, content)'
    BY <2>1, <2>2, <2>3, VersionsGrow DEF SinceKnown
  <2>5. InHand(m, Current, content)'
    BY <2>1, <2>2 DEF InHand
  <2>. QED
    BY <2>4, <2>5 DEF Queueing
<1>. QED
  BY <1>1, <1>2, <1>3 DEF Cut

\* The chunks of a file come into hand.
LEMMA CutCompress ==
  ASSUME PipelineInv, [PipelineNext]_pipelineVars, Compress
  PROVE  Cut'
<1>1. /\ phase = "reading" /\ phase' = "announcing"
      /\ UNCHANGED <<file, known, updated, accepted>>
  BY DEF Compress, worldVars, scanVars, queueVars
<1>2. PICK rest \in {half} \cup {file[p].version : p \in There \cap {Current}} :
        chunks' = Chunker(Current, <<half, rest>>)
  BY DEF Compress
<1>3. /\ Current \in Paths /\ Current' = Current /\ half \in Versions
      /\ known[Current] <= half /\ half <= file[Current].version
  BY <1>1, CurrentFacts DEF PipelineInv, PipelineTyped, BusyPhases, Followed, Current
<1>4. /\ rest \in Versions /\ <<half, rest>> \in Content
      /\ half <= rest /\ rest <= file[Current].version
  BY <1>2, <1>3, VersionsGrow DEF Content, There, PipelineInv, PipelineTyped
<1>5. PICK content \in Content : content = <<half, rest>>
  BY <1>4
<1>6. PICK n \in Nat : n = Len(accepted) /\ Len(accepted') = n
  BY <1>1 DEF PipelineInv, PipelineTyped
<1>7. /\ chunks' = Chunker(Current, content) /\ Len(chunks') = ChunksOf(content)
      /\ ChunksOf(content) \in Nat
  BY <1>2, <1>3, <1>5, ChunkFacts, SizeFacts
<1>8. WholeTo(n)
  BY <1>1, <1>6 DEF PipelineInv, Cut, QueueingPhases
<1>9. WholeTo(n)'
  BY <1>1, <1>8 DEF WholeTo
<1>10. known[Current] <= content[1] /\ content[1] <= content[2] /\ content[2] <= file[Current].version
  BY <1>3, <1>4, <1>5
<1>11. InHand(n, Current, content)'
  <2>1. Len(accepted') - n = 0 /\ \A k \in Nat : 0 + k = k
    BY <1>6
  <2>2. \A k \in 1..Len(chunks') : chunks'[k] = Chunker(Current, content)[k]
    BY <1>7
  <2>. QED
    BY <1>3, <1>6, <1>7, <2>1, <2>2 DEF InHand
<1>12. SinceKnown(Current, content)'
  BY <1>1, <1>3, <1>10 DEF SinceKnown
<1>13. n \in 0..Len(accepted')
  BY <1>6
<1>. QED
  BY <1>1, <1>9, <1>11, <1>12, <1>13 DEF Cut, Queueing, QueueingPhases

\* One chunk more is queued.
LEMMA CutPush ==
  ASSUME PipelineInv, [PipelineNext]_pipelineVars, Push
  PROVE  Cut'
<1>1. PICK n \in Nat : n = Len(accepted)
  BY DEF PipelineInv, PipelineTyped
<1>2. /\ phase = "pushing" /\ phase' = "announcing" /\ UNCHANGED <<file, known, updated>>
      /\ chunks # <<>> /\ chunks' = Tail(chunks) /\ accepted' = Append(accepted, Head(chunks))
  BY DEF Push, worldVars, scanVars, Queue!Accept, PipelineInv, Announced
<1>3. Current' = Current
  BY <1>2 DEF Current
<1>4. PICK m \in 0..n : WholeTo(m) /\ Queueing(m)
  BY <1>1, <1>2 DEF PipelineInv, Cut, QueueingPhases
<1>5. PICK content \in Content : InHand(m, Current, content) /\ SinceKnown(Current, content)
  BY <1>4 DEF Queueing
<1>6. /\ accepted \in Seq(Chunks) /\ chunks \in Seq(Chunks) /\ n \in Nat /\ m \in Nat /\ m <= n
      /\ Len(chunks) \in Nat \ {0} /\ ChunksOf(content) \in Nat
  BY <1>2, <1>4, SizeFacts DEF PipelineInv, PipelineTyped
<1>7. /\ Len(accepted') = n + 1 /\ accepted'[n + 1] = chunks[1]
      /\ \A i \in 1..n : accepted'[i] = accepted[i]
      /\ Len(chunks') = Len(chunks) - 1
      /\ \A k \in 1..Len(chunks') : chunks'[k] = chunks[k + 1]
  BY <1>1, <1>2, <1>6
<1>8. /\ n - m <= ChunksOf(content)
      /\ \A k \in 1..(n - m) : accepted[m + k] = Chunker(Current, content)[k]
      /\ Len(chunks) = ChunksOf(content) - (n - m)
      /\ \A k \in 1..Len(chunks) : chunks[k] = Chunker(Current, content)[n - m + k]
  BY <1>1, <1>5 DEF InHand
<1>9. WholeTo(m)'
  <2>. SUFFICES ASSUME NEW i \in 1..m
       PROVE  LET c == accepted'[i]
                  base == i - c.index IN
              /\ base >= 1 /\ base + c.total - 1 <= m
              /\ \A k \in 1..c.total : accepted'[base + k - 1] = Chunker(c.path, c.sha)[k]
    BY DEF WholeTo
  <2>. DEFINE c == accepted[i]
              base == i - c.index
  <2>1. accepted'[i] = c /\ c \in Chunks
    BY <1>1, <1>6, <1>7
  <2>2. /\ base >= 1 /\ base + c.total - 1 <= m
        /\ \A k \in 1..c.total : accepted[base + k - 1] = Chunker(c.path, c.sha)[k]
    BY <1>4 DEF WholeTo
  <2>3. c.index \in Nat /\ c.total \in Nat /\ base \in Int
    <3>1. c.index \in Nat /\ c.total = ChunksOf(c.sha) /\ c.sha \in Content
      BY <2>1, ChunkIs
    <3>. QED
      BY <1>6, <3>1, SizeFacts, SMTT(20)
  <2>4. ASSUME NEW k \in 1..c.total PROVE accepted'[base + k - 1] = accepted[base + k - 1]
    <3>1. base + k - 1 \in 1..n
      <4>. HIDE DEF base, c
      <4>. QED
        BY <1>6, <2>2, <2>3
    <3>. QED
      BY <1>7, <3>1
  <2>. QED
    BY <2>1, <2>2, <2>4
<1>10. InHand(m, Current, content)'
  <2>1. n + 1 - m <= ChunksOf(content) /\ Len(chunks') = ChunksOf(content) - (n + 1 - m)
    BY <1>6, <1>7, <1>8
  <2>2. ASSUME NEW k \in 1..(n + 1 - m) PROVE accepted'[m + k] = Chunker(Current, content)[k]
    <3>1. CASE k = n + 1 - m
      <4>1. m + k = n + 1 /\ 1 \in 1..Len(chunks) /\ n - m + 1 = k
        BY <1>6, <3>1
      <4>. QED
        BY <1>7, <1>8, <4>1
    <3>2. CASE k # n + 1 - m
      <4>1. k \in 1..(n - m) /\ m + k \in 1..n
        BY <1>6, <3>2
      <4>. QED
        BY <1>7, <1>8, <4>1
    <3>. QED
      BY <3>1, <3>2
  <2>3. ASSUME NEW k \in 1..Len(chunks') PROVE chunks'[k] = Chunker(Current, content)[n + 1 - m + k]
    <3>1. k + 1 \in 1..Len(chunks) /\ n - m + (k + 1) = n + 1 - m + k
      BY <1>6, <1>7
    <3>. QED
      BY <1>7, <1>8, <3>1
  <2>. QED
    BY <1>3, <1>7, <2>1, <2>2, <2>3 DEF InHand
<1>11. SinceKnown(Current, content)'
  BY <1>2, <1>3, <1>5 DEF SinceKnown
<1>12. m \in 0..Len(accepted')
  BY <1>6, <1>7
<1>. QED
  BY <1>2, <1>9, <1>10, <1>11, <1>12 DEF Cut, Queueing, QueueingPhases

\* The last chunk of a file has been queued: one whole upload more.
LEMMA CutDone ==
  ASSUME PipelineInv, FileDone
  PROVE  /\ Cut'
         /\ Len(accepted) >= 1 /\ accepted[Len(accepted)].path = Current
         /\ SinceKnown(Current, accepted[Len(accepted)].sha)
<1>. DEFINE n == Len(accepted)
<1>1. /\ phase = "announcing" /\ phase' = "processed" /\ chunks = <<>>
      /\ UNCHANGED <<file, known, updated, chunks, accepted>>
  BY DEF FileDone, worldVars, scanVars, fileVars, queueVars
<1>2. PICK m \in 0..n : WholeTo(m) /\ Queueing(m)
  BY <1>1 DEF PipelineInv, Cut, QueueingPhases
<1>3. PICK content \in Content : InHand(m, Current, content) /\ SinceKnown(Current, content)
  BY <1>2 DEF Queueing
<1>4. accepted \in Seq(Chunks) /\ n \in Nat /\ m \in Nat /\ Current \in Paths
  BY <1>1, CurrentFacts DEF PipelineInv, PipelineTyped, BusyPhases
<1>. DEFINE T == ChunksOf(content)
            p == Current
<1>5. T \in Nat \ {0}
  BY SizeFacts
<1>6. n = m + T /\ \A k \in 1..T : accepted[m + k] = Chunker(p, content)[k]
  BY <1>1, <1>3, <1>4, <1>5 DEF InHand
<1>. HIDE DEF n, T, p
<1>7. ASSUME NEW k \in 1..T
      PROVE  LET c == accepted[m + k] IN
             c.path = p /\ c.sha = content /\ c.index = k - 1 /\ c.total = T
  <2>1. accepted[m + k] = Chunker(p, content)[k]
    BY <1>6
  <2>2. p \in Paths
    BY <1>4 DEF p
  <2>. QED
    BY <2>1, <2>2, ChunkFacts DEF T
<1>8. WholeTo(n)
  <2>. SUFFICES ASSUME NEW i \in 1..n
       PROVE  LET c == accepted[i]
                  base == i - c.index IN
              /\ base >= 1 /\ base + c.total - 1 <= n
              /\ \A k \in 1..c.total : accepted[base + k - 1] = Chunker(c.path, c.sha)[k]
    BY DEF WholeTo
  <2>1. CASE i \in 1..m
    <3>1. /\ i - accepted[i].index >= 1 /\ i - accepted[i].index + accepted[i].total - 1 <= m
          /\ \A k \in 1..accepted[i].total : accepted[i - accepted[i].index + k - 1]
                = Chunker(accepted[i].path, accepted[i].sha)[k]
      BY <1>2, <2>1 DEF WholeTo
    <3>2. accepted[i].index \in Nat /\ accepted[i].total \in Nat
      <4>1. accepted[i] \in Chunks
        BY <1>4 DEF n
      <4>. QED
        BY <4>1, ChunkIs, SizeFacts
    <3>3. m <= n /\ m \in Int /\ n \in Int
      BY <1>4, <1>5, <1>6
    <3>4. i - accepted[i].index + accepted[i].total - 1 <= n
      BY <2>1, <3>1, <3>2, <3>3
    <3>. QED
      BY <3>1, <3>4
  <2>2. CASE i \notin 1..m
    <3>. DEFINE j == i - m
    <3>1. j \in 1..T /\ m + j = i
      BY <1>4, <1>5, <1>6, <2>2
    <3>. HIDE DEF j
    <3>2. /\ accepted[i].path = p /\ accepted[i].sha = content
          /\ accepted[i].index = j - 1 /\ accepted[i].total = T
      BY <1>7, <3>1
    <3>3. i - accepted[i].index = m + 1
      BY <1>4, <3>1, <3>2
    <3>4. \A k \in 1..T : m + 1 + k - 1 = m + k
      BY <1>4
    <3>. QED
      BY <1>4, <1>5, <1>6, <3>2, <3>3, <3>4
  <2>. QED
    BY <2>1, <2>2
<1>9. Cut'
  <2>1. WholeTo(n)'
    BY <1>1, <1>8 DEF WholeTo, n
  <2>. QED
    BY <1>1, <1>4, <2>1 DEF Cut, QueueingPhases, n
<1>10. n >= 1 /\ accepted[n].path = p /\ accepted[n].sha = content
  <2>1. T \in 1..T
    BY <1>5
  <2>. QED
    BY <1>4, <1>5, <1>6, <1>7, <2>1
<1>. QED
  BY <1>3, <1>9, <1>10 DEF n, p

LEMMA CutNext ==
  ASSUME PipelineInv, [PipelineNext]_pipelineVars
  PROVE  Cut'
<1>1. CASE Compress \/ Push \/ FileDone
  BY <1>1, CutCompress, CutPush, CutDone
<1>2. CASE \/ \E p \in Paths : Edit(p) \/ ScanEntry(p)
           \/ Signal \/ Pop \/ MeterStops \/ ScanEnds \/ Open \/ Announce \/ CloseQueue
           \/ SenderStopped \/ ChannelsStopped \/ UNCHANGED pipelineVars
  <2>1. /\ UNCHANGED <<accepted, chunks>>
        /\ phase \in QueueingPhases <=> phase' \in QueueingPhases
        /\ phase \in QueueingPhases => UNCHANGED <<updated, known>>
    BY <1>2 DEF Edit, ScanEntry, Signal, Pop, MeterStops, ScanEnds, Open, Announce, CloseQueue,
         SenderStopped, ChannelsStopped, pipelineVars, worldVars, scanVars, fileVars, queueVars,
         QueueingPhases, Queue!Deliver, Queue!Close
  <2>. QED
    BY <2>1, CutStays
<1>3. CASE CannotRead \/ Proceed
  <2>1. /\ UNCHANGED <<accepted, chunks>>
        /\ phase \notin QueueingPhases /\ phase' \notin QueueingPhases
    BY <1>3 DEF CannotRead, Proceed, Obey, NextPhase, queueVars, QueueingPhases
  <2>. QED
    BY <2>1, CutStays
<1>. QED
  BY <1>1, <1>2, <1>3 DEF PipelineNext, MainStep

\* An edit, or a scan of other files, does not disturb what is known to be queued.
LEMMA CaughtStays ==
  ASSUME PipelineInv, [PipelineNext]_pipelineVars, NEW p \in Paths, Caught(p),
         UNCHANGED accepted, known'[p] = known[p], p \in unread => p \in unread'
  PROVE  Caught(p)'
<1>1. CASE LastSince(p)
  <2>1. PICK i \in 1..Len(accepted) :
          /\ accepted[i].path = p /\ SinceKnown(p, accepted[i].sha)
          /\ \A j \in 1..Len(accepted) : j > i => accepted[j].path # p
    BY <1>1 DEF LastSince
  <2>2. accepted[i].sha \in Content
    <3>1. accepted[i] \in Chunks
      BY DEF PipelineInv, PipelineTyped
    <3>. QED
      BY <3>1, ChunkIs
  <2>3. accepted[i].sha[1] \in Nat /\ accepted[i].sha[2] \in Nat
    BY <2>2, VersionsGrow DEF Content
  <2>4. SinceKnown(p, accepted[i].sha)'
    BY <2>1, <2>3, VersionsGrow DEF SinceKnown
  <2>. QED
    BY <2>1, <2>4 DEF LastSince, Caught
<1>. QED
  BY <1>1 DEF Caught

\* A step that neither scans, nor reads, nor queues, nor ends a file.
LEMMA FollowedStays ==
  ASSUME PipelineInv, [PipelineNext]_pipelineVars,
         UNCHANGED <<accepted, known, updated, half, unread>>,
         phase' \in {"processed", "reading"} => phase' = phase
  PROVE  Followed'
<1>1. \A p \in Paths : known'[p] <= file'[p].version
  BY VersionsGrow DEF PipelineInv, Followed
<1>2. \A p \in Paths : Caught(p) => Caught(p)'
  BY CaughtStays
<1>3. \A p \in Paths : ~Waits(p)' => Caught(p)'
  BY <1>2 DEF PipelineInv, Followed, Waits
<1>4. phase' \in BusyPhases /\ phase' = phase => Current \in Paths /\ Current' = Current
  BY CurrentFacts DEF PipelineInv, PipelineTyped, Current
<1>5. phase' = "processed" => Caught(Current)'
  BY <1>2, <1>4 DEF PipelineInv, Followed, BusyPhases
<1>6. phase' = "reading" =>
        half' \in Versions /\ known'[Current'] <= half' /\ half' <= file'[Current'].version
  BY <1>4, VersionsGrow DEF PipelineInv, Followed, BusyPhases
<1>. QED
  BY <1>1, <1>3, <1>5, <1>6 DEF Followed

LEMMA FollowedNext ==
  ASSUME PipelineInv, [PipelineNext]_pipelineVars
  PROVE  Followed'
<1>1. Versions \subseteq Nat /\ \A p \in Paths : known[p] <= file[p].version
  BY VersionsGrow DEF PipelineInv, Followed
<1>2. CASE \/ \E p \in Paths : Edit(p)
           \/ Signal \/ Pop \/ MeterStops \/ ScanEnds \/ Announce \/ CloseQueue
           \/ SenderStopped \/ ChannelsStopped \/ UNCHANGED pipelineVars
  <2>1. /\ UNCHANGED <<accepted, known, updated, half, unread>>
        /\ phase' \in {"processed", "reading"} => phase' = phase
    BY <1>2 DEF Edit, Signal, Pop, MeterStops, ScanEnds, Announce, CloseQueue,
         SenderStopped, ChannelsStopped, pipelineVars, worldVars, scanVars, fileVars, queueVars,
         Queue!Deliver, Queue!Close
  <2>. QED
    BY <2>1, FollowedStays
<1>3. ASSUME NEW p \in Paths, ScanEntry(p) PROVE Followed'
  <2>1. /\ phase = "scanning" /\ phase' = "scanning" /\ UNCHANGED <<file, accepted, unread>>
    BY <1>3 DEF ScanEntry, worldVars, fileVars, queueVars
  <2>2. CASE UNCHANGED <<known, updated>>
    BY <1>3, <2>1, <2>2, FollowedStays DEF ScanEntry, fileVars
  <2>3. CASE known' = [known EXCEPT ![p] = file[p].version] /\ updated' = Append(updated, p)
    <3>1. /\ known'[p] = file[p].version /\ \A q \in Paths : q # p => known'[q] = known[q]
      BY <2>3 DEF PipelineInv, PipelineTyped
    <3>2. \A q \in Paths : known'[q] <= file'[q].version
      <4>1. file[p].version \in Nat
        BY VersionsGrow
      <4>. QED
        BY <1>1, <2>1, <3>1, <4>1
    <3>3. Waits(p)' /\ \A q \in Paths : Waits(q) => Waits(q)'
      <4>1. /\ updated \in Seq(Paths) /\ Len(updated') = Len(updated) + 1
            /\ updated'[Len(updated) + 1] = p /\ Len(updated) \in Nat
            /\ \A k \in 1..Len(updated) : updated'[k] = updated[k]
        BY <2>3 DEF PipelineInv, PipelineTyped
      <4>2. Len(updated) + 1 \in 1..Len(updated') /\ 1..Len(updated) \subseteq 1..Len(updated')
        BY <4>1
      <4>. QED
        BY <4>1, <4>2 DEF Waits
    <3>4. \A q \in Paths : q # p /\ Caught(q) => Caught(q)'
      BY <2>1, <3>1, CaughtStays
    <3>5. ASSUME NEW q \in Paths, ~Waits(q)' PROVE Caught(q)'
      <4>1. q # p
        BY <3>3, <3>5 DEF Waits
      <4>2. ~Waits(q)
        BY <3>3, <3>5 
      <4>. QED
        BY <3>4, <4>1, <4>2 DEF PipelineInv, Followed
    <3>. QED
      BY <2>1, <3>2, <3>5 DEF Followed
  <2>. QED
    BY <1>3, <2>2, <2>3 DEF ScanEntry
<1>4. CASE Open
  <2>1. /\ updated # <<>> /\ phase' = "reading" /\ half' = file[Current].version
        /\ UNCHANGED <<file, known, updated, accepted, unread>>
    BY <1>4 DEF Open, worldVars, scanVars, queueVars
  <2>2. Current \in Paths /\ Current' = Current
    BY <2>1, CurrentFacts DEF PipelineInv, Current
  <2>3. \A p \in Paths : ~Waits(p)' => Caught(p)'
    BY <2>1, CaughtStays DEF PipelineInv, Followed, Waits
  <2>4. file[Current].version \in Versions /\ file[Current].version \in Nat
    BY <2>2, VersionsGrow DEF PipelineInv, PipelineTyped
  <2>. QED
    BY <1>1, <2>1, <2>2, <2>3, <2>4 DEF Followed
<1>5. CASE CannotRead
  <2>1. /\ updated # <<>> /\ phase' = "processed" /\ unread' = unread \cup {Current}
        /\ UNCHANGED <<file, known, updated, accepted>>
    BY <1>5 DEF CannotRead, worldVars, scanVars, queueVars, PipelineInv, PipelineTyped, BusyPhases
  <2>2. Current \in Paths /\ Current' = Current
    BY <2>1, CurrentFacts DEF PipelineInv, Current
  <2>3. \A p \in Paths : ~Waits(p)' => Caught(p)'
    BY <2>1, CaughtStays DEF PipelineInv, Followed, Waits
  <2>4. Caught(Current)'
    BY <2>1, <2>2 DEF Caught
  <2>. QED
    BY <1>1, <2>1, <2>2, <2>3, <2>4 DEF Followed
<1>6. CASE Compress
  <2>1. /\ updated # <<>> /\ phase' = "announcing" /\ unread' = unread \ {Current}
        /\ UNCHANGED <<file, known, updated, accepted>>
    BY <1>6 DEF Compress, worldVars, scanVars, queueVars, PipelineInv, PipelineTyped, BusyPhases
  <2>2. Waits(Current)
    BY <2>1, CurrentFacts DEF PipelineInv
  <2>3. ASSUME NEW p \in Paths, ~Waits(p)' PROVE Caught(p)'
    <3>1. ~Waits(p)
      BY <2>1, <2>3 DEF Waits
    <3>2. p # Current
      BY <2>2, <3>1
    <3>. QED
      BY <2>1, <3>1, <3>2, CaughtStays DEF PipelineInv, Followed
  <2>. QED
    BY <1>1, <2>1, <2>3 DEF Followed
<1>7. CASE Push
  <2>1. /\ updated # <<>> /\ phase' = "announcing" /\ chunks # <<>>
        /\ accepted' = Append(accepted, Head(chunks))
        /\ UNCHANGED <<file, known, updated, unread>>
    BY <1>7 DEF Push, worldVars, scanVars, Queue!Accept, PipelineInv, PipelineTyped, BusyPhases,
                Announced
  <2>2. Waits(Current) /\ Current \in Paths
    BY <2>1, CurrentFacts DEF PipelineInv
  <2>3. Head(chunks).path = Current
    <3>1. PICK m \in 0..Len(accepted), content \in Content : InHand(m, Current, content)
      BY <1>7 DEF Push, PipelineInv, Cut, Queueing, QueueingPhases
    <3>2. /\ Len(chunks) \in Nat \ {0} /\ Head(chunks) = chunks[1]
          /\ Len(accepted) \in Nat /\ ChunksOf(content) \in Nat
      BY <2>1, SizeFacts DEF PipelineInv, PipelineTyped
    <3>3. /\ chunks[1] = Chunker(Current, content)[Len(accepted) - m + 1]
          /\ Len(accepted) - m + 1 \in 1..ChunksOf(content)
      BY <3>1, <3>2 DEF InHand
    <3>. QED
      BY <2>2, <3>2, <3>3, ChunkFacts
  <2>4. ASSUME NEW p \in Paths, ~Waits(p)' PROVE Caught(p)'
    <3>1. ~Waits(p)
      BY <2>1, <2>4 DEF Waits
    <3>2. p # Current /\ Caught(p)
      BY <2>2, <3>1 DEF PipelineInv, Followed
    <3>3. CASE LastSince(p)
      <4>1. PICK i \in 1..Len(accepted) :
              /\ accepted[i].path = p /\ SinceKnown(p, accepted[i].sha)
              /\ \A j \in 1..Len(accepted) : j > i => accepted[j].path # p
        BY <3>3 DEF LastSince
      <4>2. /\ Len(accepted) \in Nat /\ Len(accepted') = Len(accepted) + 1
            /\ accepted'[Len(accepted) + 1].path # p
            /\ \A k \in 1..Len(accepted) : accepted'[k] = accepted[k]
        <5>1. accepted \in Seq(Chunks) /\ chunks \in Seq(Chunks)
          BY DEF PipelineInv, PipelineTyped
        <5>2. /\ Len(accepted) \in Nat /\ Len(accepted') = Len(accepted) + 1
              /\ accepted'[Len(accepted) + 1] = Head(chunks)
              /\ \A k \in 1..Len(accepted) : accepted'[k] = accepted[k]
          BY <2>1, <5>1
        <5>. QED
          BY <2>3, <3>2, <5>2
      <4>3. /\ i \in 1..Len(accepted') /\ accepted'[i] = accepted[i]
            /\ \A j \in 1..Len(accepted') : j > i => accepted'[j].path # p
        BY <4>1, <4>2
      <4>4. SinceKnown(p, accepted[i].sha)'
        BY <2>1, <4>1, <4>3 DEF SinceKnown
      <4>. QED
        BY <4>1, <4>3, <4>4 DEF LastSince, Caught, SinceKnown
    <3>. QED
      BY <2>1, <3>2, <3>3 DEF Caught
  <2>. QED
    BY <1>1, <2>1, <2>4 DEF Followed
<1>8. CASE FileDone
  <2>1. /\ updated # <<>> /\ phase' = "processed"
        /\ UNCHANGED <<file, known, updated, accepted, unread>>
    BY <1>8 DEF FileDone, worldVars, scanVars, fileVars, queueVars, PipelineInv, PipelineTyped,
                BusyPhases
  <2>2. Current \in Paths /\ Current' = Current
    BY <2>1, CurrentFacts DEF PipelineInv, Current
  <2>3. \A p \in Paths : ~Waits(p)' => Caught(p)'
    BY <2>1, CaughtStays DEF PipelineInv, Followed, Waits
  <2>4. Caught(Current)
    <3>1. /\ Len(accepted) >= 1 /\ accepted[Len(accepted)].path = Current
          /\ SinceKnown(Current, accepted[Len(accepted)].sha)
      BY <1>8, CutDone
    <3>2. Len(accepted) \in Nat
      BY DEF PipelineInv, PipelineTyped
    <3>. QED
      BY <3>1, <3>2 DEF Caught, LastSince
  <2>5. Caught(Current)'
    BY <2>1, <2>2, <2>4, CaughtStays
  <2>. QED
    BY <1>1, <2>1, <2>2, <2>3, <2>5 DEF Followed
<1>9. CASE Proceed
  <2>1. /\ phase' \in {"closing", "next", "sleeping", "scanning"}
        /\ UNCHANGED <<file, known, accepted, unread>>
    BY <1>9 DEF Proceed, Obey, NextPhase, worldVars, queueVars
  <2>2. ASSUME NEW p \in Paths, ~Waits(p)' PROVE Caught(p)
    <3>1. CASE UNCHANGED updated
      BY <2>2, <3>1 DEF Waits, PipelineInv, Followed
    <3>2. CASE phase = "processed" /\ updated' = Tail(updated)
      <4>1. updated # <<>>
        BY <3>2 DEF PipelineInv, PipelineTyped, BusyPhases
      <4>2. Waits(p) => p = Current
        BY <2>2, <3>2, <4>1, CurrentFacts DEF PipelineInv, Waits
      <4>. QED
        BY <3>2, <4>2 DEF PipelineInv, Followed
    <3>. QED
      BY <1>9, <3>1, <3>2 DEF Proceed
  <2>3. \A p \in Paths : ~Waits(p)' => Caught(p)'
    BY <2>1, <2>2, CaughtStays
  <2>. QED
    BY <1>1, <2>1, <2>3 DEF Followed
<1>. QED
  BY <1>2, <1>3, <1>4, <1>5, <1>6, <1>7, <1>8, <1>9 DEF PipelineNext, MainStep

LEMMA AnnouncedNext ==
  ASSUME PipelineInv, [PipelineNext]_pipelineVars
  PROVE  Announced'
<1>. USE DEF PipelineInv, Announced, AnnouncedChunk
<1>1. CASE Announce
  <2>. DEFINE c == Head(chunks)
              new == {PatchMap(c)} \cup ({Meta(c)} \ published)
  <2>1. PICK went \in SUBSET new :
          messages' = messages \cup went /\ lost' = lost \cup (new \ went)
    BY <1>1 DEF Announce, Send
  <2>2. Told' = Told \cup new
    BY <2>1 DEF Told
  <2>3. /\ chunks # <<>> /\ phase' = "pushing" /\ UNCHANGED <<accepted, chunks>>
        /\ published' = published \cup {Meta(c)}
    BY <1>1 DEF Announce, queueVars
  <2>4. published' \subseteq Told' /\ {Meta(c), PatchMap(c)} \subseteq Told'
    BY <2>2, <2>3
  <2>5. AnnouncedChunk(Head(chunks))'
    BY <2>3, <2>4 DEF Meta, PatchMap
  <2>6. \A i \in 1..Len(accepted) : AnnouncedChunk(accepted[i])'
    BY <2>2, <2>3 DEF Meta, PatchMap
  <2>. QED
    BY <2>3, <2>4, <2>5, <2>6
<1>2. CASE Push
  <2>1. /\ chunks # <<>> /\ phase' = "announcing" /\ UNCHANGED <<published, Told>>
        /\ accepted' = Append(accepted, Head(chunks))
        /\ AnnouncedChunk(Head(chunks))
    BY <1>2 DEF Push, Queue!Accept, channelVars, Told
  <2>2. accepted \in Seq(Chunks) /\ chunks \in Seq(Chunks)
    BY DEF PipelineTyped
  <2>3. /\ Len(accepted) \in Nat /\ Len(accepted') = Len(accepted) + 1
        /\ accepted'[Len(accepted) + 1] = Head(chunks)
        /\ \A k \in 1..Len(accepted) : accepted'[k] = accepted[k]
    BY <2>1, <2>2
  <2>4. ASSUME NEW i \in 1..Len(accepted') PROVE AnnouncedChunk(accepted'[i])
    <3>1. i \in 1..Len(accepted) \/ i = Len(accepted) + 1
      BY <2>3
    <3>. QED
      BY <2>1, <2>3, <3>1
  <2>. QED
    BY <2>1, <2>4 DEF Meta, PatchMap
<1>3. CASE phase' # "pushing" /\ UNCHANGED <<accepted, published, Told>>
  BY <1>3 DEF Meta, PatchMap
<1>4. CASE UNCHANGED <<phase, chunks, accepted, published, Told>>
  BY <1>4 DEF Meta, PatchMap
<1>5. CASE \/ \E p \in Paths : Edit(p) \/ ScanEntry(p)
           \/ Signal \/ Pop \/ MeterStops \/ UNCHANGED pipelineVars
  <2>1. UNCHANGED <<phase, chunks, accepted, published, Told>>
    BY <1>5 DEF Edit, ScanEntry, Signal, Pop, MeterStops, pipelineVars, worldVars, scanVars,
                fileVars, channelVars, queueVars, Queue!Deliver, Told
  <2>. QED
    BY <1>4, <2>1
<1>6. CASE \/ ScanEnds \/ Open \/ CannotRead \/ Compress \/ FileDone \/ Proceed \/ CloseQueue
           \/ SenderStopped \/ ChannelsStopped
  <2>1. CASE Proceed
    BY <1>3, <2>1 DEF Proceed, Obey, NextPhase, queueVars, channelVars, Told
  <2>2. CASE ScanEnds \/ Open \/ CannotRead \/ Compress
    BY <1>3, <2>2 DEF ScanEnds, Open, CannotRead, Compress, fileVars, channelVars, queueVars, Told
  <2>3. CASE FileDone \/ CloseQueue \/ SenderStopped \/ ChannelsStopped
    BY <1>3, <2>3 DEF FileDone, CloseQueue, SenderStopped, ChannelsStopped, fileVars, channelVars,
                      queueVars, Queue!Close, Told
  <2>. QED
    BY <1>6, <2>1, <2>2, <2>3
<1>. QED
  BY <1>1, <1>2, <1>5, <1>6 DEF PipelineNext, MainStep

LEMMA PipelineInvNext == PipelineInv /\ [PipelineNext]_pipelineVars => PipelineInv'
BY TypedNext, CutNext, FollowedNext, AnnouncedNext DEF PipelineInv

\* Between two scans a file that still is what the watcher last saw has been queued with
\* exactly those bytes, last of all, unless reading it failed, for any files and whenever
\* they are edited (DirectoryWatcher::scan, Compressor::operator(), main's loop).
THEOREM KnownUploaded == PipelineSpec => []KnownIsUploaded
<1>1. ASSUME PipelineInv PROVE KnownIsUploaded
  <2>. SUFFICES ASSUME phase = "sleeping", NEW p \in There \ unread, known[p] = file[p].version
       PROVE  LastUploaded(p, <<known[p], known[p]>>)
    BY DEF KnownIsUploaded
  <2>1. Versions \subseteq Nat /\ 0 \notin Versions /\ p \in Paths /\ file[p].version \in Versions
    BY <1>1, PipelineAssumption DEF Versions, There, PipelineInv, PipelineTyped
  <2>2. LastSince(p)
    <3>1. updated = <<>>
      BY <1>1 DEF PipelineInv, PipelineTyped
    <3>2. ~Waits(p) /\ known[p] # 0
      BY <2>1, <3>1 DEF Waits
    <3>. QED
      BY <1>1, <2>1, <3>2 DEF PipelineInv, Followed, Caught
  <2>3. PICK i \in 1..Len(accepted) :
          /\ accepted[i].path = p /\ SinceKnown(p, accepted[i].sha)
          /\ \A j \in 1..Len(accepted) : j > i => accepted[j].path # p
    BY <2>2 DEF LastSince
  <2>4. accepted \in Seq(Chunks) /\ Len(accepted) \in Nat /\ accepted[i] \in Chunks
    BY <1>1 DEF PipelineInv, PipelineTyped
  <2>5. accepted[i].sha = <<known[p], known[p]>>
    <3>. DEFINE content == accepted[i].sha
    <3>1. content \in Content
      BY <2>4, ChunkIs
    <3>2. content = <<content[1], content[2]>> /\ content[1] \in Nat /\ content[2] \in Nat
      <4>1. ASSUME NEW c \in Content
            PROVE  c = <<c[1], c[2]>> /\ c[1] \in Versions /\ c[2] \in Versions
        BY DEF Content
      <4>. HIDE DEF content
      <4>. QED
        BY <2>1, <3>1, <4>1
    <3>3. known[p] <= content[1] /\ content[1] <= content[2] /\ content[2] <= known[p]
      BY <2>3 DEF SinceKnown
    <3>. HIDE DEF content
    <3>4. content[1] = known[p] /\ content[2] = known[p]
      BY <2>1, <3>2, <3>3
    <3>. QED
      BY <3>2, <3>4 DEF content
  <2>. DEFINE mine == {k \in DOMAIN accepted : accepted[k].path = p}
  <2>6. i \in mine /\ \A k \in mine : i >= k
    <3>1. DOMAIN accepted = 1..Len(accepted)
      BY <2>4
    <3>. QED
      BY <2>3, <2>4, <3>1
  <2>7. Max(mine) = i
    <3>1. mine \subseteq Nat
      BY <2>4
    <3>. HIDE DEF mine
    <3>2. Max(mine) \in mine /\ \A k \in mine : Max(mine) >= k
      BY <2>6 DEF Max
    <3>. DEFINE last == Max(mine)
    <3>3. last \in Nat /\ i \in Nat /\ last >= i /\ i >= last
      BY <2>6, <3>1, <3>2
    <3>. HIDE DEF last
    <3>4. last = i
      BY <3>3
    <3>. QED
      BY <3>4 DEF last
  <2>. QED
    BY <2>5, <2>6, <2>7 DEF LastUploaded
<1>. QED
  BY <1>1, PipelineInitInv, PipelineInvNext, PTL DEF PipelineSpec

\* The chunks of one upload, by the place of its first, and the first of them.
UploadAt(base) == {j \in DOMAIN accepted : j - accepted[j].index = base}

IndicesOf(U) == {accepted[j].index : j \in U}

Starts(base, begun, p, content) ==
  \A k \in 1..begun : accepted[base + k - 1] = Chunker(p, content)[k]

\* An upload of which the queue has the chunks from one place to another.
LEMMA UploadFacts ==
  ASSUME NEW p \in Paths, NEW content \in Content, accepted \in Seq(Chunks),
         NEW base \in Nat, base >= 1, NEW begun \in 1..ChunksOf(content),
         base + begun - 1 <= Len(accepted),
         Starts(base, begun, p, content), NEW U, U = UploadAt(base),
         U \subseteq base..(base + begun - 1)
  PROVE  /\ \A j \in U : accepted[j].path = p /\ accepted[j].sha = content
                         /\ accepted[j].total = ChunksOf(content)
         /\ IndicesOf(U) = 0..(Cardinality(U) - 1)
         /\ Cardinality(U) = begun /\ base + begun - 1 \in U
<1>1. ChunksOf(content) \in Nat /\ begun \in Nat /\ begun >= 1
  BY SizeFacts
<1>2. DOMAIN accepted = 1..Len(accepted) /\ Len(accepted) \in Nat
  OBVIOUS
<1>3. ASSUME NEW k \in 1..begun
      PROVE  /\ accepted[base + k - 1].path = p /\ accepted[base + k - 1].sha = content
             /\ accepted[base + k - 1].index = k - 1
             /\ accepted[base + k - 1].total = ChunksOf(content)
  <2>1. k \in 1..ChunksOf(content) /\ accepted[base + k - 1] = Chunker(p, content)[k]
    BY <1>1 DEF Starts
  <2>. QED
    BY <2>1, ChunkFacts
<1>4. ASSUME NEW j \in base..(base + begun - 1)
      PROVE  /\ accepted[j].path = p /\ accepted[j].sha = content /\ accepted[j].index = j - base
             /\ accepted[j].total = ChunksOf(content)
             /\ j \in 1..Len(accepted) /\ j \in Nat
  <2>. DEFINE k == j - base + 1
  <2>1. k \in 1..begun /\ base + k - 1 = j /\ k - 1 = j - base
    BY <1>1
  <2>. HIDE DEF k
  <2>2. j \in 1..Len(accepted) /\ j \in Nat
    BY <1>1, <1>2
  <2>. QED
    BY <1>3, <2>1, <2>2
<1>5. U = base..(base + begun - 1)
  <2>1. ASSUME NEW j \in base..(base + begun - 1) PROVE j \in U
    BY <1>2, <1>4 DEF UploadAt
  <2>. QED
    BY <2>1
<1>6. Cardinality(U) = begun
  <2>1. base \in Int /\ base + begun - 1 \in Int
    BY <1>1
  <2>2. Cardinality(base..(base + begun - 1)) = IF base > base + begun - 1 THEN 0
                                                ELSE (base + begun - 1) - base + 1
    BY <2>1, FS_Interval
  <2>3. ~(base > base + begun - 1) /\ (base + begun - 1) - base + 1 = begun
    BY <1>1
  <2>. QED
    BY <1>5, <2>2, <2>3
<1>7. IndicesOf(U) = 0..(begun - 1)
  <2>1. ASSUME NEW j \in U PROVE accepted[j].index \in 0..(begun - 1)
    <3>1. accepted[j].index = j - base /\ j \in Nat
      BY <1>4, <1>5
    <3>. QED
      BY <1>1, <1>5, <3>1
  <2>2. ASSUME NEW x \in 0..(begun - 1) PROVE \E j \in U : accepted[j].index = x
    <3>1. x + base \in U /\ (x + base) - base = x
      BY <1>1, <1>5
    <3>. QED
      BY <1>4, <1>5, <3>1
  <2>. QED
    BY <2>1, <2>2 DEF IndicesOf
<1>8. base + begun - 1 \in U
  BY <1>1, <1>5
<1>. QED
  BY <1>4, <1>5, <1>6, <1>7, <1>8

LEMMA WholeUploads ==
  ASSUME PipelineInv, NEW i \in DOMAIN accepted
  PROVE  LET c == accepted[i]
             base == i - c.index
             U == UploadAt(base) IN
         /\ \A j \in U : accepted[j].path = c.path /\ accepted[j].sha = c.sha
         /\ IndicesOf(U) = 0..(Cardinality(U) - 1)
         /\ Cardinality(U) # c.total => phase \in QueueingPhases /\ Len(accepted) \in U
         /\ Cardinality(U) = c.total => Starts(base, c.total, c.path, c.sha)
<1>1. /\ accepted \in Seq(Chunks) /\ Len(accepted) \in Nat /\ DOMAIN accepted = 1..Len(accepted)
      /\ \A j \in 1..Len(accepted) : accepted[j] \in Chunks
  BY DEF PipelineInv, PipelineTyped
<1>2. PICK c \in Chunks : c = accepted[i]
  BY <1>1
<1>3. PICK base \in Int : base = i - c.index
  BY <1>1, <1>2, ChunkIs
<1>4. PICK U : U = UploadAt(base)
  OBVIOUS
<1>5. \A j \in U : j \in 1..Len(accepted) /\ j - accepted[j].index = base
  BY <1>1, <1>4 DEF UploadAt
<1>6. i \in 1..Len(accepted) /\ i \in Nat
  BY <1>1
<1>7. /\ c.path \in Paths /\ c.sha \in Content /\ c.index \in Nat
      /\ c.total = ChunksOf(c.sha) /\ c.total \in Nat \ {0}
  BY <1>2, ChunkIs, SizeFacts
<1>8. PICK m \in 0..Len(accepted) :
        /\ WholeTo(m)
        /\ phase \in QueueingPhases => Queueing(m)
        /\ phase \notin QueueingPhases => m = Len(accepted)
  BY DEF PipelineInv, Cut
<1>9. \A j \in 1..m :
        LET b == j - accepted[j].index IN
        /\ b >= 1 /\ b + accepted[j].total - 1 <= m
        /\ \A k \in 1..accepted[j].total :
             accepted[b + k - 1] = Chunker(accepted[j].path, accepted[j].sha)[k]
  BY <1>8 DEF WholeTo
<1>10. ASSUME NEW begun \in 1..ChunksOf(c.sha), base >= 1, base + begun - 1 <= Len(accepted),
             Starts(base, begun, c.path, c.sha), U \subseteq base..(base + begun - 1),
             begun # c.total => phase \in QueueingPhases /\ base + begun - 1 = Len(accepted)
      PROVE  /\ \A j \in U : accepted[j].path = c.path /\ accepted[j].sha = c.sha
             /\ IndicesOf(U) = 0..(Cardinality(U) - 1)
             /\ Cardinality(U) # c.total => phase \in QueueingPhases /\ Len(accepted) \in U
             /\ Cardinality(U) = c.total => Starts(base, c.total, c.path, c.sha)
  <2>1. base \in Nat
    BY <1>10
  <2>2. /\ \A j \in U : accepted[j].path = c.path /\ accepted[j].sha = c.sha
        /\ IndicesOf(U) = 0..(Cardinality(U) - 1)
        /\ Cardinality(U) = begun /\ base + begun - 1 \in U
    <3>1. accepted \in Seq(Chunks) /\ U = UploadAt(base)
      BY <1>1, <1>4
    <3>2. PICK p \in Paths, content \in Content : p = c.path /\ content = c.sha
      BY <1>7
    <3>3. /\ begun \in 1..ChunksOf(content) /\ base >= 1 /\ base + begun - 1 <= Len(accepted)
          /\ Starts(base, begun, p, content) /\ U \subseteq base..(base + begun - 1)
      BY <1>10, <3>2
    <3>4. /\ \A j \in U : accepted[j].path = p /\ accepted[j].sha = content
          /\ IndicesOf(U) = 0..(Cardinality(U) - 1)
          /\ Cardinality(U) = begun /\ base + begun - 1 \in U
      BY <2>1, <3>1, <3>3, UploadFacts
    <3>. QED
      BY <3>2, <3>4
  <2>. QED
    BY <1>10, <2>2
<1>11. CASE i \in 1..m
  <2>1. /\ base >= 1 /\ base + c.total - 1 <= m
        /\ \A k \in 1..c.total : accepted[base + k - 1] = Chunker(c.path, c.sha)[k]
        /\ Starts(base, c.total, c.path, c.sha)
    BY <1>2, <1>3, <1>9, <1>11 DEF Starts
  <2>2. U \subseteq base..(base + c.total - 1)
    <3>. SUFFICES ASSUME NEW j \in U PROVE j \in base..(base + c.total - 1)
      OBVIOUS
    <3>1. j \in 1..Len(accepted) /\ j - accepted[j].index = base
      BY <1>5
    <3>2. /\ accepted[j].index \in Nat /\ accepted[j].index < accepted[j].total
          /\ accepted[j].path \in Paths /\ accepted[j].sha \in Content
          /\ accepted[j].total = ChunksOf(accepted[j].sha) /\ accepted[j].total \in Nat \ {0}
      BY <1>1, <3>1, ChunkIs, SizeFacts
    <3>3. CASE j \in 1..m
      <4>1. /\ accepted[base + 1 - 1] = Chunker(accepted[j].path, accepted[j].sha)[1]
            /\ accepted[base + 1 - 1] = Chunker(c.path, c.sha)[1]
        <5>1. 1 \in 1..accepted[j].total /\ 1 \in 1..c.total
          BY <1>7, <3>2
        <5>. QED
          BY <1>9, <2>1, <3>1, <3>3, <5>1
      <4>2. Chunker(c.path, c.sha)[1].total = c.total
        <5>1. 1 \in 1..ChunksOf(c.sha)
          BY <1>7
        <5>. QED
          BY <1>7, <5>1, ChunkFacts
      <4>3. Chunker(accepted[j].path, accepted[j].sha)[1].total = accepted[j].total
        <5>1. 1 \in 1..ChunksOf(accepted[j].sha)
          BY <3>2
        <5>. QED
          BY <3>2, <5>1, ChunkFacts
      <4>4. accepted[j].total = c.total
        BY <4>1, <4>2, <4>3
      <4>. QED
        BY <1>7, <3>1, <3>2, <4>4
    <3>4. CASE j \notin 1..m
      <4>1. j > m /\ phase \in QueueingPhases
        BY <1>8, <3>1, <3>4
      <4>2. PICK content \in Content : InHand(m, Current, content)
        BY <1>8, <4>1 DEF Queueing
      <4>3. Current \in Paths
        BY <4>1, CurrentFacts DEF PipelineInv, PipelineTyped, BusyPhases, QueueingPhases
      <4>. DEFINE k == j - m
      <4>4. k \in 1..(Len(accepted) - m) /\ m + k = j
        BY <1>1, <3>1, <4>1
      <4>5. accepted[j] = Chunker(Current, content)[k] /\ k \in 1..ChunksOf(content)
        BY <1>1, <4>2, <4>4, SizeFacts DEF InHand
      <4>. HIDE DEF k
      <4>6. accepted[j].index = k - 1
        BY <4>3, <4>5, ChunkFacts
      <4>7. base = m + 1
        BY <1>1, <3>1, <4>4, <4>6
      <4>. QED
        BY <1>7, <2>1, <4>7
    <3>. QED
      BY <3>3, <3>4
  <2>3. c.total \in 1..ChunksOf(c.sha) /\ base + c.total - 1 <= Len(accepted)
    BY <1>1, <1>7, <2>1
  <2>. QED
    BY <1>2, <1>3, <1>4, <1>10, <2>1, <2>2, <2>3
<1>12. CASE i \notin 1..m
  <2>1. i > m /\ i <= Len(accepted) /\ phase \in QueueingPhases
    <3>1. m \in Nat /\ Len(accepted) \in Nat
      BY <1>1
    <3>2. i > m /\ i <= Len(accepted)
      BY <1>6, <1>12, <3>1
    <3>. QED
      BY <1>8, <3>1, <3>2
  <2>2. PICK content \in Content : InHand(m, Current, content)
    BY <1>8, <2>1 DEF Queueing
  <2>3. Current \in Paths
    BY <2>1, CurrentFacts DEF PipelineInv, PipelineTyped, BusyPhases, QueueingPhases
  <2>4. PICK begun \in Nat : begun = Len(accepted) - m
    <3>1. m \in Nat /\ Len(accepted) \in Nat /\ m <= Len(accepted)
      BY <1>1
    <3>2. Len(accepted) - m \in Nat
      BY <3>1
    <3>. QED
      BY <3>2
  <2>5. /\ begun \in 1..ChunksOf(content)
        /\ \A k \in 1..begun : accepted[m + k] = Chunker(Current, content)[k]
    BY <1>1, <2>1, <2>2, <2>4, SizeFacts DEF InHand
  <2>6. ASSUME NEW j \in 1..Len(accepted), j > m
        PROVE  /\ accepted[j].path = Current /\ accepted[j].sha = content
               /\ accepted[j].index = j - m - 1
    <3>. DEFINE k == j - m
    <3>1. k \in 1..begun /\ m + k = j
      BY <1>1, <2>4, <2>6
    <3>. HIDE DEF k
    <3>2. k \in 1..ChunksOf(content)
      BY <2>5, <3>1, SizeFacts
    <3>3. accepted[j] = Chunker(Current, content)[k] /\ k = j - m
      BY <1>1, <2>5, <3>1
    <3>. QED
      BY <2>3, <3>2, <3>3, ChunkFacts
  <2>7. c.path = Current /\ c.sha = content /\ base = m + 1
    BY <1>1, <1>2, <1>3, <2>1, <2>6
  <2>8. Starts(base, begun, c.path, c.sha)
    <3>1. \A k \in 1..begun : base + k - 1 = m + k
      BY <2>7
    <3>. QED
      BY <2>5, <2>7, <3>1 DEF Starts
  <2>9. U \subseteq base..(base + begun - 1)
    <3>. SUFFICES ASSUME NEW j \in U PROVE j \in base..(base + begun - 1)
      OBVIOUS
    <3>1. j \in 1..Len(accepted) /\ j - accepted[j].index = base
      BY <1>5
    <3>2. accepted[j].index \in Nat /\ accepted[j].total \in Nat \ {0}
      BY <1>1, <3>1, ChunkIs, SizeFacts
    <3>3. j >= base
      BY <3>1, <3>2
    <3>. QED
      BY <1>1, <2>4, <2>7, <3>1, <3>3
  <2>10. base >= 1 /\ base + begun - 1 = Len(accepted)
    BY <1>1, <2>4, <2>7
  <2>. QED
    BY <1>2, <1>3, <1>4, <1>10, <2>1, <2>5, <2>7, <2>8, <2>9, <2>10
<1>. QED
  BY <1>1, <1>11, <1>12

\* The queue gets each file's bytes whole and in order, one file after the other, cut at
\* the payload size with nothing lost at a boundary, and no chunk before its file
\* and its place were handed to the system channel, which sent them or lost them, for any
\* sizes, any payload size, any capacity of the queue, any edits, signals and lost messages
\* (Chunker, main's loop over the chunks, notify_file_chunk_enqueued).
THEOREM UploadsWhole == PipelineSpec => []UploadsAreWhole
<1>1. ASSUME PipelineInv PROVE UploadsAreWhole
  <2>. SUFFICES ASSUME NEW i \in DOMAIN accepted
       PROVE  LET U == UploadAt(i - accepted[i].index)
                  c == accepted[i] IN
              /\ \A j \in U : accepted[j].path = c.path /\ accepted[j].sha = c.sha
              /\ IndicesOf(U) = 0..(Cardinality(U) - 1)
              /\ IF Cardinality(U) = c.total
                 THEN UploadSize(i) = CompressedSize(c.sha)
                 ELSE phase \in {"announcing", "pushing"} /\ Len(accepted) \in U
              /\ {Meta(c), PatchMap(c)} \subseteq messages \cup lost
    BY DEF UploadsAreWhole, UploadAt, IndicesOf
  <2>. DEFINE c == accepted[i]
              base == i - c.index
  <2>1. accepted \in Seq(Chunks) /\ i \in 1..Len(accepted) /\ c \in Chunks
    BY <1>1 DEF PipelineInv, PipelineTyped
  <2>2. c.path \in Paths /\ c.sha \in Content /\ c.total = ChunksOf(c.sha) /\ c.total \in Nat
    BY <2>1, ChunkIs, SizeFacts
  <2>3. ASSUME Starts(base, c.total, c.path, c.sha)
        PROVE  UploadSize(i) = CompressedSize(c.sha)
    <3>. DEFINE s == [k \in 1..c.total |-> accepted[base + k - 1].size]
    <3>1. UploadSize(i) = Total(s)
      BY DEF UploadSize
    <3>2. Len(s) = c.total /\ \A k \in 1..c.total : s[k] = Chunker(c.path, c.sha)[k].size
      BY <2>2, <2>3 DEF Starts
    <3>. HIDE DEF s, c, base
    <3>3. Total(s) = CompressedSize(c.sha)
      BY <2>2, <3>2, SizesSum
    <3>. QED
      BY <3>1, <3>3
  <2>4. {Meta(c), PatchMap(c)} \subseteq messages \cup lost
    BY <1>1, <2>1 DEF PipelineInv, Announced, AnnouncedChunk, Told
  <2>. QED
    BY <1>1, <2>3, <2>4, WholeUploads DEF QueueingPhases
<1>. QED
  BY <1>1, PipelineInitInv, PipelineInvNext, PTL DEF PipelineSpec

-----------------------------------------------------------------------------
(***************************************************************************)
(* The types, in a behaviour about the listeners, the client's main loop   *)
(* or the codecs. What the invariants above do not type yet is typed here. *)
(***************************************************************************)

\* There are as many places for data acceptors as the largest target.
LEMMA DataPlaces == IsFiniteSet(DataIds) /\ Cardinality(DataIds) = Most
<1>1. Most \in Nat
  BY MostFacts
<1>. DEFINE N == 0..(Most - 1)
            g == [i \in N |-> Data(i)]
<1>2. IsFiniteSet(N) /\ Cardinality(N) = Most
  <2>1. 0 \in Int /\ Most - 1 \in Int
    BY <1>1
  <2>2. IsFiniteSet(N) /\ Cardinality(N) = IF 0 > Most - 1 THEN 0 ELSE (Most - 1) - 0 + 1
    BY <2>1, FS_Interval
  <2>. QED
    BY <1>1, <2>2
<1>3. DataIds = {Data(i) : i \in N}
  BY DEF DataIds, Most
<1>4. g \in Bijection(N, DataIds)
  <2>1. \A i, j \in N : Data(i) = Data(j) => i = j
    BY DEF Data
  <2>2. \A id \in DataIds : \E i \in N : g[i] = id
    BY <1>3
  <2>3. g \in [N -> DataIds]
    BY <1>3
  <2>4. \A i, j \in N : g[i] = g[j] => i = j
    BY <2>1
  <2>. HIDE DEF g, N
  <2>5. g \in Injection(N, DataIds)
    BY <2>3, <2>4 DEF Injection, IsInjective
  <2>6. g \in Surjection(N, DataIds)
    BY <2>2, <2>3 DEF Surjection
  <2>. QED
    BY <2>5, <2>6 DEF Bijection
<1>. HIDE DEF g, N
<1>. QED
  BY <1>2, <1>4, FS_Bijection DEF ExistsBijection

ListenersTyped == LInv /\ announced \in Nat

LEMMA ListenersTypedInit == ListenersInit => ListenersTyped
BY LInit, ListenersAssumption DEF ListenersInit, ListenersTyped

LEMMA ListenersTypedNext == ListenersTyped /\ [ListenersNext]_listenerVars => ListenersTyped'
<1>. SUFFICES ASSUME ListenersTyped, [ListenersNext]_listenerVars PROVE ListenersTyped'
  OBVIOUS
<1>1. LInv'
  BY LNext DEF ListenersTyped
<1>. SUFFICES announced' \in Nat
  BY <1>1 DEF ListenersTyped
<1>. USE DEF ListenersTyped
<1>2. CASE UNCHANGED announced
  BY <1>2
<1>3. ASSUME NEW id \in Ids, Loops(id) \/ AcceptReturns(id) PROVE UNCHANGED announced
  BY <1>3 DEF Loops, LoopAgain, EnterAccept, AcceptReturns
<1>4. ASSUME NEW t \in Callers, Holding(t) PROVE UNCHANGED announced
  BY <1>4 DEF Holding, Resize, Discard, StartSystem, StopNext, StopJoined
<1>5. ASSUME NEW c \in Controllers, Query(c) \/ Answer(c) \/ Update(c) PROVE UNCHANGED announced
  BY <1>5 DEF Query, Answer, Update
<1>6. ASSUME NEW c \in Controllers, Scale(c) PROVE announced' \in Nat
  BY <1>6, ListenersAssumption DEF Scale
<1>. QED
  BY <1>2, <1>3, <1>4, <1>5, <1>6 DEF ListenersNext, Start, Stop, listenerVars

LEMMA ListenersTypedImplies == ListenersTyped => ListenersTypeOK
<1>. SUFFICES ASSUME ListenersTyped PROVE ListenersTypeOK
  OBVIOUS
<1>1. Typed /\ announced \in Nat /\ Most \in Nat
  BY MostFacts DEF ListenersTyped, LInv
<1>. QED
  BY <1>1, DataPlaces DEF Typed, ListenersTypeOK

PipelineTypes == PipelineInv /\ unread \subseteq Paths

LEMMA PipelineTypesInit == PipelineInit => PipelineTypes
BY PipelineInitInv DEF PipelineInit, PipelineTypes

LEMMA PipelineTypesNext == PipelineTypes /\ [PipelineNext]_pipelineVars => PipelineTypes'
<1>. SUFFICES ASSUME PipelineTypes, [PipelineNext]_pipelineVars PROVE PipelineTypes'
  OBVIOUS
<1>1. PipelineInv'
  BY PipelineInvNext DEF PipelineTypes
<1>. SUFFICES unread' \subseteq Paths
  BY <1>1 DEF PipelineTypes
<1>. USE DEF PipelineTypes
<1>2. CASE CannotRead
  <2>1. updated # <<>>
    BY <1>2 DEF CannotRead, PipelineInv, PipelineTyped, BusyPhases
  <2>2. Current \in Paths
    BY <2>1, CurrentFacts DEF PipelineInv
  <2>. QED
    BY <1>2, <2>2 DEF CannotRead
<1>3. CASE Compress
  BY <1>3 DEF Compress
<1>4. CASE UNCHANGED unread
  BY <1>4
<1>5. ASSUME NEW p \in Paths, Edit(p) \/ ScanEntry(p) PROVE UNCHANGED unread
  BY <1>5 DEF Edit, ScanEntry, fileVars
<1>6. CASE MainStep
  BY <1>2, <1>3, <1>4, <1>5, <1>6
     DEF MainStep, ScanEnds, Open, Announce, Push, FileDone, Proceed, CloseQueue,
         ChannelsStopped, fileVars
<1>. QED
  BY <1>4, <1>5, <1>6 DEF PipelineNext, SenderStopped, Signal, Pop, MeterStops, pipelineVars, fileVars

LEMMA PipelineTypesImply == PipelineTypes => PipelineTypeOK
<1>. SUFFICES ASSUME PipelineTypes PROVE PipelineTypeOK
  OBVIOUS
<1>1. PipelineTyped /\ unread \subseteq Paths
  BY DEF PipelineTypes, PipelineInv
<1>2. chunks \o accepted \in Seq(Chunks)
  BY <1>1 DEF PipelineTyped
<1>3. Range(chunks \o accepted) \subseteq Chunks
  <2>. DEFINE s == chunks \o accepted
  <2>. HIDE DEF s
  <2>1. s \in Seq(Chunks) => Range(s) \subseteq Chunks
    BY DEF Range
  <2>. QED
    BY <1>2, <2>1 DEF s
<1>. QED
  BY <1>1, <1>3 DEF PipelineTyped, PipelineTypeOK

EdgeTyped == ListenersTyped /\ PipelineTypes

LEMMA EdgeTypedNext == EdgeTyped /\ [EdgeNext]_edgeVars => EdgeTyped'
<1>. SUFFICES ASSUME EdgeTyped, [EdgeNext]_edgeVars PROVE EdgeTyped'
  OBVIOUS
<1>1. [ListenersNext]_listenerVars /\ [PipelineNext]_pipelineVars
  BY DEF EdgeNext, edgeVars
<1>. QED
  BY <1>1, ListenersTypedNext, PipelineTypesNext DEF EdgeTyped

\* The variables of the listeners and of the client's main loop keep the types of the
\* code's fields, whichever part a behaviour is about, for any channels, ports, counts,
\* files and versions: no more data acceptors than the largest count asked for, and only
\* chunks in the queue and in hand.
THEOREM EdgeTypes == EdgeSpec => []EdgeTypeOK
<1>1. EdgeInit => EdgeTyped
  BY ListenersTypedInit, PipelineTypesInit DEF EdgeInit, EdgeTyped
<1>2. EdgeTyped => EdgeTypeOK
  BY ListenersTypedImplies, PipelineTypesImply DEF EdgeTyped, EdgeTypeOK
<1>. QED
  BY <1>1, <1>2, EdgeTypedNext, PTL DEF EdgeSpec
=============================================================================
