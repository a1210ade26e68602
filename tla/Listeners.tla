----------------------------- MODULE Listeners -----------------------------
(***************************************************************************)
(* FileRelay server: the ListenerManager, its acceptor threads, and the    *)
(* control connections that rescale it while main starts and stops it.     *)
(* mutex_ is held through starting, closing and joining acceptors; each    *)
(* acceptor started, closed or joined is one step of the holder.           *)
(* A thread blocked in accept is not woken on every platform by closing    *)
(* its acceptor: it returns when the system wakes it or a client connects. *)
(***************************************************************************)
EXTENDS Naturals, Sequences, FiniteSets, FiniteSetsExt

CONSTANTS
  Systems,      \* how many system channels there are (4)
  Control,      \* the index of Channel::Control (2)
  SysBase, DataBase, PortSpace,   \* ports, and what a uint16_t can count
  Foreign,      \* ports another program may hold when we want them
  Initial,      \* initial_data_count
  Counts,       \* bound: the arguments of SCALE_DATA
  Main,         \* the main thread
  Controllers,  \* bound: control connections at one time
  NoThread      \* nobody has the mutex

ASSUME ListenersAssumption ==
  /\ Systems \in Nat /\ Control \in 0..(Systems - 1)
  /\ SysBase \in Nat /\ DataBase \in Nat /\ PortSpace \in Nat \ {0}
  /\ Initial \in Nat /\ Counts \subseteq Nat /\ IsFiniteSet(Counts)
  /\ Main \notin Controllers /\ NoThread \notin Controllers \cup {Main}

VARIABLES
  owner,        \* who holds mutex_
  started,      \* started_
  desired,      \* desired_data_count_
  count,        \* data_acceptors_.size()
  announced,    \* data_listener_count_, what STATUS says
  acceptor,     \* per listener, its AcceptorContext
  loop,         \* per listener, where its accept_loop is
  call          \* per thread, what it is doing: step, the target or the rest of a list

listenerVars == <<owner, started, desired, count, announced, acceptor, loop, call>>

Callers == Controllers \cup {Main}

SystemIds == {<<"system", i>> : i \in 0..(Systems - 1)}
Data(i) == <<"data", i>>
DataIds == {Data(i) : i \in 0..(Max(Counts \cup {Initial}) - 1)}
Ids == SystemIds \cup DataIds

\* static_cast<std::uint16_t>(base + i)
PortOf(id) == ((IF id[1] = "data" THEN DataBase ELSE SysBase) + id[2]) % PortSpace

ListenersInit ==
  /\ owner = NoThread /\ started = FALSE
  /\ desired = Initial /\ announced = Initial /\ count = 0
  /\ acceptor = [id \in Ids |-> "absent"]
  /\ loop = [id \in Ids |-> "none"]
  /\ call = [t \in Callers |-> [step |-> "none", rest |-> <<>>]]

At(t, step) == call[t].step = step

GoTo(t, step, rest) == call' = [call EXCEPT ![t] = [step |-> step, rest |-> rest]]

-----------------------------------------------------------------------------
(* Acceptors *)

\* start_acceptor: a port of ours that still listens, or one another program holds, is
\* refused, and what is left is a context without a thread.
StartAcceptor(id) ==
  LET taken == \E other \in Ids : acceptor[other] = "listening" /\ PortOf(other) = PortOf(id) IN
  \/ /\ ~taken
     /\ acceptor' = [acceptor EXCEPT ![id] = "listening"]
     /\ loop' = [loop EXCEPT ![id] = "check"]
  \/ /\ taken \/ PortOf(id) \in Foreign
     /\ acceptor' = [acceptor EXCEPT ![id] = "refused"]
     /\ UNCHANGED loop

\* Faulty variant: the loop does not look at running.
LoopForEver(id) ==
  /\ loop[id] = "check"
  /\ loop' = [loop EXCEPT ![id] = "enter"]
  /\ UNCHANGED <<owner, started, desired, count, announced, acceptor, call>>

\* The condition of accept_loop; accept on an acceptor that is closed by now fails.
LoopAgain(id) ==
  /\ loop[id] = "check"
  /\ loop' = [loop EXCEPT ![id] = IF acceptor[id] = "listening" THEN "enter" ELSE "none"]
  /\ UNCHANGED <<owner, started, desired, count, announced, acceptor, call>>

EnterAccept(id) ==
  /\ loop[id] = "enter"
  /\ loop' = [loop EXCEPT ![id] = IF acceptor[id] = "listening" THEN "blocked" ELSE "check"]
  /\ UNCHANGED <<owner, started, desired, count, announced, acceptor, call>>

\* A connection, which a detached thread handles, or the system's waking of a thread
\* whose acceptor was closed. Control connections are handled by the controllers.
AcceptReturns(id) ==
  /\ loop[id] = "blocked"
  /\ loop' = [loop EXCEPT ![id] = "check"]
  /\ \/ UNCHANGED call
     \/ /\ id = <<"system", Control>>
        /\ \E c \in Controllers : At(c, "none") /\ GoTo(c, "reading", <<>>)
  /\ UNCHANGED <<owner, started, desired, count, announced, acceptor>>

-----------------------------------------------------------------------------
(* start, stop and update_data_listener_count *)

FromTo(ids, n) == [i \in 1..n |-> <<ids, i - 1>>]

Start ==
  /\ At(Main, "none") /\ owner = NoThread
  /\ owner' = Main /\ started' = TRUE
  /\ GoTo(Main, "starting", FromTo("system", Systems))
  /\ UNCHANGED <<desired, count, announced, acceptor, loop>>

StartSystem ==
  /\ At(Main, "starting")
  /\ IF call[Main].rest = <<>>
     THEN GoTo(Main, "resizing", <<desired>>) /\ UNCHANGED <<acceptor, loop>>
     ELSE StartAcceptor(Head(call[Main].rest)) /\ GoTo(Main, "starting", Tail(call[Main].rest))
  /\ UNCHANGED <<owner, started, desired, count, announced>>

\* The part of update_data_listener_count under the mutex.
Update(c) ==
  LET target == call[c].rest[1] IN
  /\ At(c, "scaling") /\ owner = NoThread
  /\ desired' = target
  /\ IF started
     THEN owner' = c /\ GoTo(c, "resizing", <<target>>)
     ELSE GoTo(c, "reply", <<>>) /\ UNCHANGED owner
  /\ UNCHANGED <<started, count, announced, acceptor, loop>>

\* stop_acceptor_locked, up to the join.
CloseAcceptor(id) ==
  acceptor' = [acceptor EXCEPT ![id] = IF @ = "listening" THEN "closed" ELSE @]

\* Faulty variant: one more than asked for.
NotMore(target) == count <= target

Fewer(target) == count < target

\* ensure_data_acceptors_locked: one more, one less, or done.
Resize(t) ==
  LET target == call[t].rest[1] IN
  /\ At(t, "resizing")
  /\ \/ /\ Fewer(target)
        /\ StartAcceptor(Data(count))
        /\ count' = count + 1
        /\ UNCHANGED <<owner, call>>
     \/ /\ count > target
        /\ CloseAcceptor(Data(count - 1))
        /\ count' = count - 1
        /\ GoTo(t, "joining", <<target>>)
        /\ UNCHANGED <<owner, loop>>
     \/ /\ count = target
        /\ owner' = NoThread
        /\ GoTo(t, IF t = Main THEN "serving" ELSE "reply", <<>>)
        /\ UNCHANGED <<count, acceptor, loop>>
  /\ UNCHANGED <<started, desired, announced>>

\* Faulty variant: nobody waits for the thread.
Detached(id) == TRUE

Joined(id) == loop[id] = "none"

\* The context that was popped goes when its thread has ended.
Discard(t) ==
  /\ At(t, "joining") /\ Joined(Data(count))
  /\ acceptor' = [acceptor EXCEPT ![Data(count)] = "absent"]
  /\ GoTo(t, "resizing", call[t].rest)
  /\ UNCHANGED <<owner, started, desired, count, announced, loop>>

Stop ==
  /\ At(Main, "serving") /\ owner = NoThread
  /\ owner' = Main
  /\ GoTo(Main, "closing", FromTo("system", Systems) \o FromTo("data", count))
  /\ UNCHANGED <<started, desired, count, announced, acceptor, loop>>

\* Each is closed and joined before the next one is closed.
StopNext ==
  LET rest == call[Main].rest IN
  /\ At(Main, "closing")
  /\ IF rest = <<>>
     THEN /\ acceptor' = [id \in Ids |-> IF id \in DataIds THEN "absent" ELSE acceptor[id]]
          /\ owner' = NoThread /\ started' = FALSE /\ count' = 0
          /\ GoTo(Main, "stopped", <<>>)
     ELSE /\ CloseAcceptor(Head(rest))
          /\ GoTo(Main, "waiting", rest)
          /\ UNCHANGED <<owner, started, count>>
  /\ UNCHANGED <<desired, announced, loop>>

StopJoined ==
  /\ At(Main, "waiting") /\ Joined(Head(call[Main].rest))
  /\ GoTo(Main, "closing", Tail(call[Main].rest))
  /\ UNCHANGED <<owner, started, desired, count, announced, acceptor, loop>>

-----------------------------------------------------------------------------
(* A control connection: handle_socket and apply_command *)

\* SCALE_DATA tells STATUS of the new count before anything is rescaled.
Scale(c) ==
  /\ At(c, "reading")
  /\ \E n \in Counts :
       IF n = 0
       THEN GoTo(c, "reply", <<>>) /\ UNCHANGED announced
       ELSE announced' = n /\ GoTo(c, "scaling", <<n>>)
  /\ UNCHANGED <<owner, started, desired, count, acceptor, loop>>

\* The other commands touch nothing of this module, and get their answer.
Query(c) ==
  /\ At(c, "reading")
  /\ GoTo(c, "reply", <<>>)
  /\ UNCHANGED <<owner, started, desired, count, announced, acceptor, loop>>

\* QUIT, a peer that left, or an answer and the next line.
Answer(c) ==
  /\ At(c, "reading") \/ At(c, "reply")
  /\ GoTo(c, IF At(c, "reading") THEN "none" ELSE "reading", <<>>)
  /\ UNCHANGED <<owner, started, desired, count, announced, acceptor, loop>>

Loops(id) == LoopAgain(id) \/ EnterAccept(id)

Holding(t) ==
  \/ Resize(t) \/ Discard(t)
  \/ t = Main /\ (StartSystem \/ StopNext \/ StopJoined)

ListenersNext ==
  \/ \E id \in Ids : Loops(id) \/ AcceptReturns(id)
  \/ \E t \in Callers : Holding(t)
  \/ \E c \in Controllers : Scale(c) \/ Query(c) \/ Answer(c) \/ Update(c)
  \/ Start \/ Stop

\* Threads that can run do. Nothing promises a connection, or a signal to stop.
ListenersFairness ==
  /\ \A id \in Ids : WF_listenerVars(Loops(id))
  /\ \A t \in Callers : WF_listenerVars(Holding(t))

ListenersSpec == ListenersInit /\ [][ListenersNext]_listenerVars /\ ListenersFairness

-----------------------------------------------------------------------------
(* Properties *)

ListenersTypeOK ==
  /\ owner \in Callers \cup {NoThread} /\ started \in BOOLEAN
  /\ desired \in Nat /\ announced \in Nat /\ count \in 0..Cardinality(DataIds)
  /\ acceptor \in [Ids -> {"absent", "refused", "listening", "closed"}]
  /\ loop \in [Ids -> {"none", "check", "enter", "blocked"}]

\* Whenever nobody is rescaling, starting or stopping, the data listeners are the first
\* `desired` ones, listening or refused, each with its thread if and only if it listens,
\* and a server that has not started or has stopped has none at all; and at no time is a
\* context destroyed, or started anew, under a thread whose accept_loop still uses it
\* (start, stop, update_data_listener_count, ensure_data_acceptors_locked).
AcceptorsSettled ==
  /\ \A id \in Ids : loop[id] # "none" => acceptor[id] \in {"listening", "closed"}
  /\ owner = NoThread =>
       /\ count = IF started THEN desired ELSE 0
       /\ \A id \in Ids :
            LET wanted == started /\ (id \in DataIds => id[2] < count) IN
            /\ acceptor[id] \in (IF wanted THEN {"listening", "refused"}
                                 ELSE {"absent", "refused", "closed"})
            /\ (loop[id] # "none") = (acceptor[id] = "listening")

\* No thread stays in accept for ever once its acceptor is closed.
AcceptsReturn == \A id \in Ids : []<>~(acceptor[id] = "closed" /\ loop[id] = "blocked")

\* If so, whoever has the mutex, through any number of acceptors to start, close and
\* join, gives it back, and SCALE_DATA and stop() are not locked out for ever.
MutexReturned == AcceptsReturn => \A t \in Callers : owner = t ~> owner # t
=============================================================================
