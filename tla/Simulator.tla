------------------------------ MODULE Simulator ------------------------------
(***************************************************************************)
(* ros_executor_simulator.c: one thread that polls a listener and its      *)
(* connections, reads messages, puts each in the queue of its task and     *)
(* chooses the task to run.  The clients are those of RequestSimulator.    *)
(*                                                                         *)
(* Entry 1 of fds is fds[0], the listener; the length of fds is fd_index.  *)
(* A connection's descriptor is named by its client.                       *)
(***************************************************************************)
EXTENDS RequestSimulator

CONSTANTS
  Listener,     \* sock_listen
  NoFd,         \* a descriptor of -1
  MaxFds,       \* MAX_POLLABLE_FDS
  NTasks,       \* MAX_TASK_COUNT
  Depth,        \* TASK_MSG_QUEUE_DEPTH
  MaxFailures   \* bound: accepts that fail

ASSUME SimulatorAssumption ==
  /\ Listener \notin Clients /\ NoFd \notin Clients \union {Listener}
  /\ MaxFds \in Nat \ {0}
  /\ NTasks \in Nat \ {0}
  /\ Depth \in Nat \ {0}
  /\ MaxFailures \in Nat
  /\ NTasks \notin Ids  \* passes the check of scheduler, indexes past the array

VARIABLES
  fds,       \* [fd, in]: the poll table; `in' is POLLIN in revents
  pc,        \* "poll" or "walk"
  i,         \* the entry the walk has come to
  tasks,     \* priorities in each task's queue, first one first
  chosen,    \* the last result of scheduler
  got,       \* bytes the server has read from each connection
  failures   \* accepts that have failed

server == <<fds, pc, i, tasks, chosen, got, failures>>
vars   == <<wire, server>>

TaskIds == 0 .. NTasks - 1
NoTask  == -1

Init ==
  /\ WireInit
  /\ fds = <<[fd |-> Listener, in |-> FALSE]>>
  /\ pc = "poll"
  /\ i = 1
  /\ tasks = [t \in TaskIds |-> <<>>]
  /\ chosen = NoTask
  /\ got = [c \in Clients |-> 0]
  /\ failures = 0

-----------------------------------------------------------------------------
(* poll.  It reports the level, not the edge: what was not read is reported again. *)

Readable(fd) ==
  \/ fd = Listener /\ backlog # <<>>
  \/ fd \in Clients /\ (got[fd] < arrived[fd] \/ Ended(fd))

\* A timeout is a poll that finds nothing ready.
Poll ==
  /\ pc = "poll"
  /\ fds' = [k \in 1 .. Len(fds) |-> [fd |-> fds[k].fd, in |-> Readable(fds[k].fd)]]
  /\ pc' = IF \E k \in 1 .. Len(fds) : fds'[k].in THEN "walk" ELSE "poll"
  /\ UNCHANGED <<wire, i, tasks, chosen, got, failures>>

-----------------------------------------------------------------------------
(* The walk over the table. *)

Walking == pc = "walk" /\ i <= Len(fds)

Skip ==
  /\ Walking /\ ~fds[i].in
  /\ i' = i + 1
  /\ UNCHANGED <<wire, fds, pc, tasks, chosen, got, failures>>

AtCapacity == Len(fds) >= MaxFds

\* "At connection capacity!": the connection stays where it is.
TurnAway ==
  /\ Walking /\ fds[i].in /\ i = 1
  /\ AtCapacity
  /\ i' = i + 1
  /\ UNCHANGED <<wire, fds, pc, tasks, chosen, got, failures>>

Accept ==
  /\ Walking /\ fds[i].in /\ i = 1
  /\ ~AtCapacity
  /\ fds' = Append(fds, [fd |-> Head(backlog), in |-> FALSE])
  /\ conn' = [conn EXCEPT ![Head(backlog)] = "open"]
  /\ backlog' = Tail(backlog)
  /\ i' = i + 1
  /\ UNCHANGED <<up, sent, arrived, pc, tasks, chosen, got, failures>>

\* accept fails (no descriptor left): the -1 it returns goes into the table.
AcceptFails ==
  /\ Walking /\ fds[i].in /\ i = 1
  /\ ~AtCapacity
  /\ failures < MaxFailures
  /\ fds' = Append(fds, [fd |-> NoFd, in |-> FALSE])
  /\ failures' = failures + 1
  /\ i' = i + 1
  /\ UNCHANGED <<wire, pc, tasks, chosen, got>>

Beats(a, b) == a > b

\* The loop of scheduler over the tasks, comparing the oldest messages.
Best(queues) ==
  LET best[k \in 0 .. NTasks] ==
        IF k = 0 THEN NoTask
        ELSE LET b == best[k - 1]
             IN IF /\ queues[k - 1] # <<>>
                   /\ b = NoTask \/ Beats(queues[k - 1][1], queues[b][1])
                THEN k - 1 ELSE b
  IN best[NTasks]

\* Mutant: one message too many.
HasRoomForMore(queue) == Len(queue) <= Depth

\* Mutant: the last slot is never used.
HasRoomForFewer(queue) == Len(queue) < Depth - 1

HasRoom(queue) == Len(queue) < Depth

\* A full queue drops the message, and the choice is made all the same.
Schedule(m) ==
  \/ /\ m.id > NTasks
     /\ chosen' = NoTask
     /\ UNCHANGED tasks
  \/ /\ m.id <= NTasks
     /\ tasks' = [tasks EXCEPT ![m.id] = IF HasRoom(@) THEN Append(@, m.prio) ELSE @]
     /\ chosen' = Best(tasks')

\* What read(fd, message, 3) returns: all there is, up to three bytes.
BytesRead(c) ==
  IF arrived[c] - got[c] >= MessageSize THEN MessageSize ELSE arrived[c] - got[c]

\* Mutant: whatever was read will do.
WholeMessageOrLess(c) == BytesRead(c) # 0

WholeMessage(c) == BytesRead(c) = MessageSize

ReadMessage(c) ==
  /\ Walking /\ fds[i] = [fd |-> c, in |-> TRUE]
  /\ WholeMessage(c)
  /\ got' = [got EXCEPT ![c] = @ + BytesRead(c)]
  /\ Schedule(sent[c][got[c] \div MessageSize + 1])
  /\ i' = i + 1
  /\ UNCHANGED <<wire, fds, pc, failures>>

\* Mutants: the table is not shortened; the entry behind the removed one goes too.
RemovedNotShortened(k) ==
  [j \in 1 .. Len(fds) |-> IF j < k \/ j = Len(fds) THEN fds[j] ELSE fds[j + 1]]

RemovedTwice(k) ==
  [j \in 1 .. (IF k < Len(fds) THEN Len(fds) - 2 ELSE Len(fds) - 1) |->
     IF j < k THEN fds[j] ELSE fds[j + 2]]

\* The table without entry k: those behind it move up, with their revents.
Removed(k) == [j \in 1 .. Len(fds) - 1 |-> IF j < k THEN fds[j] ELSE fds[j + 1]]

\* A short read: the end of the stream, or part of a message, which is lost.  The
\* walk then goes on to the next index and passes over the entry that moved up.
Disconnect(c) ==
  /\ Walking /\ fds[i] = [fd |-> c, in |-> TRUE]
  /\ ~WholeMessage(c)
  /\ got' = [got EXCEPT ![c] = @ + BytesRead(c)]
  /\ conn' = [conn EXCEPT ![c] = "closed"]
  /\ fds' = Removed(i)
  /\ i' = i + 1
  /\ UNCHANGED <<up, sent, arrived, backlog, pc, tasks, chosen, failures>>

WalkEnds ==
  /\ pc = "walk" /\ i > Len(fds)
  /\ pc' = "poll"
  /\ i' = 1
  /\ UNCHANGED <<wire, fds, tasks, chosen, got, failures>>

-----------------------------------------------------------------------------
Server ==
  \/ Poll
  \/ Skip \/ TurnAway \/ Accept \/ AcceptFails
  \/ \E c \in Clients : ReadMessage(c) \/ Disconnect(c)
  \/ WalkEnds

Environment(c) == (Client(c) \/ Deliver(c)) /\ UNCHANGED server

Next == Server \/ \E c \in Clients : Environment(c)

\* The server never sleeps for long, a connected client goes on with its loop, and
\* the network delivers what was written.  A client need not ever connect.
Fairness ==
  /\ WF_vars(Server)
  /\ \A c \in Clients :
       /\ WF_vars((Write(c) \/ WriteFails(c) \/ Close(c)) /\ UNCHANGED server)
       /\ WF_vars(Deliver(c) /\ UNCHANGED server)

Spec == Init /\ [][Next]_vars /\ Fairness

-----------------------------------------------------------------------------
(* Properties. *)

\* Values of the variables: the table never outgrows MAX_POLLABLE_FDS, however
\* connections come and go during a walk.
TypeOK ==
  /\ WireTypeOK
  /\ fds \in Seq([fd : Clients \union {Listener, NoFd}, in : BOOLEAN])
  /\ Len(fds) \in 1 .. MaxFds
  /\ pc \in {"poll", "walk"}
  /\ i \in Nat
  /\ tasks \in [TaskIds -> Seq(Prios)]
  /\ \A t \in TaskIds : Len(tasks[t]) <= Depth
  /\ chosen \in TaskIds \union {NoTask}
  /\ got \in [Clients -> Nat]
  /\ failures \in 0 .. MaxFailures

\* The poll table holds the listener first, each open connection once, and one dead
\* entry for every accept that failed: in the middle of a walk that shifts it (lines
\* 327-330) no connection is lost, kept after its close, or polled twice, and with
\* clients to turn away it never outgrows its array (line 315).
TableIsOpenConnections ==
  LET where(fd) == {k \in 1 .. Len(fds) : fds[k].fd = fd}
  IN /\ Len(fds) <= MaxFds
     /\ where(Listener) = {1}
     /\ Cardinality(where(NoFd)) = failures
     /\ \A c \in Clients : Cardinality(where(c)) = IF conn[c] = "open" THEN 1 ELSE 0

\* The bytes of an open connection have been read in whole messages, so the next
\* three are a message and not the end of one and the start of another: no split of
\* the stream gives the scheduler a message nobody sent.
Framed == \A c \in Clients : conn[c] = "open" => got[c] % MessageSize = 0

\* The messages read for task t, by connection and place in its stream.
ReadFor(t) ==
  {r \in Clients \X (1 .. MaxMessages) :
     r[2] <= got[r[1]] \div MessageSize /\ sent[r[1]][r[2]].id = t}

\* Nothing is dropped but for want of room: a task's queue holds as many messages as
\* were read for it, from whatever connections and in whatever order, until it is
\* full, and from then on exactly its depth, for no queue is ever drained (line 201).
\* Messages cut short by the end of a stream count for nothing.
DroppedOnlyWhenFull == \A t \in TaskIds :
  Len(tasks[t]) = IF Cardinality(ReadFor(t)) < Depth THEN Cardinality(ReadFor(t)) ELSE Depth

\* The task chosen is the first of those whose oldest message has the highest
\* number, whatever came since: what lines 209-227 compute.  The comments on those
\* lines say something else, which is the next property.
ChoosesFirstHighest == chosen # NoTask =>
  /\ tasks[chosen] # <<>>
  /\ \A t \in TaskIds : tasks[t] # <<>> =>
       \/ tasks[chosen][1] > tasks[t][1]
       \/ tasks[chosen][1] = tasks[t][1] /\ chosen <= t

\* "lowest number is highest prio" (line 208), "Compare priority of latest message" (line
\* 223): no pending task's latest message has a lower number than the chosen one's.
ChoosesAsCommented ==
  LET Latest(t) == tasks[t][Len(tasks[t])]
  IN chosen # NoTask =>
       \A t \in TaskIds : tasks[t] # <<>> => Latest(chosen) <= Latest(t)

\* Every connection is accepted and read to its end, or dropped for a short read: a
\* table that is full, and an entry the walk passes over (line 327), delay a client
\* but starve none, as long as failed accepts have not taken every entry but the
\* listener's (line 319): then nobody is accepted again.
EveryClientServed == \A c \in Clients :
  conn[c] = "backlog" ~>
    \/ conn[c] = "closed" /\ (got[c] = Written(c) \/ got[c] % MessageSize # 0)
    \/ failures = MaxFds - 1
=============================================================================
