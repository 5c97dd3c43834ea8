--------------------------- MODULE SimulatorProofs ---------------------------
(***************************************************************************)
(* Proofs about the simulator of the executor, for any number of clients,  *)
(* messages, tasks and entries of the poll table, however the stream is    *)
(* split and in whatever order connections come and go.                    *)
(***************************************************************************)
EXTENDS Simulator, NaturalLemmas, SequenceTheorems, FiniteSetTheorems, TLAPS

\* The listener is the first entry; a client has an entry exactly while its connection
\* is open, and one only; each accept that failed has left a dead entry.
Entries(fd) == {k \in 1 .. Len(fds) : fds[k].fd = fd}

TableInv ==
  /\ Entries(Listener) = {1}
  /\ \A c \in Clients : conn[c] = "open" <=> \E k \in 1 .. Len(fds) : fds[k].fd = c
  /\ \A j, k \in 1 .. Len(fds) :
       fds[j].fd = fds[k].fd /\ fds[j].fd \in Clients => j = k
  /\ Cardinality(Entries(NoFd)) = failures

\* The listener's queue holds the connections that wait there, each once; a client
\* that has not connected has no connection.
BacklogInv ==
  /\ \A c \in Clients :
       conn[c] = "backlog" <=> \E k \in 1 .. Len(backlog) : backlog[k] = c
  /\ \A j, k \in 1 .. Len(backlog) : backlog[j] = backlog[k] => j = k
  /\ \A c \in Clients : up[c] = "no" => conn[c] = "none"

\* A walk starts at the listener.  When poll found it readable it still is.
WalkInv ==
  /\ i \in Nat \ {0}
  /\ pc = "poll" => i = 1
  /\ pc = "walk" /\ i = 1 /\ fds[1].in => backlog # <<>>

\* The server has read nothing that has not arrived, and whole messages only from a
\* connection it has not closed.
StreamInv == \A c \in Clients :
  /\ got[c] <= arrived[c]
  /\ conn[c] # "closed" => got[c] % MessageSize = 0

IInv == TypeOK /\ TableInv /\ BacklogInv /\ WalkInv /\ StreamInv

-----------------------------------------------------------------------------
\* What the proofs need to know of the constants.
LEMMA Constants ==
  /\ Listener \notin Clients /\ NoFd \notin Clients /\ NoFd # Listener
  /\ MaxFds \in Nat /\ NTasks \in Nat /\ Depth \in Nat /\ MaxFailures \in Nat
  /\ MaxFds > 0 /\ NTasks > 0 /\ Depth > 0 /\ NTasks \notin Ids
  /\ \A p \in Prios : p \in Int
  /\ \A id \in Ids : id \in Nat
<1>1. /\ \A p \in Prios : p \in 0 .. 255
      /\ \A id \in Ids : id \in 0 .. 255
  BY ClientAssumption, Zenon
<1> QED
  BY <1>1, SimulatorAssumption

-----------------------------------------------------------------------------
(* The scheduler's choice. *)

\* Task t is the first of those below k whose oldest message has the highest number.
FirstHighestBelow(q, k, t) ==
  /\ t \in 0 .. k - 1 /\ q[t] # <<>>
  /\ \A u \in 0 .. k - 1 : q[u] # <<>> =>
       q[t][1] > q[u][1] \/ (q[t][1] = q[u][1] /\ t <= u)

\* The value of the loop of scheduler after so many turns.
LEMMA LoopOfBest ==
  ASSUME NEW q \in [TaskIds -> Seq(Prios)]
  PROVE  \E f :
           /\ f[0] = NoTask
           /\ \A k \in 1 .. NTasks :
                f[k] = IF /\ q[k - 1] # <<>>
                          /\ f[k - 1] = NoTask \/ Beats(q[k - 1][1], q[f[k - 1]][1])
                       THEN k - 1 ELSE f[k - 1]
           /\ Best(q) = f[NTasks]
<1> DEFINE S == TaskIds \union {NoTask}
           Turn(k, b) == IF /\ q[k - 1] # <<>>
                            /\ b = NoTask \/ Beats(q[k - 1][1], q[b][1])
                         THEN k - 1 ELSE b
           step == [k \in 1 .. NTasks |-> [b \in S |-> Turn(k, b)]]
           Loop(f) == f = [k \in 0 .. NTasks |-> IF k = 0 THEN NoTask ELSE Turn(k, f[k - 1])]
<1>0. NTasks \in Nat
  BY SimulatorAssumption
<1>1. step \in Turns(NTasks, S)
  <2>1. ASSUME NEW k \in 1 .. NTasks, NEW b \in S PROVE Turn(k, b) \in S
    <3>1. k - 1 \in TaskIds
      BY <1>0 DEF TaskIds
    <3> QED
      BY <3>1
  <2> HIDE DEF Turn, S
  <2> QED
    BY <2>1 DEF Turns
<1>2. PICK f \in [0 .. NTasks -> S] :
        f[0] = NoTask /\ \A k \in 1 .. NTasks : f[k] = step[k][f[k - 1]]
  <2>1. NoTask \in S
    OBVIOUS
  <2> HIDE DEF S, step, Loop, Turn
  <2> QED
    BY <1>0, <1>1, <2>1, LoopResult
<1>3. f[0] = NoTask /\ \A k \in 1 .. NTasks : f[k] = Turn(k, f[k - 1])
  <2>1. f[0] = NoTask
    BY <1>0, <1>2
  <2>2. ASSUME NEW k \in 1 .. NTasks PROVE f[k] = Turn(k, f[k - 1])
    <3>1. f[k - 1] \in S /\ k # 0 /\ k \in 0 .. NTasks
      BY <1>0
    <3> HIDE DEF Turn, S
    <3>2. f[k] = step[k][f[k - 1]]
      BY <1>2, <3>1
    <3> QED
      BY <3>1, <3>2
  <2> QED
    BY <2>1, <2>2
<1>4. Loop(f)
  <2> HIDE DEF Turn, S
  <2> QED
    BY <1>0, <1>3
<1> DEFINE g == CHOOSE h : Loop(h)
<1>5. Loop(g)
  <2> HIDE DEF Loop
  <2> QED
    BY <1>4, Zenon
<1>6. Best(q) = g[NTasks]
  BY DEF Best
<1>7. g[0] = NoTask /\ \A k \in 1 .. NTasks : g[k] = Turn(k, g[k - 1])
  <2> HIDE DEF Turn, g
  <2>1. g = [k \in 0 .. NTasks |-> IF k = 0 THEN NoTask ELSE Turn(k, g[k - 1])]
    BY <1>5
  <2> QED
    BY <1>0, <2>1
<1> QED
  <2> HIDE DEF g
  <2> QED
    BY <1>6, <1>7

\* scheduler returns -1 when no task has a message, and otherwise the first of the
\* tasks whose oldest message has the highest number (lines 209-230).
LEMMA BestIsFirstHighest ==
  ASSUME NEW q \in [TaskIds -> Seq(Prios)]
  PROVE  /\ Best(q) \in TaskIds \union {NoTask}
         /\ Best(q) # NoTask => FirstHighestBelow(q, NTasks, Best(q))
<1> DEFINE Right(k, b) ==
             \/ b = NoTask /\ \A u \in 0 .. k - 1 : q[u] = <<>>
             \/ FirstHighestBelow(q, k, b)
<1>0. NTasks \in Nat
  BY SimulatorAssumption
<1>1. PICK f : /\ f[0] = NoTask
               /\ \A k \in 1 .. NTasks :
                    f[k] = IF /\ q[k - 1] # <<>>
                              /\ f[k - 1] = NoTask \/ Beats(q[k - 1][1], q[f[k - 1]][1])
                           THEN k - 1 ELSE f[k - 1]
               /\ Best(q) = f[NTasks]
  BY LoopOfBest
<1>2. ASSUME NEW t \in TaskIds, q[t] # <<>> PROVE q[t][1] \in Int
  <2>1. q[t] \in Seq(Prios) /\ Len(q[t]) \in Nat \ {0}
    BY <1>2, EmptySeq
  <2>2. q[t][1] \in Prios
    BY <2>1, ElementOfSeq
  <2> QED
    BY <2>2, Constants
<1> DEFINE wrong == {k \in 0 .. NTasks : ~Right(k, f[k])}
<1>3. wrong = {}
  <2> SUFFICES ASSUME wrong # {} PROVE FALSE
    OBVIOUS
  <2>1. PICK k \in wrong : \A j \in wrong : k <= j
    <3>1. wrong \subseteq Nat
      OBVIOUS
    <3> HIDE DEF wrong
    <3> QED
      BY <3>1, LeastNat
  <2>2. k # 0
    <3>1. Right(0, f[0])
      BY <1>1
    <3> QED
      BY <3>1
  <2>3. k \in 1 .. NTasks /\ k - 1 \in TaskIds /\ Right(k - 1, f[k - 1])
    <3>1. k \in 0 .. NTasks
      OBVIOUS
    <3>2. k - 1 \in 0 .. NTasks /\ k - 1 \notin wrong
      <4> HIDE DEF wrong
      <4> QED
        BY <1>0, <2>1, <2>2, <3>1
    <3>3. Right(k - 1, f[k - 1])
      BY <3>2
    <3> QED
      BY <1>0, <2>2, <3>1, <3>3 DEF TaskIds
  <2> DEFINE b == f[k - 1]
  <2>4. f[k] = IF /\ q[k - 1] # <<>>
                  /\ b = NoTask \/ Beats(q[k - 1][1], q[b][1])
               THEN k - 1 ELSE b
    BY <1>1, <2>3
  <2>5. k - 1 \in Nat /\ 0 .. k - 1 \subseteq TaskIds /\ 0 .. k - 2 = (0 .. k - 1) \ {k - 1}
        /\ (k - 1) - 1 = k - 2
    BY <1>0, <2>3 DEF TaskIds
  <2>6. \A u \in 0 .. k - 1 : u \in 0 .. k - 2 \/ u = k - 1
    BY <2>5
  <2>7. Right(k, f[k])
    <3> HIDE DEF b, wrong
    <3> USE <2>4, <2>5, <2>6 DEF Beats
    <3>1. CASE b = NoTask
      <4>1. \A u \in 0 .. k - 2 : q[u] = <<>>
        BY <2>3, <3>1 DEF FirstHighestBelow, b, NoTask
      <4>2. CASE q[k - 1] = <<>>
        BY <3>1, <4>1, <4>2
      <4>3. CASE q[k - 1] # <<>>
        <5>1. f[k] = k - 1
          BY <3>1, <4>3
        <5>2. q[k - 1][1] \in Int
          BY <1>2, <2>3, <4>3
        <5>3. FirstHighestBelow(q, k, k - 1)
          BY <4>1, <4>3, <5>2 DEF FirstHighestBelow
        <5> QED
          BY <5>1, <5>3
      <4> QED
        BY <4>2, <4>3
    <3>2. CASE b # NoTask
      <4>1. FirstHighestBelow(q, k - 1, b)
        BY <2>3, <3>2 DEF b
      <4>2. b \in 0 .. k - 2 /\ b \in TaskIds /\ q[b] # <<>> /\ q[b][1] \in Int
        BY <1>2, <4>1 DEF FirstHighestBelow
      <4>3. \A u \in 0 .. k - 1 : q[u] # <<>> => q[u][1] \in Int
        BY <1>2
      <4>4. CASE q[k - 1] # <<>> /\ Beats(q[k - 1][1], q[b][1])
        <5>1. f[k] = k - 1
          BY <4>4
        <5>2. ASSUME NEW u \in 0 .. k - 1, q[u] # <<>>
              PROVE  q[k - 1][1] > q[u][1] \/ (q[k - 1][1] = q[u][1] /\ k - 1 <= u)
          <6>1. CASE u = k - 1
            BY <4>3, <5>2, <6>1
          <6>2. CASE u \in 0 .. k - 2
            <7>1. q[b][1] > q[u][1] \/ q[b][1] = q[u][1]
              BY <4>1, <5>2, <6>2 DEF FirstHighestBelow
            <7>2. q[k - 1][1] > q[b][1]
              BY <4>4
            <7>3. q[k - 1][1] \in Int /\ q[u][1] \in Int
              BY <4>3, <4>4, <5>2
            <7> QED
              BY <4>2, <7>1, <7>2, <7>3
          <6> QED
            BY <6>1, <6>2
        <5>3. FirstHighestBelow(q, k, k - 1)
          BY <4>4, <5>2 DEF FirstHighestBelow
        <5> QED
          BY <5>1, <5>3
      <4>5. CASE ~(q[k - 1] # <<>> /\ Beats(q[k - 1][1], q[b][1]))
        <5>1. f[k] = b
          BY <3>2, <4>5
        <5>2. FirstHighestBelow(q, k, b)
          BY <4>1, <4>2, <4>3, <4>5 DEF FirstHighestBelow
        <5> QED
          BY <5>1, <5>2
      <4> QED
        BY <4>4, <4>5
    <3> QED
      BY <3>1, <3>2
  <2> QED
    BY <2>7
<1>4. Right(NTasks, Best(q))
  BY <1>0, <1>1, <1>3
<1> QED
  BY <1>4 DEF FirstHighestBelow, TaskIds

-----------------------------------------------------------------------------
(* The invariant. *)

\* An entry of the poll table.
Entry == [fd : Clients \union {Listener, NoFd}, in : BOOLEAN]

\* The simulator starts with an empty table but for the listener.
LEMMA InitInv == Init => IInv
<1> SUFFICES ASSUME Init PROVE IInv
  OBVIOUS
<1> USE DEF Init, WireInit
<1>0. /\ fds \in Seq(Entry) /\ Len(fds) = 1 /\ fds[1].fd = Listener /\ fds[1].in = FALSE
      /\ \A k \in 1 .. Len(fds) : k = 1
  BY DEF Entry
<1>1. WireTypeOK
  BY ClientAssumption DEF WireTypeOK, Written, MessageSize
<1>2. TypeOK
  BY <1>0, <1>1, Constants DEF TypeOK, Entry
<1>3. TableInv
  <2>1. Entries(Listener) = {1} /\ Entries(NoFd) = {}
    BY <1>0, Constants DEF Entries
  <2>2. Cardinality(Entries(NoFd)) = failures
    BY <2>1, FS_EmptySet
  <2>3. \A c \in Clients : conn[c] # "open" /\ ~ \E k \in 1 .. Len(fds) : fds[k].fd = c
    BY <1>0, Constants
  <2> QED
    BY <1>0, <2>1, <2>2, <2>3 DEF TableInv
<1>4. BacklogInv
  BY DEF BacklogInv
<1>5. WalkInv
  BY DEF WalkInv
<1>6. StreamInv
  BY DEF StreamInv, MessageSize
<1> QED
  BY <1>2, <1>3, <1>4, <1>5, <1>6 DEF IInv

\* A client's steps and the network's leave the server alone; a client that connects
\* joins the listener's queue, and bytes only ever arrive.
LEMMA WireStep ==
  ASSUME TypeOK, BacklogInv, NEW c \in Clients, Client(c) \/ Deliver(c)
  PROVE  /\ WireTypeOK'
         /\ BacklogInv'
         /\ \A d \in Clients : conn'[d] = "open" <=> conn[d] = "open"
         /\ \A d \in Clients : conn'[d] # "closed" => conn[d] # "closed"
         /\ \A d \in Clients : arrived[d] <= arrived'[d]
         /\ backlog # <<>> => backlog' # <<>>
<1> USE DEF MessageSize
<1> DEFINE Message == [id : Ids, prio : Prios]
<1>0. /\ up \in [Clients -> {"no", "up", "down"}]
      /\ sent \in [Clients -> Seq(Message)]
      /\ arrived \in [Clients -> Nat]
      /\ conn \in [Clients -> {"none", "backlog", "open", "closed"}]
      /\ backlog \in Seq(Clients)
      /\ \A d \in Clients : arrived[d] <= MessageSize * Len(sent[d])
                          /\ Len(sent[d]) <= MaxMessages /\ Len(sent[d]) \in Nat
      /\ MaxMessages \in Nat
      /\ Len(backlog) <= Backlog /\ Backlog \in Nat /\ Len(backlog) \in Nat
      /\ \A d \in Clients : up[d] = "no" => conn[d] = "none"
  <2>1. MaxMessages \in Nat /\ Backlog \in Nat
    BY ClientAssumption, Zenon
  <2>4. backlog \in Seq(Clients) /\ Len(backlog) \in Nat
    BY LenProperties DEF TypeOK, WireTypeOK
  <2>2. \A d \in Clients : sent[d] \in Seq(Message)
    BY DEF TypeOK, WireTypeOK
  <2>3. \A d \in Clients : Len(sent[d]) \in Nat
    BY <2>2, LenProperties
  <2> QED
    BY <2>1, <2>3, <2>4 DEF TypeOK, WireTypeOK, BacklogInv, Written
<1>a. /\ \A d \in Clients : conn[d] = "backlog" <=> \E k \in 1 .. Len(backlog) : backlog[k] = d
      /\ \A j, k \in 1 .. Len(backlog) : backlog[j] = backlog[k] => j = k
  BY DEF BacklogInv
<1> HIDE DEF Message
<1>1. CASE Connect(c)
  <2> USE <1>1 DEF Connect
  <2>1. /\ conn[c] = "none" /\ up' \in [Clients -> {"no", "up", "down"}]
        /\ conn' \in [Clients -> {"none", "backlog", "open", "closed"}]
        /\ UNCHANGED <<sent, arrived>>
        /\ \A d \in Clients : conn'[d] = IF d = c THEN "backlog" ELSE conn[d]
        /\ \A d \in Clients : up'[d] = IF d = c THEN "up" ELSE up[d]
        /\ backlog' = Append(backlog, c) /\ Len(backlog) < Backlog
    BY <1>0
  <2>2. /\ backlog' \in Seq(Clients) /\ Len(backlog') = Len(backlog) + 1
        /\ Len(backlog) \in Nat
        /\ backlog'[Len(backlog) + 1] = c
        /\ \A k \in 1 .. Len(backlog) : backlog'[k] = backlog[k]
    BY <1>0, <2>1, AppendProperties, LenProperties
  <2> HIDE <1>1
  <2>a. Len(backlog') <= Backlog
    BY <1>0, <2>1, <2>2
  <2>b. \A d \in Clients : arrived'[d] <= Written(d)' /\ Len(sent'[d]) <= MaxMessages
    BY <1>0, <2>1 DEF Written
  <2>3. WireTypeOK'
    BY <1>0, <2>1, <2>2, <2>a, <2>b DEF WireTypeOK, Message
  <2>4. backlog' # <<>>
    <3>1. Len(<<>>) = 0
      OBVIOUS
    <3> QED
      BY <2>2, <3>1
  <2>5. ~ \E k \in 1 .. Len(backlog) : backlog[k] = c
    BY <1>a, <2>1
  <2>6. \A k \in 1 .. Len(backlog') : k \in 1 .. Len(backlog) \/ k = Len(backlog) + 1
    BY <2>2
  <2>7. BacklogInv'
    <3>1. ASSUME NEW d \in Clients
          PROVE  conn'[d] = "backlog" <=> \E k \in 1 .. Len(backlog') : backlog'[k] = d
      <4>1. CASE d = c
        <5>1. Len(backlog) + 1 \in 1 .. Len(backlog')
          BY <2>2
        <5> QED
          BY <2>1, <2>2, <4>1, <5>1
      <4>2. CASE d # c
        <5>1. conn'[d] = conn[d]
          BY <2>1, <4>2
        <5>2. 1 .. Len(backlog) \subseteq 1 .. Len(backlog')
          BY <2>2
        <5> QED
          BY <1>a, <2>2, <2>6, <4>2, <5>1, <5>2
      <4> QED
        BY <4>1, <4>2
    <3>2. \A j, k \in 1 .. Len(backlog') : backlog'[j] = backlog'[k] => j = k
      BY <1>a, <2>2, <2>5, <2>6
    <3>3. \A d \in Clients : up'[d] = "no" => conn'[d] = "none"
      BY <1>0, <2>1
    <3> QED
      BY <3>1, <3>2, <3>3 DEF BacklogInv
  <2>8. \A d \in Clients : arrived[d] <= arrived'[d]
    BY <1>0, <2>1
  <2> QED
    BY <2>1, <2>3, <2>4, <2>7, <2>8
<1>2. CASE Write(c)
  <2> USE <1>2 DEF Write
  <2>1. PICK id \in Ids, prio \in Prios :
          sent' = [sent EXCEPT ![c] = Append(@, [id |-> id, prio |-> prio])]
    OBVIOUS
  <2> DEFINE m == [id |-> id, prio |-> prio]
  <2>a. m \in Message
    BY DEF Message
  <2> HIDE DEF m
  <2>2. /\ Append(sent[c], m) \in Seq(Message)
        /\ Len(Append(sent[c], m)) = Len(sent[c]) + 1
    BY <1>0, <2>a, AppendProperties
  <2>b. sent' = [sent EXCEPT ![c] = Append(sent[c], m)]
    BY <2>1 DEF m
  <2>3. sent' \in [Clients -> Seq(Message)]
    BY <1>0, <2>b, <2>2
  <2>4. \A d \in Clients : sent'[d] = IF d = c THEN Append(sent[c], m) ELSE sent[d]
    BY <1>0, <2>b
  <2>5. ASSUME NEW d \in Clients
        PROVE  arrived'[d] <= MessageSize * Len(sent'[d]) /\ Len(sent'[d]) <= MaxMessages
    BY <1>0, <2>2, <2>4
  <2>6. WireTypeOK'
    BY <1>0, <2>3, <2>5 DEF WireTypeOK, Written, Message
  <2>7. UNCHANGED <<up, arrived, conn, backlog>>
    OBVIOUS
  <2> HIDE <1>2
  <2>8. BacklogInv'
    BY <1>0, <1>a, <2>7 DEF BacklogInv
  <2>9. \A d \in Clients : arrived[d] <= arrived'[d]
    BY <1>0, <2>7
  <2> QED
    BY <2>6, <2>7, <2>8, <2>9
<1>3. CASE WriteFails(c) \/ Close(c)
  <2>1. UNCHANGED <<sent, arrived, conn, backlog>> /\ up' = [up EXCEPT ![c] = "down"]
    BY <1>3 DEF WriteFails, Close
  <2>2. WireTypeOK'
    BY <1>0, <2>1 DEF WireTypeOK, Written, Message
  <2>3. \A d \in Clients : up'[d] = "no" => conn'[d] = "none"
    BY <1>0, <2>1
  <2> QED
    BY <1>0, <2>1, <2>2, <2>3 DEF BacklogInv
<1>4. CASE Deliver(c)
  <2> USE <1>4 DEF Deliver
  <2>1. PICK n \in arrived[c] + 1 .. MessageSize * Len(sent[c]) :
          arrived' = [arrived EXCEPT ![c] = n]
    BY DEF Written
  <2>2. n \in Nat /\ arrived[c] <= n /\ n <= MessageSize * Len(sent[c])
    BY <1>0, <2>1
  <2>3. \A d \in Clients : arrived'[d] = IF d = c THEN n ELSE arrived[d]
    BY <1>0, <2>1
  <2>4. WireTypeOK'
    BY <1>0, <2>1, <2>2, <2>3 DEF WireTypeOK, Written, Message
  <2>5. UNCHANGED <<up, conn, backlog>>
    OBVIOUS
  <2>6. BacklogInv'
    BY <1>0, <1>a, <2>5 DEF BacklogInv
  <2>7. \A d \in Clients : arrived[d] <= arrived'[d]
    BY <1>0, <2>2, <2>3
  <2> HIDE <1>4
  <2> QED
    BY <2>4, <2>5, <2>6, <2>7
<1> QED
  BY <1>1, <1>2, <1>3, <1>4 DEF Client

\* Neither reaches into the server.
LEMMA EnvironmentInv ==
  ASSUME IInv, NEW c \in Clients, Environment(c)
  PROVE  IInv'
<1>1. TypeOK /\ BacklogInv /\ (Client(c) \/ Deliver(c)) /\ UNCHANGED server
  BY DEF IInv, Environment
<1>2. /\ WireTypeOK' /\ BacklogInv'
      /\ \A d \in Clients : conn'[d] = "open" <=> conn[d] = "open"
      /\ \A d \in Clients : conn'[d] # "closed" => conn[d] # "closed"
      /\ \A d \in Clients : arrived[d] <= arrived'[d]
      /\ backlog # <<>> => backlog' # <<>>
  BY <1>1, WireStep
<1>3. UNCHANGED <<fds, pc, i, tasks, chosen, got, failures>>
  BY <1>1 DEF server
<1>4. TypeOK'
  BY <1>1, <1>2, <1>3 DEF TypeOK
<1>5. TableInv'
  BY <1>2, <1>3 DEF IInv, TableInv, Entries
<1>6. WalkInv'
  BY <1>2, <1>3 DEF IInv, WalkInv
<1>7. StreamInv'
  <2>1. \A d \in Clients : got[d] \in Nat /\ arrived[d] \in Nat /\ arrived'[d] \in Nat
    BY <1>1, <1>2 DEF TypeOK, WireTypeOK
  <2> QED
    BY <1>2, <1>3, <2>1 DEF IInv, StreamInv
<1> QED
  BY <1>2, <1>4, <1>5, <1>6, <1>7 DEF IInv

\* A table given entry by entry.
LEMMA TableOf ==
  ASSUME NEW n \in Nat, NEW t \in [1 .. n -> Entry]
  PROVE  t \in Seq(Entry) /\ Len(t) = n
<1>1. t \in Seq(Entry)
  BY SeqDef
<1>2. DOMAIN t = 1 .. n /\ DOMAIN t = 1 .. Len(t) /\ Len(t) \in Nat
  BY <1>1, LenProperties
<1> QED
  BY <1>1, <1>2

\* What there is to know of the table in a step.
LEMMA TableTypes ==
  ASSUME TypeOK
  PROVE  /\ fds \in Seq(Entry) /\ Len(fds) \in Nat /\ 1 \in 1 .. Len(fds)
         /\ \A k \in 1 .. Len(fds) :
              /\ fds[k] \in Entry /\ fds[k].in \in BOOLEAN
              /\ fds[k].fd \in Clients \union {Listener, NoFd}
         /\ Len(fds) <= MaxFds
<1>1. fds \in Seq(Entry) /\ Len(fds) \in 1 .. MaxFds
  BY DEF TypeOK, Entry
<1>2. \A k \in 1 .. Len(fds) : fds[k] \in Entry
  BY <1>1, ElementOfSeq
<1>3. Len(fds) \in Nat /\ Len(fds) <= MaxFds /\ 1 \in 1 .. Len(fds)
  BY <1>1, Constants
<1>4. \A e \in Entry : e.in \in BOOLEAN /\ e.fd \in Clients \union {Listener, NoFd}
  BY DEF Entry
<1> QED
  BY <1>1, <1>2, <1>3, <1>4

\* poll writes what it finds into the table, and into nothing else.
LEMMA PollInv == IInv /\ Poll => IInv'
<1> SUFFICES ASSUME IInv, Poll PROVE IInv'
  OBVIOUS
<1>0. TypeOK /\ TableInv /\ BacklogInv /\ WalkInv /\ StreamInv
  BY DEF IInv
<1>1. /\ pc = "poll" /\ pc' \in {"poll", "walk"}
      /\ UNCHANGED <<wire, i, tasks, chosen, got, failures>>
      /\ fds' = [k \in 1 .. Len(fds) |-> [fd |-> fds[k].fd, in |-> Readable(fds[k].fd)]]
  BY DEF Poll
<1>2. \A k \in 1 .. Len(fds) : [fd |-> fds[k].fd, in |-> Readable(fds[k].fd)] \in Entry
  <2>1. ASSUME NEW k \in 1 .. Len(fds) PROVE Readable(fds[k].fd) \in BOOLEAN
    BY DEF Readable
  <2> QED
    BY <1>0, <2>1, TableTypes DEF Entry
<1>3. /\ fds' \in Seq(Entry) /\ Len(fds') = Len(fds)
      /\ \A k \in 1 .. Len(fds) : fds'[k].fd = fds[k].fd /\ fds'[k].in = Readable(fds[k].fd)
  <2>1. Len(fds) \in Nat
    BY <1>0, TableTypes
  <2>2. fds' \in [1 .. Len(fds) -> Entry]
    BY <1>1, <1>2
  <2>3. fds' \in Seq(Entry) /\ Len(fds') = Len(fds)
    BY <2>1, <2>2, TableOf
  <2>4. ASSUME NEW k \in 1 .. Len(fds)
        PROVE  fds'[k].fd = fds[k].fd /\ fds'[k].in = Readable(fds[k].fd)
    <3> DEFINE fd == fds[k].fd
               in == Readable(fds[k].fd)
    <3>1. fds'[k] = [fd |-> fd, in |-> in]
      BY <1>1, Zenon
    <3> HIDE DEF fd, in
    <3>2. fds'[k].fd = fd /\ fds'[k].in = in
      BY <3>1
    <3> QED
      BY <3>2 DEF fd, in
  <2> QED
    BY <2>3, <2>4
<1>4. TypeOK'
  BY <1>0, <1>1, <1>3 DEF TypeOK, WireTypeOK, wire, Written, Entry
<1>5. TableInv'
  <2>1. \A fd : Entries(fd)' = Entries(fd)
    BY <1>3 DEF Entries
  <2> QED
    BY <1>0, <1>1, <1>3, <2>1 DEF TableInv, wire
<1>6. BacklogInv'
  BY <1>0, <1>1 DEF BacklogInv, wire
<1>7. WalkInv'
  <2>1. fds'[1].in => backlog # <<>>
    <3>1. fds[1].fd = Listener /\ 1 \in 1 .. Len(fds)
      BY <1>0, TableTypes DEF TableInv, Entries
    <3> QED
      BY <1>3, <3>1, Constants DEF Readable
  <2> QED
    BY <1>0, <1>1, <2>1 DEF WalkInv, wire
<1>8. StreamInv'
  BY <1>0, <1>1 DEF StreamInv, wire
<1> QED
  BY <1>4, <1>5, <1>6, <1>7, <1>8 DEF IInv

\* Steps that only move the walk on.
LEMMA WalkOnInv == IInv /\ (Skip \/ TurnAway \/ WalkEnds \/ UNCHANGED vars) => IInv'
<1> SUFFICES ASSUME IInv, Skip \/ TurnAway \/ WalkEnds \/ UNCHANGED vars PROVE IInv'
  OBVIOUS
<1>0. TypeOK /\ TableInv /\ BacklogInv /\ WalkInv /\ StreamInv
  BY DEF IInv
<1>1. /\ UNCHANGED <<wire, fds, tasks, chosen, got, failures>>
      /\ \/ pc = "walk" /\ pc' = "walk" /\ i' = i + 1
         \/ pc' = "poll" /\ i' = 1
         \/ UNCHANGED <<pc, i>>
  BY DEF Skip, TurnAway, WalkEnds, Walking, vars, server
<1>2. i \in Nat \ {0} /\ i' \in Nat \ {0} /\ (i' = i + 1 => i' # 1)
  BY <1>0, <1>1 DEF WalkInv
<1>3. TypeOK'
  BY <1>0, <1>1, <1>2 DEF TypeOK, WireTypeOK, wire, Written
<1>4. TableInv' /\ BacklogInv' /\ StreamInv'
  BY <1>0, <1>1 DEF TableInv, Entries, BacklogInv, StreamInv, wire
<1>5. WalkInv'
  BY <1>0, <1>1, <1>2 DEF WalkInv, wire
<1> QED
  BY <1>3, <1>4, <1>5 DEF IInv

\* The entries of a descriptor are finitely many.
LEMMA EntriesFinite ==
  ASSUME TypeOK, NEW fd
  PROVE  IsFiniteSet(Entries(fd)) /\ Entries(fd) \subseteq 1 .. Len(fds)
<1>1. Len(fds) \in Nat
  BY TableTypes
<1>2. IsFiniteSet(1 .. Len(fds))
  BY <1>1, FS_Interval
<1>3. Entries(fd) \subseteq 1 .. Len(fds)
  BY DEF Entries
<1> QED
  BY <1>2, <1>3, FS_Subset

\* A new entry goes behind all others.
LEMMA AppendEntry ==
  ASSUME TypeOK, NEW d \in Clients \union {Listener, NoFd}, ~AtCapacity,
         fds' = Append(fds, [fd |-> d, in |-> FALSE])
  PROVE  /\ fds' \in Seq(Entry) /\ Len(fds') = Len(fds) + 1 /\ Len(fds') \in 1 .. MaxFds
         /\ \A k \in 1 .. Len(fds) : fds'[k] = fds[k]
         /\ fds'[Len(fds) + 1].fd = d
         /\ \A k \in 1 .. Len(fds') : k \in 1 .. Len(fds) \/ k = Len(fds) + 1
         /\ \A fd : Entries(fd)' = IF fd = d THEN Entries(fd) \union {Len(fds) + 1}
                                             ELSE Entries(fd)
<1> DEFINE e == [fd |-> d, in |-> FALSE]
<1>1. e \in Entry /\ e.fd = d
  BY DEF Entry
<1>2. Len(fds) \in Nat /\ Len(fds) < MaxFds /\ MaxFds \in Nat /\ fds \in Seq(Entry)
  BY TableTypes, Constants DEF AtCapacity
<1> HIDE DEF e
<1>3. fds' = Append(fds, e)
  BY DEF e
<1>4. /\ fds' \in Seq(Entry) /\ Len(fds') = Len(fds) + 1
      /\ \A k \in 1 .. Len(fds) : fds'[k] = fds[k]
      /\ fds'[Len(fds) + 1] = e
  BY <1>1, <1>2, <1>3, AppendProperties
<1>5. Len(fds') \in 1 .. MaxFds /\ \A k \in 1 .. Len(fds') : k \in 1 .. Len(fds) \/ k = Len(fds) + 1
  BY <1>2, <1>4
<1>6. ASSUME NEW fd
      PROVE  Entries(fd)' = IF fd = d THEN Entries(fd) \union {Len(fds) + 1} ELSE Entries(fd)
  <2>1. Entries(fd)' = {k \in 1 .. Len(fds) + 1 : fds'[k].fd = fd}
    BY <1>4 DEF Entries
  <2>2. ASSUME NEW k \in 1 .. Len(fds) + 1
        PROVE  fds'[k].fd = fd <=> k \in Entries(fd) \/ (k = Len(fds) + 1 /\ fd = d)
    <3>1. CASE k \in 1 .. Len(fds)
      BY <1>2, <1>4, <3>1 DEF Entries
    <3>2. CASE k = Len(fds) + 1
      BY <1>1, <1>2, <1>4, <3>2 DEF Entries
    <3> QED
      BY <1>2, <3>1, <3>2
  <2>3. Len(fds) + 1 \in 1 .. Len(fds) + 1 /\ Entries(fd) \subseteq 1 .. Len(fds) + 1
    BY <1>2 DEF Entries
  <2> QED
    BY <2>1, <2>2, <2>3
<1> QED
  BY <1>1, <1>4, <1>5, <1>6

\* An accept takes the oldest connection of the listener's queue into the table.
LEMMA AcceptInv == IInv /\ Accept => IInv'
<1> SUFFICES ASSUME IInv, Accept PROVE IInv'
  OBVIOUS
<1> DEFINE c == Head(backlog)
<1>0. TypeOK /\ TableInv /\ BacklogInv /\ WalkInv /\ StreamInv
  BY DEF IInv
<1>1. /\ pc = "walk" /\ i = 1 /\ fds[1].in /\ ~AtCapacity
      /\ fds' = Append(fds, [fd |-> c, in |-> FALSE])
      /\ conn' = [conn EXCEPT ![c] = "open"]
      /\ backlog' = Tail(backlog)
      /\ i' = i + 1
      /\ UNCHANGED <<up, sent, arrived, pc, tasks, chosen, got, failures>>
  BY DEF Accept, Walking
<1>2. /\ c \in Clients /\ backlog' \in Seq(Clients)
      /\ Len(backlog) \in Nat \ {0} /\ Len(backlog') = Len(backlog) - 1
      /\ \A k \in 1 .. Len(backlog') : backlog'[k] = backlog[k + 1]
      /\ c = backlog[1]
  <2>1. backlog # <<>> /\ backlog \in Seq(Clients)
    BY <1>0, <1>1 DEF WalkInv, TypeOK, WireTypeOK
  <2>2. Len(backlog) \in Nat \ {0}
    BY <2>1, EmptySeq
  <2> QED
    BY <1>1, <2>1, <2>2, HeadTailProperties
<1>3. /\ conn[c] = "backlog"
      /\ conn \in [Clients -> {"none", "backlog", "open", "closed"}]
      /\ conn' \in [Clients -> {"none", "backlog", "open", "closed"}]
      /\ \A d \in Clients : conn'[d] = IF d = c THEN "open" ELSE conn[d]
  <2>1. conn \in [Clients -> {"none", "backlog", "open", "closed"}]
    BY <1>0 DEF TypeOK, WireTypeOK
  <2>2. 1 \in 1 .. Len(backlog)
    BY <1>2
  <2>3. conn[c] = "backlog"
    BY <1>0, <1>2, <2>2 DEF BacklogInv
  <2> QED
    BY <1>1, <1>2, <2>1, <2>3
<1>4. /\ fds' \in Seq(Entry) /\ Len(fds') = Len(fds) + 1 /\ Len(fds') \in 1 .. MaxFds
      /\ \A k \in 1 .. Len(fds) : fds'[k] = fds[k]
      /\ fds'[Len(fds) + 1].fd = c
      /\ \A k \in 1 .. Len(fds') : k \in 1 .. Len(fds) \/ k = Len(fds) + 1
      /\ \A fd : Entries(fd)' = IF fd = c THEN Entries(fd) \union {Len(fds) + 1} ELSE Entries(fd)
  <2>1. c \in Clients \union {Listener, NoFd}
    BY <1>2
  <2> HIDE DEF c
  <2> QED
    BY <1>0, <1>1, <2>1, AppendEntry
<1>5. Len(fds) \in Nat
  BY <1>0, TableTypes
<1> HIDE DEF c
<1>6. TypeOK'
  <2>a. Len(backlog') <= Backlog
    <3>1. Backlog \in Nat /\ Len(backlog) <= Backlog
      BY <1>0, ClientAssumption, Zenon DEF TypeOK, WireTypeOK
    <3> QED
      BY <1>2, <3>1
  <2>1. WireTypeOK'
    BY <1>0, <1>1, <1>2, <1>3, <2>a DEF TypeOK, WireTypeOK, Written
  <2>2. i' \in Nat
    BY <1>1
  <2> QED
    BY <1>0, <1>1, <1>4, <2>1, <2>2 DEF TypeOK, Entry
<1>7. TableInv'
  <2>1. Entries(Listener)' = {1} /\ Entries(NoFd)' = Entries(NoFd)
    BY <1>0, <1>2, <1>4, Constants DEF TableInv
  <2>2. ASSUME NEW d \in Clients
        PROVE  conn'[d] = "open" <=> \E k \in 1 .. Len(fds') : fds'[k].fd = d
    <3>1. conn[d] = "open" <=> \E k \in 1 .. Len(fds) : fds[k].fd = d
      BY <1>0 DEF TableInv
    <3>2. Len(fds) + 1 \in 1 .. Len(fds') /\ 1 .. Len(fds) \subseteq 1 .. Len(fds')
      BY <1>4, <1>5
    <3>3. CASE d = c
      BY <1>3, <1>4, <3>2, <3>3
    <3>4. CASE d # c
      BY <1>3, <1>4, <3>1, <3>2, <3>4
    <3> QED
      BY <3>3, <3>4
  <2>3. ASSUME NEW j \in 1 .. Len(fds'), NEW k \in 1 .. Len(fds'),
               fds'[j].fd = fds'[k].fd, fds'[j].fd \in Clients
        PROVE  j = k
    <3>1. \A m \in 1 .. Len(fds) : fds[m].fd # c
      BY <1>0, <1>2, <1>3 DEF TableInv
    <3>2. j \in 1 .. Len(fds) /\ k \in 1 .. Len(fds) => j = k
      BY <1>0, <1>4, <2>3 DEF TableInv
    <3> QED
      BY <1>4, <2>3, <3>1, <3>2
  <2> QED
    BY <1>0, <1>1, <2>1, <2>2, <2>3 DEF TableInv
<1>8. BacklogInv'
  <2>1. \A j, k \in 1 .. Len(backlog) : backlog[j] = backlog[k] => j = k
    BY <1>0 DEF BacklogInv
  <2>2. \A k \in 1 .. Len(backlog') : k + 1 \in 1 .. Len(backlog) /\ k + 1 # 1
    BY <1>2
  <2>3. \A j, k \in 1 .. Len(backlog') : backlog'[j] = backlog'[k] => j = k
    BY <1>2, <2>1, <2>2
  <2>4. ASSUME NEW d \in Clients
        PROVE  conn'[d] = "backlog" <=> \E k \in 1 .. Len(backlog') : backlog'[k] = d
    <3>1. conn[d] = "backlog" <=> \E k \in 1 .. Len(backlog) : backlog[k] = d
      BY <1>0 DEF BacklogInv
    <3>2. CASE d = c
      <4>1. 1 \in 1 .. Len(backlog)
        BY <1>2
      <4>2. \A k \in 1 .. Len(backlog') : backlog'[k] # c
        BY <1>2, <2>1, <2>2, <4>1
      <4> QED
        BY <1>3, <3>2, <4>2
    <3>3. CASE d # c
      <4>1. \A k \in 1 .. Len(backlog) : k = 1 \/ (k - 1 \in 1 .. Len(backlog') /\ k = (k - 1) + 1)
        BY <1>2
      <4>2. \A k \in 1 .. Len(backlog) : backlog[k] = d => backlog'[k - 1] = d
        BY <1>2, <3>3, <4>1
      <4> QED
        BY <1>2, <1>3, <2>2, <3>1, <3>3, <4>1, <4>2
    <3> QED
      BY <3>2, <3>3
  <2>5. \A d \in Clients : up'[d] = "no" => conn'[d] = "none"
    BY <1>0, <1>1, <1>3 DEF BacklogInv
  <2> QED
    BY <2>3, <2>4, <2>5 DEF BacklogInv
<1>9. WalkInv'
  BY <1>0, <1>1 DEF WalkInv
<1>10. StreamInv'
  BY <1>0, <1>1, <1>3 DEF StreamInv
<1> QED
  BY <1>6, <1>7, <1>8, <1>9, <1>10 DEF IInv

\* An accept that fails leaves a dead entry.
LEMMA AcceptFailsInv == IInv /\ AcceptFails => IInv'
<1> SUFFICES ASSUME IInv, AcceptFails PROVE IInv'
  OBVIOUS
<1>0. TypeOK /\ TableInv /\ BacklogInv /\ WalkInv /\ StreamInv
  BY DEF IInv
<1>1. /\ pc = "walk" /\ i = 1 /\ ~AtCapacity
      /\ fds' = Append(fds, [fd |-> NoFd, in |-> FALSE])
      /\ failures < MaxFailures /\ failures' = failures + 1
      /\ i' = i + 1
      /\ UNCHANGED <<wire, pc, tasks, chosen, got>>
  BY DEF AcceptFails, Walking
<1>2. /\ fds' \in Seq(Entry) /\ Len(fds') = Len(fds) + 1 /\ Len(fds') \in 1 .. MaxFds
      /\ \A k \in 1 .. Len(fds) : fds'[k] = fds[k]
      /\ fds'[Len(fds) + 1].fd = NoFd
      /\ \A k \in 1 .. Len(fds') : k \in 1 .. Len(fds) \/ k = Len(fds) + 1
      /\ \A fd : Entries(fd)' = IF fd = NoFd THEN Entries(fd) \union {Len(fds) + 1}
                                             ELSE Entries(fd)
  BY <1>0, <1>1, AppendEntry
<1>3. Len(fds) \in Nat /\ MaxFailures \in Nat /\ failures \in Nat
  BY <1>0, TableTypes, Constants DEF TypeOK
<1>4. TypeOK'
  <2>1. WireTypeOK'
    BY <1>0, <1>1 DEF TypeOK, WireTypeOK, Written, wire
  <2>2. i' \in Nat /\ failures' \in 0 .. MaxFailures
    BY <1>1, <1>3
  <2> QED
    BY <1>0, <1>1, <1>2, <2>1, <2>2 DEF TypeOK, Entry
<1>5. TableInv'
  <2>1. Entries(Listener)' = {1}
    BY <1>0, <1>2, Constants DEF TableInv
  <2>2. Cardinality(Entries(NoFd)') = failures'
    <3>1. IsFiniteSet(Entries(NoFd)) /\ Len(fds) + 1 \notin Entries(NoFd)
      BY <1>0, <1>3, EntriesFinite
    <3>2. Cardinality(Entries(NoFd) \union {Len(fds) + 1}) = Cardinality(Entries(NoFd)) + 1
      BY <3>1, FS_AddElement
    <3> QED
      BY <1>0, <1>1, <1>2, <3>2 DEF TableInv
  <2>3. ASSUME NEW d \in Clients
        PROVE  conn'[d] = "open" <=> \E k \in 1 .. Len(fds') : fds'[k].fd = d
    <3>1. conn[d] = "open" <=> \E k \in 1 .. Len(fds) : fds[k].fd = d
      BY <1>0 DEF TableInv
    <3>2. 1 .. Len(fds) \subseteq 1 .. Len(fds') /\ d # NoFd
      BY <1>2, <1>3, Constants
    <3> QED
      BY <1>1, <1>2, <3>1, <3>2 DEF wire
  <2>4. ASSUME NEW j \in 1 .. Len(fds'), NEW k \in 1 .. Len(fds'),
               fds'[j].fd = fds'[k].fd, fds'[j].fd \in Clients
        PROVE  j = k
    <3>1. j \in 1 .. Len(fds) /\ k \in 1 .. Len(fds)
      BY <1>2, <2>4, Constants
    <3> QED
      BY <1>0, <1>2, <2>4, <3>1 DEF TableInv
  <2> QED
    BY <2>1, <2>2, <2>3, <2>4 DEF TableInv
<1>6. BacklogInv' /\ StreamInv'
  BY <1>0, <1>1 DEF BacklogInv, StreamInv, wire
<1>7. WalkInv'
  BY <1>0, <1>1 DEF WalkInv, wire
<1> QED
  BY <1>4, <1>5, <1>6, <1>7 DEF IInv

\* A message goes to the queue of its task, and the choice is made anew.
LEMMA ScheduleStep ==
  ASSUME TypeOK, NEW m \in [id : Ids, prio : Prios], Schedule(m)
  PROVE  /\ tasks' \in [TaskIds -> Seq(Prios)]
         /\ \A t \in TaskIds : Len(tasks'[t]) <= Depth
         /\ chosen' \in TaskIds \union {NoTask}
         /\ ChoosesFirstHighest'
         /\ \A t \in TaskIds :
              Len(tasks'[t]) = IF t = m.id /\ Len(tasks[t]) < Depth THEN Len(tasks[t]) + 1
                                                                   ELSE Len(tasks[t])
<1>0. /\ tasks \in [TaskIds -> Seq(Prios)] /\ \A t \in TaskIds : Len(tasks[t]) <= Depth
      /\ m.id \in Ids /\ m.prio \in Prios
  BY DEF TypeOK
<1>1. CASE m.id > NTasks
  <2>1. \A t \in TaskIds : t # m.id
    BY <1>0, <1>1, Constants DEF TaskIds
  <2> QED
    BY <1>0, <1>1, <2>1, Constants DEF Schedule, ChoosesFirstHighest
<1>2. CASE m.id <= NTasks
  <2> DEFINE id == m.id
             queue == IF HasRoom(tasks[id]) THEN Append(tasks[id], m.prio) ELSE tasks[id]
  <2>1. id \in TaskIds
    <3>1. m.id \in Nat /\ m.id # NTasks /\ NTasks \in Nat
      BY <1>0, Constants
    <3> QED
      BY <1>2, <3>1 DEF TaskIds
  <2>2. tasks[id] \in Seq(Prios) /\ Len(tasks[id]) \in Nat /\ Depth \in Nat
    BY <1>0, <2>1, LenProperties, Constants
  <2>3. /\ queue \in Seq(Prios) /\ Len(queue) <= Depth
        /\ Len(queue) = IF Len(tasks[id]) < Depth THEN Len(tasks[id]) + 1 ELSE Len(tasks[id])
    <3>1. CASE HasRoom(tasks[id])
      <4>1. /\ Append(tasks[id], m.prio) \in Seq(Prios)
            /\ Len(Append(tasks[id], m.prio)) = Len(tasks[id]) + 1
        BY <1>0, <2>2, AppendProperties
      <4> QED
        BY <2>2, <3>1, <4>1 DEF HasRoom
    <3>2. CASE ~HasRoom(tasks[id])
      BY <1>0, <2>1, <2>2, <3>2 DEF HasRoom
    <3> QED
      BY <3>1, <3>2
  <2>4. tasks' = [tasks EXCEPT ![id] = queue] /\ chosen' = Best(tasks')
    BY <1>0, <1>2, Constants DEF Schedule
  <2> HIDE DEF id, queue
  <2>5. /\ tasks' \in [TaskIds -> Seq(Prios)]
        /\ \A t \in TaskIds : Len(tasks'[t]) <= Depth
    BY <1>0, <2>1, <2>3, <2>4
  <2>6. /\ chosen' \in TaskIds \union {NoTask}
        /\ chosen' # NoTask => FirstHighestBelow(tasks', NTasks, chosen')
    BY <2>4, <2>5, BestIsFirstHighest
  <2>7. ChoosesFirstHighest'
    BY <2>6 DEF FirstHighestBelow, ChoosesFirstHighest, TaskIds
  <2>8. \A t \in TaskIds :
          Len(tasks'[t]) = IF t = id /\ Len(tasks[t]) < Depth THEN Len(tasks[t]) + 1
                                                              ELSE Len(tasks[t])
    BY <1>0, <2>1, <2>3, <2>4
  <2> QED
    BY <2>5, <2>6, <2>7, <2>8 DEF id
<1> QED
  <2>1. m.id \in Nat /\ NTasks \in Nat
    BY <1>0, Constants
  <2> QED
    BY <1>1, <1>2, <2>1

\* The walk has come to the entry of an open connection: what the server may read of it.
LEMMA AtConnection ==
  ASSUME TypeOK, TableInv, StreamInv, WalkInv, Walking,
         NEW c \in Clients, fds[i] = [fd |-> c, in |-> TRUE]
  PROVE  /\ conn[c] = "open" /\ i \in 1 .. Len(fds) /\ fds[i].fd = c
         /\ got[c] \in Nat /\ arrived[c] \in Nat /\ got[c] <= arrived[c]
         /\ got[c] % MessageSize = 0
         /\ BytesRead(c) \in 0 .. MessageSize /\ got[c] + BytesRead(c) <= arrived[c]
<1>1. Len(fds) \in Nat /\ i \in 1 .. Len(fds) /\ fds[i].fd = c
  BY TableTypes DEF WalkInv, Walking
<1>2. conn[c] = "open"
  BY <1>1 DEF TableInv
<1>3. got[c] \in Nat /\ arrived[c] \in Nat
  BY DEF TypeOK, WireTypeOK
<1>4. got[c] <= arrived[c] /\ got[c] % MessageSize = 0
  BY <1>2 DEF StreamInv
<1> QED
  BY <1>1, <1>2, <1>3, <1>4 DEF BytesRead, MessageSize

\* Three bytes from a place between two messages are a message that was written.
LEMMA MessageRead ==
  ASSUME NEW g \in Nat, NEW a \in Nat, NEW l \in Nat, g % 3 = 0, g + 3 <= a, a <= 3 * l
  PROVE  g \div 3 + 1 \in 1 .. l /\ (g + 3) % 3 = 0
<1>1. g = 3 * (g \div 3) /\ g \div 3 \in Nat
  OBVIOUS
<1>2. g \div 3 + 1 <= l
  BY <1>1
<1> QED
  BY <1>1, <1>2

\* A whole message is read, and the server goes on between two messages.
LEMMA ReadMessageInv == ASSUME NEW c \in Clients, IInv, ReadMessage(c)
                        PROVE  IInv' /\ ChoosesFirstHighest'
<1>0. TypeOK /\ TableInv /\ BacklogInv /\ WalkInv /\ StreamInv
  BY DEF IInv
<1> DEFINE m == sent[c][got[c] \div MessageSize + 1]
<1>1. /\ Walking /\ fds[i] = [fd |-> c, in |-> TRUE] /\ BytesRead(c) = MessageSize
      /\ got' = [got EXCEPT ![c] = got[c] + MessageSize]
      /\ Schedule(m) /\ i' = i + 1
      /\ UNCHANGED <<wire, fds, pc, failures>>
  <2>1. got[c] \in Nat
    BY <1>0 DEF TypeOK
  <2> QED
    BY <2>1 DEF ReadMessage, WholeMessage
<1>2. /\ got[c] \in Nat /\ arrived[c] \in Nat /\ got[c] % 3 = 0
      /\ got[c] + 3 <= arrived[c] /\ i \in 1 .. Len(fds)
  BY <1>0, <1>1, AtConnection DEF MessageSize
<1>3. /\ sent[c] \in Seq([id : Ids, prio : Prios]) /\ Len(sent[c]) \in Nat
      /\ arrived[c] <= 3 * Len(sent[c])
  <2>1. sent[c] \in Seq([id : Ids, prio : Prios]) /\ arrived[c] <= 3 * Len(sent[c])
    BY <1>0 DEF TypeOK, WireTypeOK, Written, MessageSize
  <2> QED
    BY <2>1, LenProperties
<1>4. got[c] \div 3 + 1 \in 1 .. Len(sent[c]) /\ (got[c] + 3) % 3 = 0
  BY <1>2, <1>3, MessageRead
<1>5. m \in [id : Ids, prio : Prios]
  BY <1>3, <1>4, ElementOfSeq DEF MessageSize
<1> HIDE DEF m
<1>6. /\ tasks' \in [TaskIds -> Seq(Prios)]
      /\ \A t \in TaskIds : Len(tasks'[t]) <= Depth
      /\ chosen' \in TaskIds \union {NoTask}
      /\ ChoosesFirstHighest'
  BY <1>0, <1>1, <1>5, ScheduleStep
<1>7. /\ got' \in [Clients -> Nat]
      /\ \A d \in Clients : got'[d] = IF d = c THEN got[c] + 3 ELSE got[d]
  <2>1. got \in [Clients -> Nat]
    BY <1>0 DEF TypeOK
  <2> QED
    BY <1>1, <2>1 DEF MessageSize
<1>8. TypeOK'
  <2>1. i' \in Nat
    BY <1>1, <1>2
  <2> QED
    BY <1>0, <1>1, <1>6, <1>7, <2>1 DEF TypeOK, WireTypeOK, wire, Written
<1>9. TableInv' /\ BacklogInv'
  BY <1>0, <1>1 DEF TableInv, Entries, BacklogInv, wire
<1>10. WalkInv'
  BY <1>0, <1>1, <1>2 DEF WalkInv, wire, Walking
<1>11. StreamInv'
  BY <1>0, <1>1, <1>2, <1>4, <1>7 DEF StreamInv, MessageSize, wire
<1> QED
  BY <1>6, <1>8, <1>9, <1>10, <1>11 DEF IInv

\* Where an entry of the shortened table was before.
Was(k, j) == IF j < k THEN j ELSE j + 1

\* The table without one entry: the others are all there, in order.
LEMMA RemoveEntry ==
  ASSUME TypeOK, NEW k \in 1 .. Len(fds), fds' = Removed(k)
  PROVE  /\ fds' \in Seq(Entry) /\ Len(fds') = Len(fds) - 1
         /\ \A j \in 1 .. Len(fds') :
              Was(k, j) \in 1 .. Len(fds) /\ Was(k, j) # k /\ fds'[j] = fds[Was(k, j)]
         /\ \A j, l \in 1 .. Len(fds') : Was(k, j) = Was(k, l) => j = l
         /\ \A m \in 1 .. Len(fds) : m # k => \E j \in 1 .. Len(fds') : m = Was(k, j)
<1>1. Len(fds) \in Nat /\ Len(fds) - 1 \in Nat /\ \A j \in 1 .. Len(fds) : fds[j] \in Entry
  BY TableTypes
<1>2. \A j \in 1 .. Len(fds) - 1 : Was(k, j) \in 1 .. Len(fds) /\ Was(k, j) # k
  BY <1>1 DEF Was
<1>3. fds' = [j \in 1 .. Len(fds) - 1 |-> fds[Was(k, j)]]
  BY DEF Removed, Was
<1>4. fds' \in [1 .. Len(fds) - 1 -> Entry]
  BY <1>1, <1>2, <1>3
<1>5. fds' \in Seq(Entry) /\ Len(fds') = Len(fds) - 1
  BY <1>1, <1>4, TableOf
<1>6. \A j, l \in 1 .. Len(fds') : Was(k, j) = Was(k, l) => j = l
  BY <1>1, <1>5 DEF Was
<1>7. ASSUME NEW m \in 1 .. Len(fds), m # k
      PROVE  \E j \in 1 .. Len(fds') : m = Was(k, j)
  <2>1. CASE m < k
    BY <1>1, <1>5, <2>1 DEF Was
  <2>2. CASE m > k
    <3>1. m - 1 \in 1 .. Len(fds') /\ m = Was(k, m - 1)
      BY <1>1, <1>5, <2>2 DEF Was
    <3> QED
      BY <3>1
  <2> QED
    BY <1>1, <1>7, <2>1, <2>2
<1> QED
  BY <1>2, <1>3, <1>5, <1>6, <1>7

\* ... so no descriptor but the removed one has fewer entries.
LEMMA RemoveCounts ==
  ASSUME TypeOK, NEW k \in 1 .. Len(fds), fds' = Removed(k), NEW fd, fd # fds[k].fd
  PROVE  Cardinality(Entries(fd)') = Cardinality(Entries(fd))
<1>0. /\ fds' \in Seq(Entry) /\ Len(fds') = Len(fds) - 1
      /\ \A j \in 1 .. Len(fds') :
           Was(k, j) \in 1 .. Len(fds) /\ Was(k, j) # k /\ fds'[j] = fds[Was(k, j)]
      /\ \A j, l \in 1 .. Len(fds') : Was(k, j) = Was(k, l) => j = l
      /\ \A m \in 1 .. Len(fds) : m # k => \E j \in 1 .. Len(fds') : m = Was(k, j)
  BY RemoveEntry
<1> DEFINE A == Entries(fd)'
           B == Entries(fd)
           f == [j \in A |-> Was(k, j)]
<1>1. A = {j \in 1 .. Len(fds') : fds'[j].fd = fd} /\ B = {j \in 1 .. Len(fds) : fds[j].fd = fd}
  BY DEF Entries
<1>2. \A j \in A : j \in 1 .. Len(fds') /\ Was(k, j) \in B
  BY <1>0, <1>1
<1>3. \A m \in B : \E j \in A : Was(k, j) = m
  <2>1. ASSUME NEW m \in B PROVE \E j \in A : Was(k, j) = m
    <3>1. m \in 1 .. Len(fds) /\ m # k
      BY <1>1
    <3>2. PICK j \in 1 .. Len(fds') : m = Was(k, j)
      BY <1>0, <3>1
    <3> QED
      BY <1>0, <1>1, <3>2
  <2> QED
    BY <2>1
<1>4. IsFiniteSet(B)
  BY EntriesFinite
<1> HIDE DEF A, B
<1>5. f \in Injection(A, B) /\ f \in Surjection(A, B)
  <2>1. f \in [A -> B]
    BY <1>2
  <2>2. \A a, b \in A : f[a] = f[b] => a = b
    BY <1>0, <1>2
  <2>3. \A b \in B : \E a \in A : f[a] = b
    BY <1>3
  <2> HIDE DEF f
  <2>4. f \in Injection(A, B)
    BY <2>1, <2>2 DEF Injection, IsInjective
  <2> QED
    BY <2>1, <2>3, <2>4 DEF Surjection
<1> HIDE DEF f
<1>6. Cardinality(A) = Cardinality(B)
  BY <1>4, <1>5, FS_Injection
<1> QED
  BY <1>6 DEF A, B

\* A connection that ends goes from the table, and nothing else does.
LEMMA DisconnectInv == ASSUME NEW c \in Clients, IInv, Disconnect(c) PROVE IInv'
<1>0. TypeOK /\ TableInv /\ BacklogInv /\ WalkInv /\ StreamInv
  BY DEF IInv
<1>1. /\ Walking /\ fds[i] = [fd |-> c, in |-> TRUE]
      /\ got' = [got EXCEPT ![c] = got[c] + BytesRead(c)]
      /\ conn' = [conn EXCEPT ![c] = "closed"]
      /\ fds' = Removed(i) /\ i' = i + 1
      /\ UNCHANGED <<up, sent, arrived, backlog, pc, tasks, chosen, failures>>
  <2>1. got[c] \in Nat
    BY <1>0 DEF TypeOK
  <2> QED
    BY <2>1 DEF Disconnect
<1>2. /\ conn[c] = "open" /\ i \in 1 .. Len(fds) /\ fds[i].fd = c
      /\ got[c] \in Nat /\ arrived[c] \in Nat
      /\ BytesRead(c) \in Nat /\ got[c] + BytesRead(c) <= arrived[c]
  <2>1. BytesRead(c) \in 0 .. MessageSize
    BY <1>0, <1>1, AtConnection
  <2>2. BytesRead(c) \in Nat
    BY <2>1 DEF MessageSize
  <2> QED
    BY <1>0, <1>1, <2>2, AtConnection
<1>3. /\ conn \in [Clients -> {"none", "backlog", "open", "closed"}]
      /\ conn' \in [Clients -> {"none", "backlog", "open", "closed"}]
      /\ \A d \in Clients : conn'[d] = IF d = c THEN "closed" ELSE conn[d]
  <2>1. conn \in [Clients -> {"none", "backlog", "open", "closed"}]
    BY <1>0 DEF TypeOK, WireTypeOK
  <2> QED
    BY <1>1, <2>1
<1>4. /\ got' \in [Clients -> Nat]
      /\ \A d \in Clients : got'[d] = IF d = c THEN got[c] + BytesRead(c) ELSE got[d]
  <2>1. got \in [Clients -> Nat]
    BY <1>0 DEF TypeOK
  <2> QED
    BY <1>1, <1>2, <2>1
<1>5. /\ fds' \in Seq(Entry) /\ Len(fds') = Len(fds) - 1
      /\ \A j \in 1 .. Len(fds') :
           Was(i, j) \in 1 .. Len(fds) /\ Was(i, j) # i /\ fds'[j] = fds[Was(i, j)]
      /\ \A j, l \in 1 .. Len(fds') : Was(i, j) = Was(i, l) => j = l
      /\ \A m \in 1 .. Len(fds) : m # i => \E j \in 1 .. Len(fds') : m = Was(i, j)
  BY <1>0, <1>1, <1>2, RemoveEntry
<1>6. Len(fds) \in Nat /\ Len(fds) <= MaxFds /\ MaxFds \in Nat /\ i # 1
  <2>1. Len(fds) \in Nat /\ Len(fds) <= MaxFds /\ MaxFds \in Nat
    BY <1>0, TableTypes, Constants
  <2>2. fds[1].fd = Listener
    BY <1>0 DEF TableInv, Entries
  <2> QED
    BY <1>2, <2>1, <2>2, Constants
<1>7. TypeOK'
  <2>1. WireTypeOK'
    BY <1>0, <1>1, <1>3 DEF TypeOK, WireTypeOK, Written
  <2>2. i' \in Nat /\ Len(fds') \in 1 .. MaxFds
    BY <1>1, <1>2, <1>5, <1>6
  <2> QED
    BY <1>0, <1>1, <1>4, <1>5, <2>1, <2>2 DEF TypeOK, Entry
<1>8. TableInv'
  <2>1. Entries(Listener)' = {1}
    <3>1. Entries(Listener) = {1}
      BY <1>0 DEF TableInv
    <3>2. \A j \in 1 .. Len(fds') : fds'[j].fd = Listener <=> Was(i, j) = 1
      BY <1>5, <3>1 DEF Entries
    <3>3. \A j \in 1 .. Len(fds') : Was(i, j) = 1 <=> j = 1
      BY <1>2, <1>5, <1>6 DEF Was
    <3>4. 1 \in 1 .. Len(fds')
      BY <1>2, <1>5, <1>6
    <3> QED
      BY <3>2, <3>3, <3>4 DEF Entries
  <2>2. Cardinality(Entries(NoFd)') = failures'
    <3>1. NoFd # fds[i].fd
      BY <1>2, Constants
    <3>2. Cardinality(Entries(NoFd)') = Cardinality(Entries(NoFd))
      BY <1>0, <1>1, <1>2, <3>1, RemoveCounts
    <3> QED
      BY <1>0, <1>1, <3>2 DEF TableInv
  <2>3. \A j, k \in 1 .. Len(fds) : fds[j].fd = fds[k].fd /\ fds[j].fd \in Clients => j = k
    BY <1>0 DEF TableInv
  <2>4. ASSUME NEW d \in Clients
        PROVE  conn'[d] = "open" <=> \E k \in 1 .. Len(fds') : fds'[k].fd = d
    <3>1. conn[d] = "open" <=> \E k \in 1 .. Len(fds) : fds[k].fd = d
      BY <1>0 DEF TableInv
    <3>2. CASE d = c
      <4>1. \A k \in 1 .. Len(fds') : fds'[k].fd # c
        BY <1>2, <1>5, <2>3
      <4> QED
        BY <1>3, <3>2, <4>1
    <3>3. CASE d # c
      <4>1. ASSUME NEW m \in 1 .. Len(fds), fds[m].fd = d
            PROVE  \E k \in 1 .. Len(fds') : fds'[k].fd = d
        <5>1. m # i
          BY <1>2, <3>3, <4>1
        <5>2. PICK k \in 1 .. Len(fds') : m = Was(i, k)
          BY <1>5, <5>1
        <5> QED
          BY <1>5, <4>1, <5>2
      <4>2. \A k \in 1 .. Len(fds') : fds'[k].fd = d => \E m \in 1 .. Len(fds) : fds[m].fd = d
        BY <1>5
      <4> QED
        BY <1>3, <3>1, <3>3, <4>1, <4>2
    <3> QED
      BY <3>2, <3>3
  <2>5. \A j, k \in 1 .. Len(fds') :
          fds'[j].fd = fds'[k].fd /\ fds'[j].fd \in Clients => j = k
    BY <1>5, <2>3
  <2> QED
    BY <2>1, <2>2, <2>4, <2>5 DEF TableInv
<1>9. BacklogInv'
  BY <1>0, <1>1, <1>2, <1>3 DEF BacklogInv
<1>10. WalkInv'
  BY <1>0, <1>1, <1>2 DEF WalkInv, Walking
<1>11. StreamInv'
  BY <1>0, <1>1, <1>2, <1>3, <1>4 DEF StreamInv
<1> QED
  BY <1>7, <1>8, <1>9, <1>10, <1>11 DEF IInv

\* The inductive invariant holds in every reachable state.
LEMMA InvariantHolds == Spec => []IInv
<1>1. IInv /\ [Next]_vars => IInv'
  <2> SUFFICES ASSUME IInv, [Next]_vars PROVE IInv'
    OBVIOUS
  <2>1. CASE Poll
    BY <2>1, PollInv
  <2>2. CASE Skip \/ TurnAway \/ WalkEnds \/ UNCHANGED vars
    BY <2>2, WalkOnInv
  <2>3. CASE Accept
    BY <2>3, AcceptInv
  <2>4. CASE AcceptFails
    BY <2>4, AcceptFailsInv
  <2>5. ASSUME NEW c \in Clients, ReadMessage(c) PROVE IInv'
    BY <2>5, ReadMessageInv
  <2>6. ASSUME NEW c \in Clients, Disconnect(c) PROVE IInv'
    BY <2>6, DisconnectInv
  <2>7. ASSUME NEW c \in Clients, Environment(c) PROVE IInv'
    BY <2>7, EnvironmentInv
  <2> QED
    BY <2>1, <2>2, <2>3, <2>4, <2>5, <2>6, <2>7 DEF Next, Server
<1> QED
  BY InitInv, <1>1, PTL DEF Spec

-----------------------------------------------------------------------------
\* The variables keep their shapes, for every number of clients, messages and tasks:
\* the table stays within MAX_POLLABLE_FDS, a queue within its depth.
THEOREM TypeCorrect == Spec => []TypeOK
<1>1. IInv => TypeOK
  BY DEF IInv
<1> QED
  BY InvariantHolds, <1>1, PTL

\* The poll table is the listener, the open connections, each once, and one dead entry
\* for each accept that failed, whatever a walk has appended and removed
\* (lines 315-331).
THEOREM TableIsRight == Spec => []TableIsOpenConnections
<1>1. IInv => TableIsOpenConnections
  <2> SUFFICES ASSUME IInv PROVE TableIsOpenConnections
    OBVIOUS
  <2>0. TypeOK /\ TableInv
    BY DEF IInv
  <2>1. Len(fds) <= MaxFds
    BY <2>0, TableTypes
  <2>2. ASSUME NEW c \in Clients
        PROVE  Cardinality(Entries(c)) = IF conn[c] = "open" THEN 1 ELSE 0
    <3>1. CASE conn[c] = "open"
      <4>1. PICK k \in 1 .. Len(fds) : fds[k].fd = c
        BY <2>0, <3>1 DEF TableInv
      <4>2. Entries(c) = {k}
        BY <2>0, <4>1 DEF TableInv, Entries
      <4> QED
        BY <3>1, <4>2, FS_Singleton
    <3>2. CASE conn[c] # "open"
      <4>1. Entries(c) = {}
        BY <2>0, <3>2 DEF TableInv, Entries
      <4> QED
        BY <3>2, <4>1, FS_EmptySet
    <3> QED
      BY <3>1, <3>2
  <2>3. Entries(Listener) = {1} /\ Cardinality(Entries(NoFd)) = failures
    BY <2>0 DEF TableInv
  <2> QED
    BY <2>1, <2>2, <2>3 DEF TableIsOpenConnections, Entries
<1> QED
  BY InvariantHolds, <1>1, PTL

\* What has been read of an open connection is whole messages, however the network
\* splits the stream (line 108).
THEOREM StreamIsFramed == Spec => []Framed
<1>1. IInv => Framed
  BY DEF IInv, StreamInv, Framed
<1> QED
  BY InvariantHolds, <1>1, PTL

\* The task chosen last is the first of those whose oldest message has the highest
\* number (lines 201-230).
THEOREM ChoiceIsFirstHighest == Spec => []ChoosesFirstHighest
<1>1. Init => ChoosesFirstHighest
  BY DEF Init, ChoosesFirstHighest
<1>2. IInv /\ ChoosesFirstHighest /\ [Next]_vars => ChoosesFirstHighest'
  <2> SUFFICES ASSUME IInv, ChoosesFirstHighest, [Next]_vars PROVE ChoosesFirstHighest'
    OBVIOUS
  <2>1. ASSUME NEW c \in Clients, ReadMessage(c) PROVE ChoosesFirstHighest'
    BY <2>1, ReadMessageInv
  <2>2. CASE UNCHANGED <<tasks, chosen>>
    BY <2>2 DEF ChoosesFirstHighest
  <2>3. (\E c \in Clients : ReadMessage(c)) \/ UNCHANGED <<tasks, chosen>>
    BY DEF Next, Server, Poll, Skip, TurnAway, Accept, AcceptFails, Disconnect, WalkEnds,
           Environment, server, vars
  <2> QED
    BY <2>1, <2>2, <2>3
<1> QED
  BY InvariantHolds, <1>1, <1>2, PTL DEF Spec
-----------------------------------------------------------------------------
(* What the queues hold of what was read. *)

\* A queue holds as many messages as were read for its task, up to its depth.
AccountInv == \A t \in TaskIds :
  /\ IsFiniteSet(ReadFor(t))
  /\ Len(tasks[t]) = IF Cardinality(ReadFor(t)) < Depth THEN Cardinality(ReadFor(t)) ELSE Depth

\* The whole messages in so many bytes: those of a shorter piece at the end do not
\* count, three more bytes make one more, and there are no more than were written.
LEMMA WholeMessages ==
  ASSUME NEW g \in Nat
  PROVE  /\ \A b \in 0 .. 2 : g % 3 = 0 => (g + b) \div 3 = g \div 3
         /\ (g + 3) \div 3 = g \div 3 + 1
         /\ \A l \in Nat : g <= 3 * l => g \div 3 <= l
         /\ g \div 3 \in Nat
OBVIOUS

\* Steps that read no message and write none over those that were read.
LEMMA NothingRead ==
  ASSUME AccountInv, UNCHANGED tasks,
         \A d \in Clients : got'[d] \div MessageSize = got[d] \div MessageSize,
         \A d \in Clients : \A k \in 1 .. MaxMessages :
           k <= got[d] \div MessageSize => sent'[d][k] = sent[d][k]
  PROVE  AccountInv'
<1>1. ASSUME NEW t \in TaskIds PROVE ReadFor(t)' = ReadFor(t)
  <2> DEFINE Pairs == Clients \X (1 .. MaxMessages)
             Is(r)  == r[2] <= got[r[1]] \div MessageSize /\ sent[r[1]][r[2]].id = t
             Now(r) == r[2] <= got'[r[1]] \div MessageSize /\ sent'[r[1]][r[2]].id = t
  <2>1. \A r \in Pairs : r[1] \in Clients /\ r[2] \in 1 .. MaxMessages
    OBVIOUS
  <2>2. ASSUME NEW r \in Pairs PROVE Is(r) <=> Now(r)
    BY <2>1
  <2>3. ReadFor(t) = {r \in Pairs : Is(r)} /\ ReadFor(t)' = {r \in Pairs : Now(r)}
    BY DEF ReadFor
  <2> HIDE DEF Is, Now, Pairs
  <2> QED
    BY <2>2, <2>3
<1> QED
  BY <1>1 DEF AccountInv

\* A client that writes goes on behind what was read.
LEMMA WriteAccounted ==
  ASSUME IInv, AccountInv, NEW c \in Clients, Environment(c)
  PROVE  AccountInv'
<1>0. TypeOK /\ StreamInv /\ MaxMessages \in Nat
  BY ClientAssumption, Zenon DEF IInv
<1>1. UNCHANGED <<tasks, got>> /\ (Client(c) \/ Deliver(c))
  BY DEF Environment, server
<1>2. /\ sent \in [Clients -> Seq([id : Ids, prio : Prios])]
      /\ \A d \in Clients : /\ sent[d] \in Seq([id : Ids, prio : Prios])
                            /\ got[d] \in Nat /\ arrived[d] \in Nat
                            /\ got[d] <= arrived[d] /\ arrived[d] <= 3 * Len(sent[d])
  BY <1>0 DEF TypeOK, WireTypeOK, StreamInv, Written, MessageSize
<1>3. \A d \in Clients : Len(sent[d]) \in Nat
  BY <1>2, LenProperties
<1>4. \A d \in Clients : got[d] \div MessageSize <= Len(sent[d]) /\ got[d] \div MessageSize \in Nat
  <2>1. \A d \in Clients : got[d] <= 3 * Len(sent[d])
    BY <1>2, <1>3
  <2> QED
    BY <1>2, <1>3, <2>1, WholeMessages DEF MessageSize
<1>5. ASSUME NEW d \in Clients, NEW k \in 1 .. MaxMessages, k <= got[d] \div MessageSize
      PROVE  sent'[d][k] = sent[d][k]
  <2>1. k \in 1 .. Len(sent[d])
    BY <1>0, <1>3, <1>4, <1>5
  <2>2. CASE Write(c)
    <3>1. PICK id \in Ids, prio \in Prios :
            sent' = [sent EXCEPT ![c] = Append(@, [id |-> id, prio |-> prio])]
      BY <2>2 DEF Write
    <3> DEFINE m == [id |-> id, prio |-> prio]
    <3>2. m \in [id : Ids, prio : Prios] /\ sent' = [sent EXCEPT ![c] = Append(sent[c], m)]
      BY <3>1
    <3> HIDE DEF m
    <3>3. sent'[d] = IF d = c THEN Append(sent[c], m) ELSE sent[d]
      BY <1>2, <3>2
    <3>4. \A j \in 1 .. Len(sent[c]) : Append(sent[c], m)[j] = sent[c][j]
      BY <1>2, <3>2, AppendProperties
    <3> QED
      BY <2>1, <3>3, <3>4
  <2>3. CASE ~Write(c)
    BY <1>1, <2>3 DEF Client, Connect, WriteFails, Close, Deliver
  <2> QED
    BY <2>2, <2>3
<1>6. \A d \in Clients : got'[d] \div MessageSize = got[d] \div MessageSize
  BY <1>1
<1>7. \A d \in Clients : \A k \in 1 .. MaxMessages :
        k <= got[d] \div MessageSize => sent'[d][k] = sent[d][k]
  BY <1>5
<1> QED
  BY <1>1, <1>6, <1>7, NothingRead

\* The piece of a message that a short read takes is not a message.
LEMMA ShortReadAccounted ==
  ASSUME IInv, AccountInv, NEW c \in Clients, Disconnect(c)
  PROVE  AccountInv'
<1>0. TypeOK /\ TableInv /\ WalkInv /\ StreamInv /\ got \in [Clients -> Nat]
  BY DEF IInv, TypeOK
<1>1. /\ Walking /\ fds[i] = [fd |-> c, in |-> TRUE] /\ BytesRead(c) # MessageSize
      /\ got' = [got EXCEPT ![c] = got[c] + BytesRead(c)]
      /\ UNCHANGED <<sent, tasks>>
  BY <1>0 DEF Disconnect, WholeMessage
<1>2. got[c] \in Nat /\ got[c] % 3 = 0 /\ BytesRead(c) \in 0 .. 2
  <2>1. got[c] \in Nat /\ got[c] % MessageSize = 0 /\ BytesRead(c) \in 0 .. MessageSize
    BY <1>0, <1>1, AtConnection
  <2> QED
    BY <1>1, <2>1 DEF MessageSize
<1>3. ASSUME NEW d \in Clients PROVE got'[d] \div MessageSize = got[d] \div MessageSize
  <2>1. got'[d] = IF d = c THEN got[c] + BytesRead(c) ELSE got[d]
    BY <1>0, <1>1
  <2>2. (got[c] + BytesRead(c)) \div 3 = got[c] \div 3
    BY <1>2, WholeMessages
  <2> QED
    BY <2>1, <2>2 DEF MessageSize
<1>4. \A d \in Clients : \A k \in 1 .. MaxMessages :
        k <= got[d] \div MessageSize => sent'[d][k] = sent[d][k]
  BY <1>1
<1> QED
  BY <1>1, <1>3, <1>4, NothingRead

\* A whole message adds one to the messages of its task, and to the queue if there is
\* room; a message for no task adds to none.
LEMMA ReadAccounted ==
  ASSUME IInv, AccountInv, NEW c \in Clients, ReadMessage(c)
  PROVE  AccountInv'
<1> DEFINE g == got[c] \div MessageSize
           m == sent[c][g + 1]
           new == <<c, g + 1>>
<1>0. /\ TypeOK /\ TableInv /\ WalkInv /\ StreamInv /\ got \in [Clients -> Nat]
      /\ MaxMessages \in Nat /\ Depth \in Nat
  BY ClientAssumption, Constants, Zenon DEF IInv, TypeOK
<1>1. /\ Walking /\ fds[i] = [fd |-> c, in |-> TRUE] /\ BytesRead(c) = MessageSize
      /\ got' = [got EXCEPT ![c] = got[c] + MessageSize]
      /\ Schedule(m) /\ UNCHANGED sent
  BY <1>0 DEF ReadMessage, WholeMessage, wire
<1>2. /\ got[c] \in Nat /\ arrived[c] \in Nat /\ got[c] % 3 = 0 /\ got[c] + 3 <= arrived[c]
  BY <1>0, <1>1, AtConnection DEF MessageSize
<1>3. /\ sent[c] \in Seq([id : Ids, prio : Prios]) /\ Len(sent[c]) \in Nat
      /\ arrived[c] <= 3 * Len(sent[c]) /\ Len(sent[c]) <= MaxMessages
  <2>1. /\ sent[c] \in Seq([id : Ids, prio : Prios]) /\ arrived[c] <= 3 * Len(sent[c])
        /\ Len(sent[c]) <= MaxMessages
    BY <1>0 DEF TypeOK, WireTypeOK, Written, MessageSize
  <2> QED
    BY <2>1, LenProperties
<1>4. g \in Nat /\ g + 1 \in 1 .. Len(sent[c]) /\ g + 1 \in 1 .. MaxMessages
  <2>1. got[c] \div 3 + 1 \in 1 .. Len(sent[c])
    BY <1>2, <1>3, MessageRead
  <2>2. got[c] \div 3 \in Nat
    BY <1>2, WholeMessages
  <2>3. got[c] \div 3 = g
    BY DEF MessageSize
  <2> HIDE DEF g
  <2> QED
    BY <1>0, <1>3, <2>1, <2>2, <2>3
<1>5. m \in [id : Ids, prio : Prios]
  BY <1>3, <1>4, ElementOfSeq
<1>6. \A d \in Clients :
        got'[d] \div MessageSize = IF d = c THEN g + 1 ELSE got[d] \div MessageSize
  <2>1. \A d \in Clients : got'[d] = IF d = c THEN got[c] + 3 ELSE got[d]
    BY <1>0, <1>1 DEF MessageSize
  <2>2. (got[c] + 3) \div 3 = got[c] \div 3 + 1
    BY <1>2, WholeMessages
  <2> QED
    BY <2>1, <2>2 DEF MessageSize
<1> HIDE DEF g, m
<1>7. \A t \in TaskIds :
        Len(tasks'[t]) = IF t = m.id /\ Len(tasks[t]) < Depth THEN Len(tasks[t]) + 1
                                                             ELSE Len(tasks[t])
  BY <1>0, <1>1, <1>5, ScheduleStep
<1>8. ASSUME NEW t \in TaskIds
      PROVE  ReadFor(t)' = IF t = m.id THEN ReadFor(t) \union {new} ELSE ReadFor(t)
  <2> DEFINE Pairs == Clients \X (1 .. MaxMessages)
             Is(r)  == r[2] <= got[r[1]] \div MessageSize /\ sent[r[1]][r[2]].id = t
             Now(r) == r[2] <= got'[r[1]] \div MessageSize /\ sent'[r[1]][r[2]].id = t
  <2>1. new \in Pairs /\ new[1] = c /\ new[2] = g + 1
    BY <1>4
  <2>2. \A r \in Pairs : /\ r[1] \in Clients /\ r[2] \in 1 .. MaxMessages
                         /\ (r[1] = c /\ r[2] = g + 1 => r = new)
    OBVIOUS
  <2> HIDE DEF new
  <2>3. ASSUME NEW r \in Pairs PROVE Now(r) <=> Is(r) \/ (r = new /\ t = m.id)
    <3>1. CASE r[1] = c
      <4>1. r[2] <= g + 1 <=> r[2] <= g \/ r = new
        BY <1>4, <2>1, <2>2, <3>1
      <4>2. r = new => sent[r[1]][r[2]].id = m.id
        BY <2>1 DEF m
      <4>3. got[r[1]] \div MessageSize = g /\ got'[r[1]] \div MessageSize = g + 1
        BY <1>6, <3>1 DEF g
      <4> QED
        BY <1>1, <4>1, <4>2, <4>3
    <3>2. CASE r[1] # c
      BY <1>1, <1>6, <2>1, <2>2, <3>2
    <3> QED
      BY <3>1, <3>2
  <2>4. ReadFor(t) = {r \in Pairs : Is(r)} /\ ReadFor(t)' = {r \in Pairs : Now(r)}
    BY DEF ReadFor
  <2> HIDE DEF Is, Now, Pairs
  <2>5. CASE t = m.id
    BY <2>1, <2>3, <2>4, <2>5
  <2>6. CASE t # m.id
    BY <2>3, <2>4, <2>6
  <2> QED
    BY <2>5, <2>6
<1>9. ASSUME NEW t \in TaskIds
      PROVE  /\ IsFiniteSet(ReadFor(t)')
             /\ Len(tasks'[t]) = IF Cardinality(ReadFor(t)') < Depth
                                 THEN Cardinality(ReadFor(t)') ELSE Depth
  <2> DEFINE R == ReadFor(t)
  <2>0. /\ IsFiniteSet(R) /\ Cardinality(R) \in Nat
        /\ Len(tasks[t]) = IF Cardinality(R) < Depth THEN Cardinality(R) ELSE Depth
    BY FS_CardinalityType DEF AccountInv
  <2>a. new \notin R
    BY <1>4 DEF ReadFor, g
  <2> HIDE DEF R, new
  <2>1. CASE t = m.id
    <3>1. IsFiniteSet(R \union {new}) /\ Cardinality(R \union {new}) = Cardinality(R) + 1
      BY <2>0, <2>a, FS_AddElement
    <3>2. ReadFor(t)' = R \union {new}
      BY <1>8, <2>1 DEF R
    <3> QED
      BY <1>0, <1>7, <2>0, <2>1, <3>1, <3>2
  <2>2. CASE t # m.id
    <3>1. ReadFor(t)' = R
      BY <1>8, <2>2 DEF R
    <3> QED
      BY <1>7, <2>0, <2>2, <3>1
  <2> QED
    BY <2>1, <2>2
<1> QED
  BY <1>9 DEF AccountInv

\* A task's queue holds as many messages as were read for it until it is full, and its
\* depth from then on (line 201), for every number of connections and messages, depth
\* and split of the streams.
THEOREM DropsOnlyWhenFull == Spec => []DroppedOnlyWhenFull
<1>1. Init => AccountInv
  <2> SUFFICES ASSUME Init PROVE AccountInv
    OBVIOUS
  <2>1. ASSUME NEW t \in TaskIds PROVE ReadFor(t) = {} /\ Len(tasks[t]) = 0
    BY DEF Init, WireInit, ReadFor, MessageSize
  <2> QED
    BY <2>1, FS_EmptySet, Constants DEF AccountInv
<1>2. IInv /\ AccountInv /\ [Next]_vars => AccountInv'
  <2> SUFFICES ASSUME IInv, AccountInv, [Next]_vars PROVE AccountInv'
    OBVIOUS
  <2>1. ASSUME NEW c \in Clients, ReadMessage(c) PROVE AccountInv'
    BY <2>1, ReadAccounted
  <2>2. ASSUME NEW c \in Clients, Disconnect(c) PROVE AccountInv'
    BY <2>2, ShortReadAccounted
  <2>3. ASSUME NEW c \in Clients, Environment(c) PROVE AccountInv'
    BY <2>3, WriteAccounted
  <2>4. CASE UNCHANGED <<sent, tasks, got>>
    BY <2>4 DEF AccountInv, ReadFor
  <2>5. \/ \E c \in Clients : ReadMessage(c) \/ Disconnect(c) \/ Environment(c)
        \/ UNCHANGED <<sent, tasks, got>>
    BY DEF Next, Server, Poll, Skip, TurnAway, Accept, AcceptFails, WalkEnds, wire, server, vars
  <2> QED
    BY <2>1, <2>2, <2>3, <2>4, <2>5
<1>3. AccountInv => DroppedOnlyWhenFull
  BY DEF AccountInv, DroppedOnlyWhenFull
<1> QED
  BY InvariantHolds, <1>1, <1>2, <1>3, PTL DEF Spec
=============================================================================
