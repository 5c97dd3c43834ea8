-------------------------- MODULE RequestSimulator --------------------------
(***************************************************************************)
(* ros_request_simulator.c: a client that connects to the simulator of the *)
(* executor, writes a number of three-byte messages, and closes; with the  *)
(* TCP connection in between.                                              *)
(*                                                                         *)
(* TCP keeps the order of the bytes and nothing else: the bytes of a       *)
(* message may arrive one at a time, or with those of the next message.    *)
(***************************************************************************)
EXTENDS Integers, Sequences, FiniteSets

CONSTANTS
  Clients,     \* the runs of the client, one connection each: any number
  Ids,         \* callback identifiers in messages
  Prios,       \* priorities in messages
  MaxMessages, \* messages a client writes: 10 in the code
  Backlog      \* connections that may wait for accept: listen(sock_listen, 10)

MessageSize == 3

ASSUME ClientAssumption ==
  /\ Ids \subseteq 0 .. 255
  /\ Prios \subseteq 0 .. 255
  /\ MaxMessages \in Nat
  /\ Backlog \in Nat \ {0}

VARIABLES
  up,       \* the client's end: "no" before it connects, "up", "down"
  sent,     \* the [id, prio] messages the client has written
  arrived,  \* how many of their bytes have arrived at the server
  conn,     \* the server's end: "none", "backlog", "open", "closed"
  backlog   \* connections the listener has not accepted, oldest first

wire == <<up, sent, arrived, conn, backlog>>

WireInit ==
  /\ up = [c \in Clients |-> "no"]
  /\ sent = [c \in Clients |-> <<>>]
  /\ arrived = [c \in Clients |-> 0]
  /\ conn = [c \in Clients |-> "none"]
  /\ backlog = <<>>

Written(c) == MessageSize * Len(sent[c])

\* The server sees the end of the stream: the client has closed and every byte has
\* arrived.
Ended(c) == up[c] = "down" /\ arrived[c] = Written(c)

\* get_connected_socket: the kernel completes the connection before it is accepted.
\* While the listener's queue is full, connect waits.
Connect(c) ==
  /\ up[c] = "no"
  /\ Len(backlog) < Backlog
  /\ up' = [up EXCEPT ![c] = "up"]
  /\ conn' = [conn EXCEPT ![c] = "backlog"]
  /\ backlog' = Append(backlog, c)
  /\ UNCHANGED <<sent, arrived>>

\* Also to a connection the server has closed: the kernel takes what it cannot know to
\* be lost.
Write(c) ==
  /\ up[c] = "up"
  /\ Len(sent[c]) < MaxMessages
  /\ \E id \in Ids, prio \in Prios :
       sent' = [sent EXCEPT ![c] = Append(@, [id |-> id, prio |-> prio])]
  /\ UNCHANGED <<up, arrived, conn, backlog>>

\* Writing to a connection known to be closed: SIGPIPE ends the client.
WriteFails(c) ==
  /\ up[c] = "up" /\ conn[c] = "closed"
  /\ Len(sent[c]) < MaxMessages
  /\ up' = [up EXCEPT ![c] = "down"]
  /\ UNCHANGED <<sent, arrived, conn, backlog>>

Close(c) ==
  /\ up[c] = "up"
  /\ Len(sent[c]) = MaxMessages
  /\ up' = [up EXCEPT ![c] = "down"]
  /\ UNCHANGED <<sent, arrived, conn, backlog>>

\* The network delivers some of the bytes under way.
Deliver(c) ==
  /\ conn[c] # "closed"
  /\ \E n \in arrived[c] + 1 .. Written(c) : arrived' = [arrived EXCEPT ![c] = n]
  /\ UNCHANGED <<up, sent, conn, backlog>>

Client(c) == Connect(c) \/ Write(c) \/ WriteFails(c) \/ Close(c)

WireTypeOK ==
  /\ up \in [Clients -> {"no", "up", "down"}]
  /\ sent \in [Clients -> Seq([id : Ids, prio : Prios])]
  /\ arrived \in [Clients -> Nat]
  /\ \A c \in Clients : arrived[c] <= Written(c) /\ Len(sent[c]) <= MaxMessages
  /\ conn \in [Clients -> {"none", "backlog", "open", "closed"}]
  /\ backlog \in Seq(Clients) /\ Len(backlog) <= Backlog
=============================================================================
