------------------------------ MODULE Dispatch ------------------------------
(***************************************************************************)
(* What an executor promises to the callbacks handed to it, with no word   *)
(* about processes, signals or memory: an accepted callback waits for its  *)
(* task; a task runs one callback at a time, in the order of acceptance,   *)
(* each once.  Nothing is said of which task goes first: a promise about   *)
(* priorities does not survive the races of the prototype.                 *)
(***************************************************************************)
EXTENDS Naturals, Sequences

CONSTANTS Tasks,       \* the tasks
          Requests,    \* identities of callbacks
          QueueDepth   \* callbacks that can wait for a task

VARIABLES waiting,     \* callbacks accepted for each task, not yet begun
          active,      \* the callback each task is running, or 0
          done         \* callbacks that have completed

vars == <<waiting, active, done>>

Init ==
  /\ waiting = [t \in Tasks |-> <<>>]
  /\ active = [t \in Tasks |-> 0]
  /\ done = {}

Known == done \union {active[t] : t \in Tasks}
              \union UNION {{waiting[t][k] : k \in 1 .. Len(waiting[t])} : t \in Tasks}

\* Only a request that has not been seen before is accepted.
Accept(t, r) ==
  /\ r \notin Known
  /\ Len(waiting[t]) < QueueDepth
  /\ waiting' = [waiting EXCEPT ![t] = Append(@, r)]
  /\ UNCHANGED <<active, done>>

Begin(t) ==
  /\ active[t] = 0
  /\ waiting[t] # <<>>
  /\ active' = [active EXCEPT ![t] = Head(waiting[t])]
  /\ waiting' = [waiting EXCEPT ![t] = Tail(@)]
  /\ UNCHANGED done

Complete(t) ==
  /\ active[t] # 0
  /\ done' = done \union {active[t]}
  /\ active' = [active EXCEPT ![t] = 0]
  /\ UNCHANGED waiting

Next == \E t \in Tasks :
  \/ \E r \in Requests : Accept(t, r)
  \/ Begin(t)
  \/ Complete(t)

Spec == Init /\ [][Next]_vars
=============================================================================
