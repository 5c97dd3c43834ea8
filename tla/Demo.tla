-------------------------------- MODULE Demo --------------------------------
(***************************************************************************)
(* The thread pause demo (demo.c): a thread counts primes while the main   *)
(* thread suspends and continues it at a menu.  g_mutex guards g_pid, by   *)
(* which the menu knows that there is a thread to suspend.                 *)
(*                                                                         *)
(* A suspended thread takes no step, wherever it is, until it is continued *)
(* (pthread_suspend_np and pthread_continue_np of FreeBSD).  Both threads  *)
(* print, and printf holds the lock of stdout while it does.               *)
(***************************************************************************)
EXTENDS Integers, FiniteSets

CONSTANTS Limit,  \* how far the routine counts, 50000000 in the code
          Stride, \* after how many numbers it prints, 10000000 in the code
          Nobody

ASSUME DemoAssumption ==
  Limit \in Nat /\ Stride \in Nat \ {0} /\ Nobody \notin {"routine", "menu"}

VARIABLES
  g_mutex,   \* whose sem_wait has taken the semaphore, or Nobody
  g_pid,     \* has the routine announced itself (g_pid # -1)
  routine,   \* where the thread is
  i, sum,    \* its locals
  suspended, \* the system's view of the thread
  menu,      \* where the main thread is
  n,         \* the menu's choice: the last number that was read
  text       \* the input begins with something that is no number

vars == <<g_mutex, g_pid, routine, i, sum, suspended, menu, n, text>>

menuVars    == <<menu, n, text>>
routineVars == <<routine, i, sum>>

\* 1 pauses, 2 continues, any other number (here 0) leaves.
Numbers == {0, 1, 2}

-----------------------------------------------------------------------------
\* The greatest integer whose square is at most p.
RootOf(p) == CHOOSE r \in 0 .. p : r * r <= p /\ p < (r + 1) * (r + 1)

\* Mutant: the root is rounded down and the bound excludes it.
FirstUntried(p) == RootOf(p)

\* The first number the loop of isPrime does not try.
Root(p) == 1 + RootOf(p)

\* isPrime: odd divisors from 3 up to the root.
IsPrime(p) ==
  IF p = 1 THEN 0
  ELSE IF p = 2 THEN 1
  ELSE IF p % 2 = 0 THEN 0
  ELSE IF \E d \in 3 .. Root(p) - 1 : d % 2 = 1 /\ p % d = 0 THEN 0
  ELSE 1

-----------------------------------------------------------------------------
\* The menu's n is read before it was ever written when the first line typed is no
\* number: it may be anything.
Init ==
  /\ g_mutex = Nobody /\ g_pid = FALSE
  /\ routine = "begin" /\ i = 0 /\ sum = 0
  /\ suspended = FALSE
  /\ menu = "prompt" /\ n \in Numbers /\ text = FALSE

Wait(who) == g_mutex = Nobody /\ g_mutex' = who
Post      == g_mutex' = Nobody

\* The routine is in one of its printfs between the critical sections (lines 47, 52).
\* What it prints inside of them, and what the menu prints, is one step.
Printing   == routine \in {"percent", "done"}
StdoutFree == ~Printing

\* A step of the routine, which is not suspended, from one place to another.
Moves(from, to) == ~suspended /\ routine = from /\ routine' = to

\* Mutant: the semaphore is not given back.
AnnounceKeepingMutex ==
  \/ Moves("begin", "announce") /\ Wait("routine") /\ UNCHANGED g_pid
  \/ Moves("announce", "announced") /\ g_pid' = TRUE /\ UNCHANGED g_mutex
  \/ Moves("announced", "count") /\ UNCHANGED <<g_pid, g_mutex>>

Announce ==
  \/ /\ Moves("begin", "announce") /\ Wait("routine")
     /\ UNCHANGED g_pid
  \/ /\ Moves("announce", "announced")
     /\ g_pid' = TRUE /\ UNCHANGED g_mutex
  \/ /\ Moves("announced", "count") /\ Post
     /\ UNCHANGED g_pid

\* Line 46: is the percentage printed before i is tried.
Percent == i % Stride = 0

\* Mutant: one number too many is tried.
CountTooFar ==
  /\ \/ ~Percent /\ Moves("count", "count")
     \/ Moves("add", "count")
  /\ i <= Limit
  /\ sum' = sum + IsPrime(i)
  /\ i' = i + 1

\* The rest of an iteration.
Count ==
  /\ \/ ~Percent /\ Moves("count", "count")
     \/ Moves("add", "count")
  /\ i < Limit
  /\ sum' = sum + IsPrime(i)
  /\ i' = i + 1

\* The printf of an iteration, and the one after the loop.
Report ==
  \/ Percent /\ i < Limit /\ Moves("count", "percent")
  \/ Moves("percent", "add")
  \/ i >= Limit /\ Moves("count", "done")
  \/ Moves("done", "finish")

Finish ==
  \/ /\ Moves("finish", "withdraw") /\ Wait("routine")
     /\ UNCHANGED g_pid
  \/ /\ Moves("withdraw", "withdrawn")
     /\ g_pid' = FALSE /\ UNCHANGED g_mutex
  \/ /\ Moves("withdrawn", "ended") /\ Post
     /\ UNCHANGED g_pid

Routine ==
  \/ (Announce \/ Finish) /\ UNCHANGED <<i, sum, suspended, menuVars>>
  \/ Count /\ UNCHANGED <<g_mutex, g_pid, suspended, menuVars>>
  \/ Report /\ UNCHANGED <<i, sum, g_mutex, g_pid, suspended, menuVars>>

-----------------------------------------------------------------------------
\* What the choice leads to.
Chosen(k) == CASE k = 1 -> "pause" [] k = 2 -> "resume" [] OTHER -> "join"

\* scanf: a number replaces n; text is left in the input, where every later scanf
\* finds it again, and n keeps its value.
Prompt ==
  /\ menu = "prompt"
  /\ \/ ~text /\ n' \in Numbers /\ UNCHANGED text
     \/ text' = TRUE /\ UNCHANGED n
  /\ menu' = Chosen(n')
  /\ UNCHANGED <<g_mutex, g_pid, suspended>>

\* Mutant: the pause asks for the announcement without taking the semaphore.
LockForgotten(from, to) ==
  /\ menu = from /\ menu' = to
  /\ UNCHANGED <<g_mutex, g_pid, suspended>>

Lock(from, to) ==
  /\ menu = from /\ menu' = to
  /\ Wait("menu")
  /\ UNCHANGED <<g_pid, suspended>>

\* pthread_suspend_np or pthread_continue_np, when the routine has announced itself.
Switch(from, to, value) ==
  /\ menu = from /\ menu' = to
  /\ suspended' = IF g_pid THEN value ELSE suspended
  /\ UNCHANGED <<g_mutex, g_pid>>

\* Mutant: the function returns without giving the semaphore back.
UnlockForgotten(from) ==
  /\ menu = from /\ menu' = "say"
  /\ UNCHANGED <<g_mutex, g_pid, suspended>>

Unlock(from) ==
  /\ menu = from /\ menu' = "say"
  /\ Post
  /\ UNCHANGED <<g_pid, suspended>>

\* Lines 146 and 151, and then the prompt of line 141.
Say ==
  /\ menu = "say" /\ StdoutFree
  /\ menu' = "prompt"
  /\ UNCHANGED <<g_mutex, g_pid, suspended>>

Pause  == Lock("pause", "suspend") \/ Switch("suspend", "paused", TRUE) \/ Unlock("paused")
Resume == Lock("resume", "continue") \/ Switch("continue", "resumed", FALSE) \/ Unlock("resumed")

\* pthread_join, and the end of main.
Join ==
  /\ menu = "join" /\ routine = "ended"
  /\ menu' = "done"
  /\ UNCHANGED <<g_mutex, g_pid, suspended>>

\* The menu's steps that wait for nobody's keyboard.
Obey == (Pause \/ Resume \/ Say \/ Join) /\ UNCHANGED <<n, text, routineVars>>

Menu == (Prompt /\ UNCHANGED routineVars) \/ Obey

Next == Routine \/ Menu

\* The system runs every thread that can run; the user need not type.
Fairness == WF_vars(Routine) /\ WF_vars(Obey)

Spec == Init /\ [][Next]_vars /\ Fairness

-----------------------------------------------------------------------------
Inside == {"announce", "announced", "withdraw", "withdrawn"}
Between == {"count", "percent", "add", "done", "finish"}
AtMutex == {"suspend", "paused", "continue", "resumed"}

\* Shapes of the variables.
TypeOK ==
  /\ g_mutex \in {"routine", "menu", Nobody}
  /\ g_pid \in BOOLEAN
  /\ routine \in {"begin", "ended"} \union Between \union Inside
  /\ i \in 0 .. Limit /\ sum \in 0 .. Limit
  /\ suspended \in BOOLEAN
  /\ menu \in {"prompt", "say", "pause", "resume", "join", "done"} \union AtMutex
  /\ n \in Numbers
  /\ text \in BOOLEAN

\* The routine is never suspended while it has the semaphore, nor before it begins
\* or after it has ended, when its identifier may belong to no thread: the menu
\* suspends it holding g_mutex, and asks g_pid first (demo.c:66-74).
SuspendedBetween == suspended => g_pid /\ routine \in Between /\ g_mutex # "routine"

\* A thread that is suspended and continued at any time still counts the primes
\* below i (lines 22-33, 45-50).
CountsPrimes ==
  sum = Cardinality({p \in 2 .. i - 1 : \A d \in 2 .. p - 1 : p % d # 0})

\* The menu comes back after every choice but leaving, unless it has suspended the
\* routine in the middle of a printf (lines 47, 52): then the menu's own printf waits
\* for good.  The semaphore is never taken by a thread that cannot go on (lines 66, 80).
MenuComesBack ==
  menu \in {"pause", "resume"} ~> menu = "prompt" \/ (suspended /\ Printing)

\* Who leaves the menu with the routine running sees the program end (line 168);
\* with the routine suspended it waits for good.
JoinsWhatRuns == menu = "join" /\ ~suspended ~> menu = "done"
=============================================================================
