----------------------------- MODULE MCExecutor -----------------------------
(***************************************************************************)
(* Instances of the executor for TLC: two children and the task without a  *)
(* process (`n_tasks' = 3).                                                *)
(***************************************************************************)
EXTENDS Executor

AnyTask == {0, 1, 2, 4}   \* the task without a process, and one the bound check rejects
OneTask == {0}
TwoTasks == {0, 1}

\* Two priorities to compare, at the ends of what is stored: line 259 makes 0 of 255,
\* and 255 (as an uint8_t) of -256.
LowHigh == {255, -256}
=============================================================================
