---------------------------- MODULE SharedMemory ----------------------------
(***************************************************************************)
(* Programs that share memory by name: ros_exec_shm.c and the programs     *)
(* that call it (ros_shm_2.c, the executor), or do the same by hand        *)
(* (ros_shm.c, shm_read.c).  An owner makes the object, sizes it, maps it, *)
(* and unlinks it in the end; a guest and a reader map what is there.      *)
(*                                                                         *)
(* Any call may fail, and any program may be killed at any time and be     *)
(* started again: the executor never leaves its loop, so it ends no other  *)
(* way.  What is left of a program that ended is the name of its object.   *)
(***************************************************************************)
EXTENDS FiniteSets

CONSTANTS
  Owners,   \* programs that map with is_owner
  Guests,   \* programs that map without
  Readers,  \* shm_read
  Objects,  \* shared memory objects the kernel can make
  NULL

Programs == Owners \union Guests \union Readers

ASSUME SharedMemoryAssumption ==
  /\ Owners \intersect (Guests \union Readers) = {} /\ Guests \intersect Readers = {}
  /\ NULL \notin Objects \union Programs

VARIABLES
  named,      \* the object the name refers to, or NULL
  sized,      \* does an object have its full size (or none)
  text,       \* who has written the text in an object, or NULL
  pc,         \* the next system call of each program, "off" when it does not run
  fd,         \* the object a program has open, or NULL
  length,     \* is the length a reader is about to map more than 0
  privileged, \* do the programs run as root
  clean       \* history: no call has failed for want of resources, no program was killed

vars    == <<named, sized, text, pc, fd, length, privileged, clean>>
objects == <<named, sized, text>>
modes   == <<length, privileged, clean>>

Init ==
  /\ named = NULL
  /\ sized = [o \in Objects |-> FALSE]
  /\ text = [o \in Objects |-> NULL]
  /\ pc = [p \in Programs |-> "off"]
  /\ fd = [p \in Programs |-> NULL]
  /\ length = [r \in Readers |-> FALSE]
  /\ privileged \in BOOLEAN
  /\ clean = TRUE

\* The kernel keeps an object while it has its name or somebody has it open.
Unused == Objects \ ({named} \union {fd[p] : p \in Programs})

Goes(p, from, to) == pc[p] = from /\ pc' = [pc EXCEPT ![p] = to]

\* The program ends and the kernel closes what it had open and mapped; the name is n
\* from now on, and the contents of an object that nobody can reach any more are lost.
Ends(p, n) ==
  /\ pc' = [pc EXCEPT ![p] = "off"]
  /\ fd' = [fd EXCEPT ![p] = NULL]
  /\ named' = n
  /\ LET kept == {n} \union {fd[q] : q \in Programs \ {p}} IN
     /\ sized' = [o \in Objects |-> o \in kept /\ sized[o]]
     /\ text' = [o \in Objects |-> IF o \in kept THEN text[o] ELSE NULL]

\* The object is empty: it has just been made, or O_TRUNC has cut it.
Emptied(o) ==
  /\ sized' = [sized EXCEPT ![o] = FALSE]
  /\ text' = [text EXCEPT ![o] = NULL]

-----------------------------------------------------------------------------
Start(p) ==
  /\ Goes(p, "off", "open")
  /\ UNCHANGED <<objects, fd, modes>>

\* Mutant: the object is made with mode 0600.
OwnerMayOpen == TRUE

\* The object was made with mode 0, which lets nobody but root open it again.
MayOpen == privileged

\* shm_open with O_CREAT, when there is no object of that name.
Create(p) ==
  /\ p \in Owners /\ named = NULL
  /\ Goes(p, "open", "resize")
  /\ \E o \in Unused :
       /\ named' = o
       /\ fd' = [fd EXCEPT ![p] = o]
       /\ Emptied(o)
  /\ UNCHANGED modes

\* shm_open of an object that is there.  O_TRUNC empties it, whoever else uses it.
Open(p) ==
  /\ named # NULL /\ MayOpen
  /\ Goes(p, "open", IF p \in Readers THEN "stat" ELSE "resize")
  /\ fd' = [fd EXCEPT ![p] = named]
  /\ IF p \in Owners THEN Emptied(named) ELSE UNCHANGED <<sized, text>>
  /\ UNCHANGED <<named, modes>>

\* Mutant: the result of shm_open is not checked.
OpenFailsUnseen(p) ==
  /\ pc[p] = "open"
  /\ IF named = NULL THEN p \notin Owners ELSE ~MayOpen
  /\ Goes(p, "open", IF p \in Readers THEN "stat" ELSE "resize")
  /\ UNCHANGED <<objects, fd, modes>>

\* ENOENT and EACCES.
OpenFails(p) ==
  /\ pc[p] = "open"
  /\ IF named = NULL THEN p \notin Owners ELSE ~MayOpen
  /\ Ends(p, named)
  /\ UNCHANGED modes

\* ftruncate, by guests as well: what an object gains reads as zeroes.
Resize(p) ==
  /\ Goes(p, "resize", "map")
  /\ sized' = [sized EXCEPT ![fd[p]] = TRUE]
  /\ UNCHANGED <<named, text, fd, modes>>

\* mmap succeeds whatever the size of the object.
Map(p) ==
  /\ p \notin Readers
  /\ Goes(p, "map", IF p \in Owners THEN "write" ELSE "wait")
  /\ UNCHANGED <<objects, fd, modes>>

\* The owner writes its text, and waits for its user.
Write(p) ==
  /\ Goes(p, "write", "wait")
  /\ sized[fd[p]]
  /\ text' = [text EXCEPT ![fd[p]] = p]
  /\ UNCHANGED <<named, sized, fd, modes>>

\* munmap.  The descriptor stays open until the program ends.
Unmap(p) ==
  /\ pc[p] = "wait"
  /\ IF p \in Owners THEN Goes(p, "wait", "unlink") /\ UNCHANGED <<objects, fd>>
                    ELSE Ends(p, named)
  /\ UNCHANGED modes

\* Mutant: the name is left to the next owner.
UnlinkForgotten(p) ==
  /\ pc[p] = "unlink"
  /\ Ends(p, named)
  /\ UNCHANGED modes

\* shm_unlink removes the name, whichever object it refers to by now, or none.
Unlink(p) ==
  /\ pc[p] = "unlink"
  /\ Ends(p, NULL)
  /\ UNCHANGED modes

\* fstat.
Stat(p) ==
  /\ Goes(p, "stat", "map")
  /\ length' = [length EXCEPT ![p] = sized[fd[p]]]
  /\ UNCHANGED <<objects, fd, privileged, clean>>

\* mmap of no bytes is an error.
MapRead(p) ==
  /\ p \in Readers /\ pc[p] = "map"
  /\ IF length[p] THEN Goes(p, "map", "read") /\ UNCHANGED <<objects, fd>>
                  ELSE Ends(p, named)
  /\ UNCHANGED modes

\* The reader prints the text, unmaps the memory and ends.
Read(p) ==
  /\ pc[p] = "read" /\ sized[fd[p]]
  /\ Ends(p, named)
  /\ UNCHANGED modes

\* A call fails: map_shared_memory and unmap_shared_memory return, and their caller
\* ends, with nothing undone.
CallFails(p) ==
  /\ pc[p] \in {"open", "resize", "map", "wait", "unlink"}
  /\ Ends(p, named)
  /\ clean' = FALSE
  /\ UNCHANGED <<length, privileged>>

\* Also what the kernel does to a program that touches memory behind the end of its
\* object (SIGBUS).
Killed(p) ==
  /\ pc[p] # "off"
  /\ Ends(p, named)
  /\ clean' = FALSE
  /\ UNCHANGED <<length, privileged>>

Mapping(p) == Create(p) \/ Open(p) \/ OpenFails(p) \/ Resize(p) \/ Map(p)

Unmapping(p) == Unmap(p) \/ Unlink(p)

Reader(p) == Stat(p) \/ MapRead(p) \/ Read(p)

Next == \E p \in Programs :
  \/ Start(p) \/ Mapping(p) \/ Write(p) \/ Unmapping(p) \/ Reader(p)
  \/ CallFails(p) \/ Killed(p)

Spec == Init /\ [][Next]_vars

-----------------------------------------------------------------------------
\* Shapes of the variables.
TypeOK ==
  /\ named \in Objects \union {NULL}
  /\ sized \in [Objects -> BOOLEAN]
  /\ text \in [Objects -> Owners \union {NULL}]
  /\ pc \in [Programs -> {"off", "open", "resize", "map", "write", "wait", "unlink",
                          "stat", "read"}]
  /\ fd \in [Programs -> Objects \union {NULL}]
  /\ length \in [Readers -> BOOLEAN]
  /\ privileged \in BOOLEAN /\ clean \in BOOLEAN
  /\ \A p \in Programs : pc[p] \notin {"off", "open"} => fd[p] # NULL

\* Mode 0 (ros_exec_shm.c:8) keeps an owner's memory to itself: for anybody but root
\* nobody else has it open, truncates it (line 13) or takes its name away (line 56)
\* from its making to its end, and what the owner has written stays.
OwnerUndisturbed ==
  ~privileged => \A p \in Owners : fd[p] # NULL =>
    /\ named = fd[p]
    /\ \A q \in Programs \ {p} : fd[q] = NULL
    /\ pc[p] = "write" => sized[fd[p]]
    /\ pc[p] \in {"wait", "unlink"} => text[fd[p]] = p

\* Unless a call failed or a program was killed, the name goes with the last owner:
\* even where root starts owners on top of each other and one unlinks the name
\* another has just made (lines 13, 56).
NameGoesWithOwners ==
  clean /\ (\A p \in Owners : pc[p] = "off") => named = NULL

\* What a killed owner, or one whose ftruncate or mmap failed (lines 23, 29), leaves
\* behind stays for good where nobody is root: no program opens it again, and none
\* removes it, so that the executor cannot be started any more.
LeftBehindForGood ==
  [][ ~privileged /\ named # NULL /\ (\A p \in Programs : fd[p] = NULL)
        => UNCHANGED <<named, sized, text, fd>> ]_vars
=============================================================================
