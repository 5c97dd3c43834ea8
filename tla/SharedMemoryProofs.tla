------------------------- MODULE SharedMemoryProofs -------------------------
(***************************************************************************)
(* What SharedMemory promises, for any number of programs and objects.     *)
(***************************************************************************)
EXTENDS SharedMemory, TLAPS

\* A program has an object open exactly from its shm_open to its end, and goes only
\* where its kind of program goes.
Places ==
  \A p \in Programs :
    /\ pc[p] \in {"off", "open"} => fd[p] = NULL
    /\ pc[p] \in {"write", "unlink"} => p \in Owners
    /\ pc[p] \in {"stat", "read"} => p \in Readers

\* What nobody can reach has no contents.
Reclaimed == \A o \in Unused : ~sized[o] /\ text[o] = NULL

\* Without root one program at most has the object open: an owner, and under its name.
Alone ==
  ~privileged => \A p \in Programs : fd[p] # NULL =>
    /\ p \in Owners
    /\ named = fd[p]
    /\ \A q \in Programs \ {p} : fd[q] = NULL

\* An owner that is past ftruncate has a sized object, past its sprintf a written one.
Prepared ==
  ~privileged => \A p \in Owners :
    /\ pc[p] \in {"map", "write"} => sized[fd[p]]
    /\ pc[p] \in {"wait", "unlink"} => text[fd[p]] = p

\* While nothing went wrong there is an owner on its way to unlink the name.
Attended ==
  clean /\ named # NULL => \E p \in Owners : pc[p] \notin {"off", "open"}

IInv == TypeOK /\ Places /\ Reclaimed /\ Alone /\ Prepared /\ Attended

-----------------------------------------------------------------------------
\* Before the first program starts there is no name and no object with contents.
LEMMA InitInv == Init => IInv
BY SharedMemoryAssumption DEF Init, IInv, TypeOK, Places, Reclaimed, Unused, Alone,
   Prepared, Attended, Programs

\* The end of a program, which keeps the name or, with the object open, removes it, leaves the rest in order.
LEMMA EndsKeeps ==
  ASSUME IInv, NEW p \in Programs, NEW w \in {named, NULL}, w = named \/ fd[p] # NULL,
         Ends(p, w)
  PROVE  /\ named' \in Objects \union {NULL}
         /\ sized' \in [Objects -> BOOLEAN]
         /\ text' \in [Objects -> Owners \union {NULL}]
         /\ pc' = [pc EXCEPT ![p] = "off"]
         /\ fd' = [fd EXCEPT ![p] = NULL]
         /\ Places' /\ Reclaimed'
         /\ privileged' = privileged => Alone' /\ Prepared'
<1> USE DEF IInv
<1>1. /\ named' \in Objects \union {NULL}
      /\ sized' \in [Objects -> BOOLEAN]
      /\ text' \in [Objects -> Owners \union {NULL}]
      BY DEF Ends, TypeOK
<1>2. pc' = [pc EXCEPT ![p] = "off"] /\ fd' = [fd EXCEPT ![p] = NULL]
      BY DEF Ends
<1>3. Places'
      BY DEF Ends, TypeOK, Places
<1>4. Reclaimed'
  <2> SUFFICES ASSUME NEW o \in Unused' PROVE ~sized'[o] /\ text'[o] = NULL
      BY DEF Reclaimed
  <2>1. o \in Objects /\ o # w /\ \A q \in Programs \ {p} : fd[q] # o
        BY DEF Unused, Ends, TypeOK
  <2> QED BY <2>1 DEF Ends
<1>5. ASSUME privileged' = privileged PROVE Alone'
  <2> SUFFICES ASSUME ~privileged, NEW q \in Programs, fd'[q] # NULL
               PROVE  /\ q \in Owners
                      /\ named' = fd'[q]
                      /\ \A s \in Programs \ {q} : fd'[s] = NULL
      BY <1>5 DEF Alone
  <2>1. q # p /\ fd'[q] = fd[q]
        BY DEF Ends, TypeOK
  <2>2. q \in Owners /\ named = fd[q] /\ \A s \in Programs \ {q} : fd[s] = NULL
        BY <2>1 DEF Alone
  <2>3. fd[p] = NULL /\ named' = named
        BY <2>1, <2>2 DEF Ends
  <2> QED BY <2>1, <2>2, <2>3 DEF Ends, TypeOK
<1>6. ASSUME privileged' = privileged PROVE Prepared'
  <2> SUFFICES ASSUME ~privileged, NEW q \in Owners
               PROVE  /\ pc'[q] \in {"map", "write"} => sized'[fd'[q]]
                      /\ pc'[q] \in {"wait", "unlink"} => text'[fd'[q]] = q
      BY <1>6 DEF Prepared
  <2>1. CASE q = p
        BY <2>1 DEF Ends, TypeOK
  <2>2. CASE q # p /\ pc[q] \notin {"off", "open"}
    <3>1. q \in Programs \ {p} /\ fd[q] \in Objects
          BY <2>2 DEF TypeOK, Programs
    <3>2. pc'[q] = pc[q] /\ fd'[q] = fd[q]
          BY <3>1 DEF Ends, TypeOK
    <3>3. sized'[fd[q]] = sized[fd[q]] /\ text'[fd[q]] = text[fd[q]]
          BY <3>1 DEF Ends, TypeOK
    <3> QED BY <3>2, <3>3 DEF Prepared
  <2>3. CASE q # p /\ pc[q] \in {"off", "open"}
        BY <2>3 DEF Ends, TypeOK, Programs
  <2> QED BY <2>1, <2>2, <2>3
<1> QED BY <1>1, <1>2, <1>3, <1>4, <1>5, <1>6

\* Each step of a program keeps the invariant.
LEMMA NextInv == IInv /\ [Next]_vars => IInv'
<1> SUFFICES ASSUME IInv, [Next]_vars PROVE IInv'
    OBVIOUS
<1> USE SharedMemoryAssumption DEF IInv
<1>1. CASE UNCHANGED vars
      BY <1>1 DEF vars, TypeOK, Places, Reclaimed, Unused, Alone, Prepared, Attended
<1>2. ASSUME NEW p \in Programs, Start(p) PROVE IInv'
  <2>1. TypeOK'
        BY <1>2 DEF Start, Goes, objects, modes, TypeOK
  <2>2. Places' /\ Reclaimed' /\ Alone'
        BY <1>2 DEF Start, Goes, objects, modes, TypeOK, Places, Reclaimed, Unused, Alone
  <2>3. Prepared' /\ Attended'
        BY <1>2 DEF Start, Goes, objects, modes, TypeOK, Prepared, Attended, Programs
  <2> QED BY <2>1, <2>2, <2>3
<1>3. ASSUME NEW p \in Programs, Create(p) PROVE IInv'
  <2> PICK o \in Unused : named' = o /\ fd' = [fd EXCEPT ![p] = o] /\ Emptied(o)
      BY <1>3 DEF Create
  <2>1. TypeOK' /\ Places'
        BY <1>3 DEF Create, Goes, modes, Emptied, Unused, TypeOK, Places, Programs
  <2>2. Reclaimed'
        BY <1>3 DEF Create, Goes, Emptied, Unused, TypeOK, Places, Reclaimed
  <2>3. Alone'
        BY <1>3 DEF Create, modes, Unused, TypeOK, Alone
  <2>4. Prepared'
    <3> SUFFICES ASSUME ~privileged, NEW q \in Owners, q # p
                 PROVE  pc[q] \in {"off", "open"}
        BY <1>3 DEF Create, Goes, modes, TypeOK, Prepared, Programs
    <3> QED BY <1>3 DEF Create, TypeOK, Alone, Programs
  <2>5. Attended'
        BY <1>3 DEF Create, Goes, TypeOK, Attended
  <2> QED BY <2>1, <2>2, <2>3, <2>4, <2>5
<1>4. ASSUME NEW p \in Programs, Open(p) PROVE IInv'
  <2>1. privileged /\ privileged' /\ named \in Objects /\ named' = named
        BY <1>4 DEF Open, MayOpen, modes, TypeOK
  <2>2. TypeOK' /\ Places'
        BY <1>4, <2>1 DEF Open, Goes, modes, Emptied, TypeOK, Places, Programs
  <2>3. Reclaimed'
        BY <1>4, <2>1 DEF Open, Goes, Emptied, Unused, TypeOK, Places, Reclaimed
  <2>4. Alone' /\ Prepared'
        BY <2>1 DEF Alone, Prepared
  <2>5. Attended'
    <3>1. \A q \in Programs : pc[q] \notin {"off", "open"} => pc'[q] = pc[q]
          BY <1>4 DEF Open, Goes, TypeOK
    <3> QED BY <1>4, <2>1, <3>1 DEF Open, modes, Attended, Programs
  <2> QED BY <2>2, <2>3, <2>4, <2>5
<1>5. ASSUME NEW p \in Programs, OpenFails(p) PROVE IInv'
  <2>1. Ends(p, named) /\ UNCHANGED modes /\ pc[p] = "open"
        BY <1>5 DEF OpenFails
  <2>2. TypeOK' /\ Places' /\ Reclaimed' /\ Alone' /\ Prepared'
        BY <2>1, EndsKeeps DEF modes, TypeOK
  <2>3. Attended'
        BY <2>1 DEF Ends, modes, TypeOK, Attended, Programs
  <2> QED BY <2>2, <2>3
<1>6. ASSUME NEW p \in Programs, Resize(p) PROVE IInv'
  <2>1. fd[p] \in Objects
        BY <1>6 DEF Resize, Goes, TypeOK
  <2>2. TypeOK' /\ Places' /\ Alone'
        BY <1>6, <2>1 DEF Resize, Goes, modes, TypeOK, Places, Alone, Programs
  <2>3. Reclaimed'
        BY <1>6, <2>1 DEF Resize, Unused, TypeOK, Reclaimed
  <2>4. Prepared'
        BY <1>6, <2>1 DEF Resize, Goes, modes, TypeOK, Prepared, Programs
  <2>5. Attended'
        BY <1>6 DEF Resize, Goes, modes, TypeOK, Attended, Programs
  <2> QED BY <2>2, <2>3, <2>4, <2>5
<1>7. ASSUME NEW p \in Programs, Map(p) PROVE IInv'
  <2>1. TypeOK' /\ Places' /\ Alone' /\ Reclaimed'
        BY <1>7 DEF Map, Goes, objects, modes, TypeOK, Places, Alone, Reclaimed, Unused
  <2>2. PICK to \in {"write", "wait"} :
          pc' = [pc EXCEPT ![p] = to] /\ (p \in Owners => to = "write")
        BY <1>7 DEF Map, Goes
  <2>3. Prepared'
        BY <1>7, <2>2 DEF Map, Goes, objects, modes, TypeOK, Prepared, Programs
  <2>4. Attended'
        BY <1>7, <2>2 DEF Map, Goes, objects, modes, TypeOK, Attended, Programs
  <2> QED BY <2>1, <2>3, <2>4
<1>8. ASSUME NEW p \in Programs, Write(p) PROVE IInv'
  <2>1. fd[p] \in Objects /\ p \in Owners
        BY <1>8 DEF Write, Goes, TypeOK, Places
  <2>2. TypeOK' /\ Places' /\ Alone'
        BY <1>8, <2>1 DEF Write, Goes, modes, TypeOK, Places, Alone, Programs
  <2>3. Reclaimed'
        BY <1>8, <2>1 DEF Write, Unused, TypeOK, Reclaimed
  <2>4. Prepared'
    <3> SUFFICES ASSUME ~privileged, NEW q \in Owners, q # p
                 PROVE  pc[q] \in {"off", "open"}
        BY <1>8, <2>1 DEF Write, Goes, modes, TypeOK, Prepared, Programs
    <3> QED BY <2>1 DEF TypeOK, Alone, Programs
  <2>5. Attended'
        BY <1>8 DEF Write, Goes, modes, TypeOK, Attended, Programs
  <2> QED BY <2>2, <2>3, <2>4, <2>5
<1>9. ASSUME NEW p \in Programs, Unmap(p) PROVE IInv'
  <2>1. CASE p \in Owners
    <3>1. TypeOK' /\ Places' /\ Alone' /\ Reclaimed'
          BY <1>9, <2>1 DEF Unmap, Goes, objects, modes, TypeOK, Places, Alone, Reclaimed, Unused
    <3>2. Prepared' /\ Attended'
          BY <1>9, <2>1 DEF Unmap, Goes, objects, modes, TypeOK, Prepared, Attended, Programs
    <3> QED BY <3>1, <3>2
  <2>2. CASE p \notin Owners
    <3>1. Ends(p, named) /\ UNCHANGED modes
          BY <1>9, <2>2 DEF Unmap
    <3>2. TypeOK' /\ Places' /\ Reclaimed' /\ Alone' /\ Prepared'
          BY <3>1, EndsKeeps DEF modes, TypeOK
    <3>3. Attended'
          BY <2>2, <3>1 DEF Ends, modes, TypeOK, Attended, Programs
    <3> QED BY <3>2, <3>3
  <2> QED BY <2>1, <2>2
<1>10. ASSUME NEW p \in Programs, Unlink(p) PROVE IInv'
  <2>1. Ends(p, NULL) /\ UNCHANGED modes /\ fd[p] # NULL
        BY <1>10 DEF Unlink, TypeOK
  <2>2. TypeOK' /\ Places' /\ Reclaimed' /\ Alone' /\ Prepared'
        BY <2>1, EndsKeeps DEF modes, TypeOK
  <2>3. Attended'
        BY <2>1 DEF Ends, Attended
  <2> QED BY <2>2, <2>3
<1>11. ASSUME NEW p \in Programs, Stat(p) PROVE IInv'
  <2>1. p \in Readers /\ fd[p] \in Objects
        BY <1>11 DEF Stat, Goes, TypeOK, Places
  <2>2. TypeOK' /\ Places' /\ Alone' /\ Reclaimed'
        BY <1>11, <2>1 DEF Stat, Goes, objects, TypeOK, Places, Alone, Reclaimed, Unused, Programs
  <2>3. Prepared' /\ Attended'
        BY <1>11, <2>1 DEF Stat, Goes, objects, TypeOK, Prepared, Attended, Programs
  <2> QED BY <2>2, <2>3
<1>12. ASSUME NEW p \in Programs, MapRead(p) PROVE IInv'
  <2>1. CASE length[p]
    <3>1. TypeOK' /\ Places' /\ Alone' /\ Reclaimed'
          BY <1>12, <2>1 DEF MapRead, Goes, objects, modes, TypeOK, Places, Alone, Reclaimed, Unused
    <3>2. Prepared' /\ Attended'
          BY <1>12, <2>1 DEF MapRead, Goes, objects, modes, TypeOK, Prepared, Attended, Programs
    <3> QED BY <3>1, <3>2
  <2>2. CASE ~length[p]
    <3>1. Ends(p, named) /\ UNCHANGED modes /\ p \notin Owners
          BY <1>12, <2>2 DEF MapRead
    <3>2. TypeOK' /\ Places' /\ Reclaimed' /\ Alone' /\ Prepared'
          BY <3>1, EndsKeeps DEF modes, TypeOK
    <3>3. Attended'
          BY <3>1 DEF Ends, modes, TypeOK, Attended, Programs
    <3> QED BY <3>2, <3>3
  <2> QED BY <2>1, <2>2
<1>13. ASSUME NEW p \in Programs, Read(p) PROVE IInv'
  <2>1. Ends(p, named) /\ UNCHANGED modes /\ p \notin Owners
        BY <1>13 DEF Read, Places
  <2>2. TypeOK' /\ Places' /\ Reclaimed' /\ Alone' /\ Prepared'
        BY <2>1, EndsKeeps DEF modes, TypeOK
  <2>3. Attended'
        BY <2>1 DEF Ends, modes, TypeOK, Attended, Programs
  <2> QED BY <2>2, <2>3
<1>14. ASSUME NEW p \in Programs, CallFails(p) \/ Killed(p) PROVE IInv'
  <2>1. Ends(p, named) /\ clean' = FALSE /\ UNCHANGED <<length, privileged>>
        BY <1>14 DEF CallFails, Killed
  <2>2. TypeOK' /\ Places' /\ Reclaimed' /\ Alone' /\ Prepared'
        BY <2>1, EndsKeeps DEF TypeOK
  <2>3. Attended'
        BY <2>1 DEF Attended
  <2> QED BY <2>2, <2>3
<1> QED
    BY <1>1, <1>2, <1>3, <1>4, <1>5, <1>6, <1>7, <1>8, <1>9, <1>10, <1>11, <1>12, <1>13,
       <1>14
    DEF Next, Mapping, Unmapping, Reader

-----------------------------------------------------------------------------
\* The invariant, for every number of programs and objects.
THEOREM InvariantHolds == Spec => []IInv
BY InitInv, NextInv, PTL DEF Spec

\* The variables keep their shapes: whoever is past shm_open has the object open.
THEOREM TypeCorrect == Spec => []TypeOK
BY InvariantHolds, PTL DEF IInv

\* Without root nobody gets at the memory of a running owner, nor at its name.
THEOREM OwnersAreUndisturbed == Spec => []OwnerUndisturbed
<1>1. IInv => OwnerUndisturbed
      BY DEF IInv, Alone, Prepared, OwnerUndisturbed, Programs
<1> QED BY <1>1, InvariantHolds, PTL

\* While nothing went wrong, the last owner takes the name away.
THEOREM NamesGoWithOwners == Spec => []NameGoesWithOwners
<1>1. IInv => NameGoesWithOwners
      BY DEF IInv, Attended, NameGoesWithOwners
<1> QED BY <1>1, InvariantHolds, PTL

\* Without root, a name that nobody attends to stays, with its object.
THEOREM WhatIsLeftStays == Spec => LeftBehindForGood
<1>1. IInv /\ [Next]_vars =>
        [ ~privileged /\ named # NULL /\ (\A p \in Programs : fd[p] = NULL)
            => UNCHANGED <<named, sized, text, fd>> ]_vars
  <2> SUFFICES ASSUME IInv, Next, ~privileged, named # NULL,
                      \A p \in Programs : fd[p] = NULL
               PROVE  UNCHANGED <<named, sized, text, fd>>
      OBVIOUS
  <2> USE DEF IInv, TypeOK
  <2>1. PICK p \in Programs : Start(p) \/ OpenFails(p) \/ CallFails(p) \/ Killed(p)
        BY DEF Next, Mapping, Unmapping, Reader, Create, Open, MayOpen, Resize, Map, Write,
           Unmap, Unlink, Stat, MapRead, Read, Goes
  <2>2. CASE Start(p)
        BY <2>2 DEF Start, objects
  <2>3. CASE Ends(p, named)
    <3>1. fd' = fd /\ named' = named
          BY <2>3 DEF Ends
    <3>2. \A o \in Objects : o # named => ~sized[o] /\ text[o] = NULL
          BY SharedMemoryAssumption DEF Reclaimed, Unused
    <3>3. \A o \in Objects : sized'[o] = sized[o] /\ text'[o] = text[o]
          BY <2>3, <3>2 DEF Ends
    <3>4. sized' = sized /\ text' = text
          BY <2>3, <3>3 DEF Ends
    <3> QED BY <3>1, <3>4
  <2> QED BY <2>1, <2>2, <2>3 DEF OpenFails, CallFails, Killed
<1> QED BY <1>1, InvariantHolds, PTL DEF Spec, LeftBehindForGood
=============================================================================
