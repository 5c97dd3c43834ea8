-------------------------------- MODULE Heap --------------------------------
(***************************************************************************)
(* What the header of the static allocator promises: a request is granted  *)
(* a stretch of memory of its own, header unit included, and gets NULL     *)
(* only when it asks for nothing or no free stretch is long enough.        *)
(***************************************************************************)
EXTENDS Integers

CONSTANTS Cap,      \* units that can be handed out, numbered 1 .. Cap
          Unit,     \* bytes in a unit
          Requests, \* sizes callers ask for, in bytes
          NULL

VARIABLES used,     \* the stretches held by callers: [first, len]
          result    \* the last call and its outcome: [asked, got]

vars == <<used, result>>

\* Units a request of this many bytes occupies.
Need(bytes) == (bytes + Unit - 1) \div Unit + 1

Extent(a, n) == a .. a + n - 1

Fits(a, n) ==
  /\ Extent(a, n) \subseteq 1 .. Cap
  /\ \A u \in used : Extent(a, n) \intersect Extent(u.first, u.len) = {}

\* A call for so many bytes, or a release (NULL), and what it returned: a stretch or
\* NULL, 0 or -1.
Returns(asked, got) == result' = [asked |-> asked, got |-> got]

Init == used = {} /\ result = [asked |-> NULL, got |-> 0]

Grant(bytes) == \E a \in 1 .. Cap :
  /\ bytes # 0
  /\ Fits(a, Need(bytes))
  /\ used' = used \union {[first |-> a, len |-> Need(bytes)]}
  /\ Returns(bytes, a)

Refuse(bytes) ==
  /\ bytes = 0 \/ \A a \in 1 .. Cap : ~Fits(a, Need(bytes))
  /\ Returns(bytes, NULL)
  /\ UNCHANGED used

Release == \E u \in used :
  /\ used' = used \ {u}
  /\ Returns(NULL, 0)

\* Freeing the NULL pointer fails.
ReleaseNull == Returns(NULL, -1) /\ UNCHANGED used

Next == (\E bytes \in Requests : Grant(bytes) \/ Refuse(bytes)) \/ Release \/ ReleaseNull

Spec == Init /\ [][Next]_vars
=============================================================================
