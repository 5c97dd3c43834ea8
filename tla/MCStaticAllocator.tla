-------------------------- MODULE MCStaticAllocator --------------------------
(***************************************************************************)
(* A small memory for TLC: blocks of two, three and four units in seven.   *)
(***************************************************************************)
EXTENDS StaticAllocator

\* With a unit of four bytes: nothing, one unit (least and most), two, and three.
Sizes == {0, 1, 4, 5, 12}
=============================================================================
