\* Two owners that start on top of each other, a guest and a reader; one object for
\* each program that can have one open, and one for the name.
CONSTANTS
  Owners = {o1, o2}
  Guests = {g}
  Readers = {r}
  Objects = {m1, m2, m3, m4, m5}
  NULL = NULL
SYMMETRY Symmetry
SPECIFICATION Spec
INVARIANT TypeOK
INVARIANT OwnerUndisturbed
INVARIANT NameGoesWithOwners
PROPERTY LeftBehindForGood
