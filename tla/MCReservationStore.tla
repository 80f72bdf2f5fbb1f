------------------------- MODULE MCReservationStore -------------------------
(***************************************************************************)
(* Instances of ReservationStore for TLC.  Each is explored in regions:    *)
(* histories that stay small in one way and are free in the others.        *)
(***************************************************************************)
EXTENDS ReservationStore, TLC, FiniteSets

(* Notes and managers are interchangeable; so are the operations of        *)
(* MCContention, of which none uses the EVM or carries success evidence.   *)
Symmetry == Permutations(Note) \cup Permutations(Manager)
SymmetryWithOps == Symmetry \cup Permutations(Op)

Used == {o \in Op : Linked(o) # {}}
Signed(o) ==
  UNION {{broadcast[o][n].bytes, broadcast[o][n].submitted} : n \in Note} \ {0}

(* MCContention: two operations, with one transaction each, neither sign   *)
(* doc, payload hash nor local relayer, which MCLifecycle follows in full, *)
(* and two pieces of evidence between them; or one operation that may be   *)
(* signed twice.                                                           *)
PlainBoundary ==
  \A o \in Op, n \in Note :
    LET b == broadcast[o][n] IN ~b.signDoc /\ ~b.local /\ b.payload = 0

TwoTags ==
  Cardinality({<<o, tag>> \in Op \X Tag : \E n \in Note : tag \in evidence[o][n]}) <= 2

TwoOperationsOrOneInFull ==
  \/ Cardinality(Used) <= 1
  \/ PlainBoundary /\ TwoTags /\ \A o \in Op : Signed(o) \subseteq {1}
==============================================================================
