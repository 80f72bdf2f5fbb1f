-------------------------- MODULE MCIndexedDbStore --------------------------
(***************************************************************************)
(* Instances of IndexedDbStore: two operations reserve the same note, and  *)
(* the first one's reservation is released.                                *)
(***************************************************************************)
EXTENDS IndexedDbStore

CONSTANTS t1, t2, t3, tab1, tab2, reserve1, reserve2, release1

TwoTabs == [t \in Task |-> IF t = t3 THEN tab2 ELSE tab1]

OneNote(c, s) ==
  CASE c = reserve1 -> reserve2 \notin s
    [] c = reserve2 -> reserve1 \notin s \/ release1 \in s
    [] c = release1 -> reserve1 \in s
==============================================================================
