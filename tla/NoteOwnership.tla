---------------------------- MODULE NoteOwnership ----------------------------
(***************************************************************************)
(* What the reservation layer promises to the planners that choose input   *)
(* notes: a note is free, or held by exactly one operation, or spent for   *)
(* good; an operation takes its inputs together and gives back together    *)
(* whatever has not been spent meanwhile.                                  *)
(***************************************************************************)
CONSTANTS Note,   \* the wallet's notes
          Op,     \* the operations (transfers, withdraws, payroll chunks)
          Free,   \* the holder of a note nobody holds
          Spent   \* the holder of a note the chain has consumed

VARIABLE holder   \* holder[n]: who has note n

Holder == Op \cup {Free, Spent}

TypeOK == holder \in [Note -> Holder]

Init == holder = [n \in Note |-> Free]

(* o takes the notes N, all of them free, holding nothing before. *)
Acquire(o, N) ==
  /\ N # {}
  /\ \A n \in Note : holder[n] # o
  /\ \A n \in N : holder[n] = Free
  /\ holder' = [n \in Note |-> IF n \in N THEN o ELSE holder[n]]

(* o gives back every note it still holds. *)
GiveBack(o) ==
  holder' = [n \in Note |-> IF holder[n] = o THEN Free ELSE holder[n]]

(* The chain is seen to have consumed S, whoever holds them. *)
Spend(S) ==
  holder' = [n \in Note |-> IF n \in S THEN Spent ELSE holder[n]]

Next ==
  \/ \E o \in Op : (\E N \in SUBSET Note : Acquire(o, N)) \/ GiveBack(o)
  \/ \E S \in SUBSET Note : Spend(S)

Spec == Init /\ [][Next]_holder
==============================================================================
