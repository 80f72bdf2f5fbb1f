----------------------------- MODULE AtomicStore -----------------------------
(***************************************************************************)
(* What a reservation store owes the sessions that share it: every call    *)
(* takes effect at one instant, on the state all calls before it have      *)
(* made, or not at all.                                                    *)
(***************************************************************************)
CONSTANTS Call,           \* the calls that may change the state
          Accepts(_, _)   \* Accepts(c, s): call c does not throw on state s

VARIABLE value   \* the calls that took effect

Init == value = {}

Perform(c) == Accepts(c, value) /\ value' = value \cup {c}

Next == \E c \in Call : Perform(c)

Spec == Init /\ [][Next]_value
==============================================================================
