----------------------------- MODULE MCBroadcast -----------------------------
(***************************************************************************)
(* Instances of EvmBroadcast, and so of CosmosBroadcast: one wallet with a *)
(* Cosmos payment o1, an EVM payment o2, and a Cosmos payment o3 the       *)
(* application asks for more than once.                                    *)
(***************************************************************************)
EXTENDS EvmBroadcast, TLC

CONSTANTS n1, n2, o1, o2, o3, t1, t2, t3, m1, m2

Asked == {o3} \cap Op
OnEvm == {o2} \cap Op

(* t1 and t3 are calls of the session m1, t2 of m2.                        *)
Session == [t \in Task |-> IF t = t2 THEN m2 ELSE m1]

AnyNote == Permutations(Note)

------------------------------------------------------------------------------
(* Histories that are small in one way each.                               *)

Only(O) == \A o \in Op \ O : Inputs(o) = {}
Idle(t) == pc[t] = "idle"
Apart(m) == claim[m] = {} /\ \A o \in Op, n \in Note : lease[o][n].owner # m

OneNote == \E n \in Note : spent \subseteq {n} /\ \A o \in Op : Inputs(o) \subseteq {n}
OneTx == \A o \in Op, t \in Task : net[o][2] = "unsent" /\ tx[t] < 2
Ours == spent # {} => \E o \in Op, k \in Tx : net[o][k] = "included"
NoOperator == \A o \in Op, n \in Note : "operator_approved" \notin evidence[o][n]

(* a payment of two notes, two sessions with a call each *)
TwoNotes == Only({o1}) /\ Idle(t3) /\ OneTx

(* two calls of one session for the same payment, without an operator; its *)
(* note is not spent by anybody else                                       *)
SameCall == Only({o3}) /\ OneNote /\ Idle(t2) /\ Apart(m2) /\ NoOperator /\ Ours

(* an EVM payment, two calls in one session or in two *)
EvmCalls == Only({o2}) /\ OneNote /\ (Idle(t3) \/ (Idle(t2) /\ Apart(m2)))

(* two payments over two transports that want one note, which nobody else   *)
(* spends, one call at a time, one of them too late; an operator's word     *)
(* excuses a payment, so nothing follows it                                 *)
OneLate == \A o, p \in expired : o = p
TwoPayments ==
  /\ Only({o1, o2}) /\ OneNote /\ OneTx /\ Ours /\ OneLate /\ NoOperator
  /\ Idle(t2) /\ Idle(t3) /\ Apart(m2)

(* a payment refused on a second call and the one that then takes its note, *)
(* by one call, while nothing is spent, expired or recorded as sent        *)
Undecided ==
  /\ spent = {} /\ expired = {}
  /\ \A o \in Op, n \in Note : status[o][n] \in
       {"NoRecord", "Reserved", "Proving", "ProofReady", "ReplanRequired"}
RefusedFirst ==
  Inputs(o1) # {} =>
    Idle(t3) /\ \A n \in Inputs(o1) : "broadcast_rejected" \in evidence[o3][n]
RefusedTwice ==
  Only({o1, o3}) /\ OneNote /\ OneTx /\ Idle(t2) /\ Apart(m2) /\ Undecided /\ RefusedFirst

SmallInOneWay == TwoNotes \/ SameCall \/ EvmCalls \/ TwoPayments \/ RefusedTwice
==============================================================================
