------------------------ MODULE IndexedDbStoreProofs ------------------------
(***************************************************************************)
(* With the Web Lock, IndexedDbStore implements AtomicStore, for any       *)
(* number of tabs and calls and whatever the calls do: proofs for TLAPS.   *)
(***************************************************************************)
EXTENDS IndexedDbStore, TLAPS

(* The part of TypeOK the argument needs; the order in which queue and     *)
(* waiting let the tasks in does not matter to it.                         *)
Ranges ==
  /\ db \in Stored
  /\ pc \in [Task -> Phase]
  /\ call \in [Task -> Call \cup {List}]
  /\ snapshot \in [Task -> SUBSET Call]

(* What a task inside the callback knows.  A task that resets has seen a   *)
(* legacy state, and nobody can have replaced it since.                    *)
Knows(t) ==
  /\ pc[t] \in Critical => lock = t
  /\ pc[t] = "resetting" => ~db.current /\ snapshot[t] = {}
  /\ pc[t] = "mutating" => call[t] \in Call /\ snapshot[t] = Value
  /\ pc[t] = "writing" =>
       /\ call[t] \in Call
       /\ Accepts(call[t], Value)
       /\ snapshot[t] = Value \cup {call[t]}
  /\ pc[t] = "written" => call[t] \in Value

Inv ==
  /\ Ranges
  /\ \A t \in Task : Knows(t)
  /\ ReturnedIsDurable

(* A task moves on within the callback, or leaves it, while the others     *)
(* stay where they are: they are outside, so they know nothing to keep.    *)
LEMMA OthersOutside ==
  ASSUME IndexedDbAssumption, Inv,
         NEW t \in Task, pc[t] \in Critical, NEW u \in Task, u # t
  PROVE  pc[u] \notin Critical
  BY DEF Inv, Knows

LEMMA InitInv == Init => Inv
  BY DEF Init, Inv, Ranges, Knows, ReturnedIsDurable, Value, Stored, Phase, Critical

------------------------------------------------------------------------------
(* The steps that leave the stored value and the lock alone.               *)

LEMMA MutationInv ==
  ASSUME Inv, NEW t \in Task, NEW c \in Call, Mutation(t, c)
  PROVE  Inv' /\ Value' = Value
<1>1. /\ pc' = [pc EXCEPT ![t] = "queued"]
      /\ call' = [call EXCEPT ![t] = c]
      /\ UNCHANGED <<db, snapshot, lock, returned>>
  BY DEF Mutation, Enqueue, Goto
<1>2. Ranges' /\ Value' = Value
  BY <1>1 DEF Inv, Ranges, Phase, Value
<1>3. ASSUME NEW u \in Task PROVE Knows(u)'
  <2>1. CASE u = t
    BY <1>1, <2>1 DEF Inv, Ranges, Knows, Critical
  <2>2. CASE u # t
    BY <1>1, <1>2, <2>2 DEF Inv, Ranges, Knows
  <2>. QED BY <2>1, <2>2
<1>. QED BY <1>1, <1>2, <1>3 DEF Inv, ReturnedIsDurable

LEMMA ListInv ==
  ASSUME Inv, NEW t \in Task, ListReservations(t)
  PROVE  Inv' /\ Value' = Value
<1>1. /\ pc' = [pc EXCEPT ![t] = "reading"]
      /\ call' = [call EXCEPT ![t] = List]
      /\ UNCHANGED <<db, snapshot, lock, returned>>
  BY DEF ListReservations, Goto
<1>2. Ranges' /\ Value' = Value
  BY <1>1 DEF Inv, Ranges, Phase, Value
<1>3. ASSUME NEW u \in Task PROVE Knows(u)'
  <2>1. CASE u = t
    BY <1>1, <2>1 DEF Inv, Ranges, Knows, Critical
  <2>2. CASE u # t
    BY <1>1, <1>2, <2>2 DEF Inv, Ranges, Knows
  <2>. QED BY <2>1, <2>2
<1>. QED BY <1>1, <1>2, <1>3 DEF Inv, ReturnedIsDurable

(* Outside the callback, or falling out of it with an error. *)
LEMMA AsideInv ==
  ASSUME Inv, NEW t \in Task, NEW phase \in {"idle", "queued", "waiting", "failed"},
         phase = "failed" => pc[t] \in Critical,
         pc' = [pc EXCEPT ![t] = phase],
         UNCHANGED <<db, call, snapshot, lock, returned>>
  PROVE  Inv' /\ Value' = Value
<1>1. Ranges' /\ Value' = Value
  BY DEF Inv, Ranges, Phase, Value
<1>2. ASSUME NEW u \in Task PROVE Knows(u)'
  <2>1. CASE u = t
    BY <2>1 DEF Inv, Ranges, Knows, Critical
  <2>2. CASE u # t
    BY <1>1, <2>2 DEF Inv, Ranges, Knows
  <2>. QED BY <2>1, <2>2
<1>. QED BY <1>1, <1>2 DEF Inv, ReturnedIsDurable

LEMMA ReadEnterFailInv ==
  ASSUME Inv, WebLocks, NEW t \in Task, Read(t) \/ Enter(t) \/ Fail(t)
  PROVE  Inv' /\ Value' = Value
<1>1. UNCHANGED <<db, call, snapshot, lock, returned>>
  BY DEF Read, Enter, Fail
<1>2. CASE Read(t)
  <2>1. PICK phase \in {"idle", "queued"} : pc' = [pc EXCEPT ![t] = phase]
    BY <1>2 DEF Read, Enqueue, Goto
  <2>. QED BY <1>1, <2>1, AsideInv
<1>3. CASE Enter(t)
  <2>1. pc' = [pc EXCEPT ![t] = "waiting"]
    BY <1>3 DEF Enter, Goto
  <2>. QED BY <1>1, <2>1, AsideInv
<1>4. CASE Fail(t)
  <2>1. CASE pc[t] = "reading"
    <3>1. pc' = [pc EXCEPT ![t] = "idle"]
      BY <1>4, <2>1 DEF Fail, Goto
    <3>. QED BY <1>1, <3>1, AsideInv
  <2>2. CASE pc[t] # "reading"
    <3>1. pc' = [pc EXCEPT ![t] = "failed"] /\ pc[t] \in Critical
      BY <1>4, <2>2 DEF Fail, Goto, Critical
    <3>. QED BY <1>1, <3>1, AsideInv
  <2>. QED BY <2>1, <2>2
<1>. QED BY <1>2, <1>3, <1>4

------------------------------------------------------------------------------
(* The steps about the lock.                                               *)

LEMMA GrantInv ==
  ASSUME IndexedDbAssumption, Inv, NEW t \in Task, Grant(t)
  PROVE  Inv' /\ Value' = Value
<1>1. /\ pc' = [pc EXCEPT ![t] = "loading"]
      /\ lock = NoTask /\ lock' = t
      /\ UNCHANGED <<db, call, snapshot, returned>>
  BY DEF Grant, Goto
<1>2. Ranges' /\ Value' = Value
  BY <1>1 DEF Inv, Ranges, Phase, Value
<1>3. ASSUME NEW u \in Task PROVE Knows(u)'
  <2>1. CASE u = t
    BY <1>1, <2>1 DEF Inv, Ranges, Knows
  <2>2. CASE u # t
    <3>1. pc[u] \notin Critical
      BY <1>1 DEF Inv, Knows, IndexedDbAssumption
    <3>2. pc'[u] = pc[u]
      BY <1>1, <2>2 DEF Inv, Ranges
    <3>. QED BY <3>1, <3>2 DEF Knows, Critical
  <2>. QED BY <2>1, <2>2
<1>. QED BY <1>1, <1>2, <1>3 DEF Inv, ReturnedIsDurable

LEMMA LeaveInv ==
  ASSUME IndexedDbAssumption, Inv, NEW t \in Task, Leave(t)
  PROVE  Inv' /\ Value' = Value
<1>1. /\ pc[t] \in {"written", "listed", "failed"}
      /\ pc' = [pc EXCEPT ![t] = "idle"]
      /\ returned' = IF pc[t] = "written" THEN returned \cup {call[t]} ELSE returned
      /\ UNCHANGED <<db, call, snapshot>>
  BY DEF Leave, Goto
<1>2. Ranges' /\ Value' = Value
  BY <1>1 DEF Inv, Ranges, Phase, Value
<1>3. ASSUME NEW u \in Task PROVE Knows(u)'
  <2>1. CASE u = t
    BY <1>1, <2>1 DEF Inv, Ranges, Knows, Critical
  <2>2. CASE u # t
    <3>1. pc[u] \notin Critical
      BY <1>1, <2>2, OthersOutside DEF Critical
    <3>2. pc'[u] = pc[u]
      BY <1>1, <2>2 DEF Inv, Ranges
    <3>. QED BY <3>1, <3>2 DEF Knows, Critical
  <2>. QED BY <2>1, <2>2
<1>4. ReturnedIsDurable'
  BY <1>1, <1>2 DEF Inv, Knows, ReturnedIsDurable
<1>. QED BY <1>2, <1>3, <1>4 DEF Inv

LEMMA CrashInv ==
  ASSUME Inv, NEW b \in Tab, Crash(b)
  PROVE  Inv' /\ Value' = Value
<1>. DEFINE gone == {t \in Task : TabOf[t] = b}
<1>1. /\ pc' = [t \in Task |-> IF t \in gone THEN "idle" ELSE pc[t]]
      /\ lock' = IF lock \in gone THEN NoTask ELSE lock
      /\ UNCHANGED <<db, call, snapshot, returned>>
  BY DEF Crash
<1>. HIDE DEF gone
<1>2. Ranges' /\ Value' = Value
  BY <1>1 DEF Inv, Ranges, Phase, Value
<1>3. ASSUME NEW u \in Task PROVE Knows(u)'
  <2>1. CASE u \in gone
    BY <1>1, <2>1 DEF Knows, Critical
  <2>2. CASE u \notin gone
    BY <1>1, <1>2, <2>2 DEF Inv, Knows
  <2>. QED BY <2>1, <2>2
<1>. QED BY <1>1, <1>2, <1>3 DEF Inv, ReturnedIsDurable

------------------------------------------------------------------------------
(* The steps inside the callback.                                          *)

LEMMA InsideInv ==
  ASSUME IndexedDbAssumption, Inv, NEW t \in Task, pc[t] \in Critical,
         NEW phase \in Phase, pc' = [pc EXCEPT ![t] = phase],
         UNCHANGED <<call, lock, returned>>,
         Ranges', Knows(t)', Value \subseteq Value'
  PROVE  Inv'
<1>1. ASSUME NEW u \in Task, u # t PROVE Knows(u)'
  <2>1. pc[u] \notin Critical
    BY <1>1, OthersOutside
  <2>2. pc'[u] = pc[u]
    BY <1>1 DEF Inv, Ranges
  <2>. QED BY <2>1, <2>2 DEF Knows, Critical
<1>. QED BY <1>1 DEF Inv, ReturnedIsDurable

LEMMA ProceedPhase ==
  ASSUME Inv, NEW t \in Task, Proceed(t), UNCHANGED call
  PROVE  \E phase \in {"listed", "mutating"} :
           /\ pc' = [pc EXCEPT ![t] = phase]
           /\ phase = "mutating" => call[t] \in Call
  BY DEF Proceed, Goto, Inv, Ranges

LEMMA LoadInv ==
  ASSUME IndexedDbAssumption, Inv, NEW t \in Task, Load(t)
  PROVE  Inv' /\ Value' = Value
<1>1. /\ pc[t] = "loading"
      /\ snapshot' = [snapshot EXCEPT ![t] = Value]
      /\ UNCHANGED <<db, call, lock, returned>>
  BY DEF Load
<1>2. Value' = Value /\ Value \in SUBSET Call
  BY <1>1 DEF Value, Inv, Ranges, Stored
<1>3. PICK phase \in {"resetting", "listed", "mutating"} :
        /\ pc' = [pc EXCEPT ![t] = phase]
        /\ phase = "mutating" => call[t] \in Call
        /\ phase = "resetting" => ~db.current
  <2>1. CASE db.current
    BY <1>1, <2>1, ProceedPhase DEF Load
  <2>2. CASE ~db.current
    BY <2>2 DEF Load, Goto
  <2>. QED BY <2>1, <2>2
<1>4. Ranges'
  BY <1>1, <1>2, <1>3 DEF Inv, Ranges, Phase
<1>5. Knows(t)'
  <2>1. lock' = t
    BY <1>1 DEF Inv, Knows, Critical
  <2>2. snapshot'[t] = Value /\ (~db.current => Value = {})
    BY <1>1 DEF Inv, Ranges, Value
  <2>3. pc'[t] = phase
    BY <1>3 DEF Inv, Ranges
  <2>. QED BY <1>1, <1>2, <1>3, <2>1, <2>2, <2>3 DEF Knows
<1>6. pc[t] \in Critical /\ phase \in Phase
  BY <1>1 DEF Critical, Phase
<1>. QED BY <1>1, <1>2, <1>3, <1>4, <1>5, <1>6, InsideInv

LEMMA ResetInv ==
  ASSUME IndexedDbAssumption, Inv, NEW t \in Task, Reset(t)
  PROVE  Inv' /\ Value' = Value
<1>1. /\ pc[t] = "resetting"
      /\ db' = Current({})
      /\ UNCHANGED <<call, snapshot, lock, returned>>
  BY DEF Reset
<1>2. Value = {} /\ snapshot[t] = {}
  BY <1>1 DEF Inv, Knows, Value
<1>3. Value' = {}
  BY <1>1 DEF Value, Current
<1>4. PICK phase \in {"listed", "mutating"} :
        /\ pc' = [pc EXCEPT ![t] = phase]
        /\ phase = "mutating" => call[t] \in Call
  BY <1>1, ProceedPhase DEF Reset
<1>5. Ranges'
  BY <1>1, <1>4 DEF Inv, Ranges, Phase, Current, Stored
<1>6. Knows(t)'
  <2>1. lock' = t
    BY <1>1 DEF Inv, Knows, Critical
  <2>2. pc'[t] = phase
    BY <1>4 DEF Inv, Ranges
  <2>. QED BY <1>1, <1>2, <1>3, <1>4, <2>1, <2>2 DEF Knows
<1>7. pc[t] \in Critical /\ phase \in Phase
  BY <1>1 DEF Critical, Phase
<1>. QED BY <1>1, <1>2, <1>3, <1>4, <1>5, <1>6, <1>7, InsideInv

LEMMA MutateInv ==
  ASSUME IndexedDbAssumption, Inv, NEW t \in Task, Mutate(t)
  PROVE  Inv' /\ Value' = Value
<1>1. /\ pc[t] = "mutating"
      /\ UNCHANGED <<db, call, lock, returned>>
  BY DEF Mutate
<1>2. call[t] \in Call /\ snapshot[t] = Value /\ lock = t
  BY <1>1 DEF Inv, Knows, Critical
<1>3. Value' = Value
  BY <1>1 DEF Value
<1>4. CASE Accepts(call[t], snapshot[t])
  <2>1. /\ snapshot' = [snapshot EXCEPT ![t] = @ \cup {call[t]}]
        /\ pc' = [pc EXCEPT ![t] = "writing"]
    BY <1>4 DEF Mutate, Goto
  <2>2. Ranges'
    BY <1>1, <1>2, <2>1 DEF Inv, Ranges, Phase
  <2>3. pc'[t] = "writing" /\ snapshot'[t] = Value \cup {call[t]} /\ call'[t] = call[t]
    BY <1>1, <1>2, <2>1 DEF Inv, Ranges
  <2>4. Accepts(call[t], Value)
    BY <1>2, <1>4
  <2>5. Accepts(call[t], Value)'
    BY <1>1, <1>3, <2>4
  <2>6. Knows(t)'
    BY <1>1, <1>2, <1>3, <2>3, <2>5 DEF Knows
  <2>7. pc[t] \in Critical /\ "writing" \in Phase
    BY <1>1 DEF Critical, Phase
  <2>. QED BY <1>1, <1>3, <2>1, <2>2, <2>6, <2>7, InsideInv
<1>5. CASE ~Accepts(call[t], snapshot[t])
  <2>1. pc' = [pc EXCEPT ![t] = "failed"] /\ UNCHANGED snapshot
    BY <1>5 DEF Mutate, Goto
  <2>2. pc[t] \in Critical
    BY <1>1 DEF Critical
  <2>. QED BY <1>1, <2>1, <2>2, AsideInv
<1>. QED BY <1>4, <1>5

LEMMA WriteInv ==
  ASSUME IndexedDbAssumption, Inv, NEW t \in Task, Write(t)
  PROVE  Inv' /\ Atomic!Perform(call[t]) /\ call[t] \in Call
<1>1. /\ pc[t] = "writing"
      /\ db' = Current(snapshot[t])
      /\ pc' = [pc EXCEPT ![t] = "written"]
      /\ UNCHANGED <<call, snapshot, lock, returned>>
  BY DEF Write, Goto
<1>2. /\ call[t] \in Call
      /\ Accepts(call[t], Value)
      /\ snapshot[t] = Value \cup {call[t]}
      /\ lock = t
  BY <1>1 DEF Inv, Knows, Critical
<1>3. Value' = Value \cup {call[t]}
  BY <1>1, <1>2 DEF Value, Current
<1>4. Ranges'
  BY <1>1 DEF Inv, Ranges, Phase, Current, Stored
<1>5. Knows(t)'
  BY <1>1, <1>2, <1>3 DEF Inv, Ranges, Knows
<1>6. pc[t] \in Critical /\ "written" \in Phase
  BY <1>1 DEF Critical, Phase
<1>7. Inv'
  BY <1>1, <1>3, <1>4, <1>5, <1>6, InsideInv
<1>. QED BY <1>2, <1>3, <1>7 DEF Atomic!Perform

------------------------------------------------------------------------------
(* Every step keeps the invariant and is a step of the atomic store.       *)

LEMMA StepInv ==
  ASSUME IndexedDbAssumption, WebLocks, Inv, [Next]_vars
  PROVE  Inv' /\ [Atomic!Next]_Value
<1>1. CASE UNCHANGED vars
  BY <1>1 DEF vars, Inv, Ranges, Knows, ReturnedIsDurable, Value
<1>2. ASSUME NEW t \in Task, NEW c \in Call, Mutation(t, c)
      PROVE  Inv' /\ [Atomic!Next]_Value
  BY <1>2, MutationInv
<1>3. ASSUME NEW t \in Task, ListReservations(t)
      PROVE  Inv' /\ [Atomic!Next]_Value
  BY <1>3, ListInv
<1>4. ASSUME NEW t \in Task, Fail(t)
      PROVE  Inv' /\ [Atomic!Next]_Value
  BY <1>4, ReadEnterFailInv
<1>5. ASSUME NEW t \in Task, Continue(t)
      PROVE  Inv' /\ [Atomic!Next]_Value
  <2>1. CASE Read(t) \/ Enter(t)
    BY <2>1, ReadEnterFailInv
  <2>2. CASE Grant(t)
    BY <2>2, GrantInv
  <2>3. CASE Load(t)
    BY <2>3, LoadInv
  <2>4. CASE Reset(t)
    BY <2>4, ResetInv
  <2>5. CASE Mutate(t)
    BY <2>5, MutateInv
  <2>6. CASE Write(t)
    BY <2>6, WriteInv DEF Atomic!Next
  <2>7. CASE Leave(t)
    BY <2>7, LeaveInv
  <2>. QED BY <1>5, <2>1, <2>2, <2>3, <2>4, <2>5, <2>6, <2>7 DEF Continue
<1>6. ASSUME NEW b \in Tab, Crash(b)
      PROVE  Inv' /\ [Atomic!Next]_Value
  BY <1>6, CrashInv
<1>. QED BY <1>1, <1>2, <1>3, <1>4, <1>5, <1>6 DEF Next

(* Under the Web Lock nobody writes a state that is not the stored one     *)
(* with his own change: mutate loses no update of another tab.             *)
THEOREM WritesAreFresh ==
  ASSUME IndexedDbAssumption, WebLocks
  PROVE  Spec => []NoStaleWrite
<1>1. Inv => NoStaleWrite
  BY DEF Inv, Knows, NoStaleWrite
<1>2. Inv /\ [Next]_vars => Inv'
  BY StepInv
<1>. QED BY <1>1, <1>2, InitInv, PTL DEF Spec

(* A call that returned without an error has its effect in the database    *)
(* for good, whichever tabs crash.                                         *)
THEOREM ReturnedCallsAreDurable ==
  ASSUME IndexedDbAssumption, WebLocks
  PROVE  Spec => []ReturnedIsDurable
<1>1. Inv => ReturnedIsDurable
  BY DEF Inv
<1>2. Inv /\ [Next]_vars => Inv'
  BY StepInv
<1>. QED BY <1>1, <1>2, InitInv, PTL DEF Spec

(* The tabs together implement one atomic store: load, mutate and write    *)
(* appear as a single step of one call.                                    *)
THEOREM IndexedDbImplementsAtomicStore ==
  ASSUME IndexedDbAssumption, WebLocks
  PROVE  Spec => ImplementsAtomicStore
<1>1. Init => Atomic!Init
  BY DEF Init, Atomic!Init, Value
<1>2. Inv /\ [Next]_vars => Inv' /\ [Atomic!Next]_Value
  BY StepInv
<1>. QED BY <1>1, <1>2, InitInv, PTL DEF Spec, ImplementsAtomicStore, Atomic!Spec
==============================================================================
