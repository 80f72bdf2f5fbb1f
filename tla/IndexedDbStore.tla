--------------------------- MODULE IndexedDbStore ---------------------------
(***************************************************************************)
(* IndexedDbReservationStore of src/privacy/reservation.js: several        *)
(* browser tabs keep the whole reservation state as one value and change   *)
(* it by loading, changing and writing it back under the in-process queue  *)
(* of the tab and a Web Lock all tabs share.  What a call does to the      *)
(* state is a parameter (the in-memory store is ReservationStore): a state *)
(* is the set of calls whose effect it holds.                              *)
(***************************************************************************)
EXTENDS Sequences

CONSTANTS
  Call,           \* the mutating calls; each is made once
  Accepts(_, _),  \* Accepts(c, s): the in-memory store does not throw
  Tab,            \* browser tabs with the namespace open
  Task,           \* calls a tab may have in progress at once
  TabOf,          \* the tab of a task
  WebLocks,       \* navigator.locks is there (requireLocks)
  List,           \* the read-only call
  NoTask

ASSUME IndexedDbAssumption ==
  /\ TabOf \in [Task -> Tab]
  /\ WebLocks \in BOOLEAN
  /\ List \notin Call
  /\ NoTask \notin Task

VARIABLES
  db,        \* the value under the namespace key, and whether it is of this version
  pc,        \* how far each task is
  call,      \* what it is about
  snapshot,  \* the state it loaded, then changed
  queue,     \* the mutation queue of each tab
  waiting,   \* requests for the Web Lock, in order
  lock,      \* the task holding it
  begun,     \* calls made
  returned   \* calls that returned without an error

vars == <<db, pc, call, snapshot, queue, waiting, lock, begun, returned>>

Phase ==
  {"idle", "reading", "queued", "waiting", "loading", "resetting",
   "mutating", "writing", "written", "listed", "failed"}

(* Inside the callback of withMutationLock. *)
Critical ==
  {"loading", "resetting", "mutating", "writing", "written", "listed", "failed"}

Stored == [current : BOOLEAN, calls : SUBSET Call]
Current(calls) == [current |-> TRUE, calls |-> calls]

(* normalizeState: a state of an older version counts as an empty one.     *)
Value == IF db.current THEN db.calls ELSE {}

Init ==
  /\ db \in [current : BOOLEAN, calls : {{}}]
  /\ pc = [t \in Task |-> "idle"]
  /\ call = [t \in Task |-> List]
  /\ snapshot = [t \in Task |-> {}]
  /\ queue = [b \in Tab |-> <<>>]
  /\ waiting = <<>>
  /\ lock = NoTask
  /\ begun = {}
  /\ returned = {}

Goto(t, phase) == pc' = [pc EXCEPT ![t] = phase]

Without(tasks, t) == SelectSeq(tasks, LAMBDA u : u # t)

Enqueue(t) ==
  /\ Goto(t, "queued")
  /\ queue' = [queue EXCEPT ![TabOf[t]] = Append(@, t)]

------------------------------------------------------------------------------
(* Making a call.                                                          *)

Mutation(t, c) ==
  /\ pc[t] = "idle"
  /\ c \notin begun
  /\ begun' = begun \cup {c}
  /\ call' = [call EXCEPT ![t] = c]
  /\ Enqueue(t)
  /\ UNCHANGED <<db, snapshot, waiting, lock, returned>>

ListReservations(t) ==
  /\ pc[t] = "idle"
  /\ call' = [call EXCEPT ![t] = List]
  /\ Goto(t, "reading")
  /\ UNCHANGED <<db, snapshot, queue, waiting, lock, begun, returned>>

(* mutation: a reader resets a legacy state where it stands *)
ReadAndReset(t) ==
  /\ pc[t] = "reading"
  /\ Goto(t, IF db.current THEN "idle" ELSE "resetting")
  /\ UNCHANGED <<db, call, snapshot, queue, waiting, lock, begun, returned>>

(* A read takes no lock, unless it must reset a legacy state: then it      *)
(* starts over as a mutation does.                                         *)
Read(t) ==
  /\ pc[t] = "reading"
  /\ IF db.current THEN Goto(t, "idle") /\ UNCHANGED queue ELSE Enqueue(t)
  /\ UNCHANGED <<db, call, snapshot, waiting, lock, begun, returned>>

------------------------------------------------------------------------------
(* withMutationLock.                                                       *)

(* mutation: the turn in the tab's queue is enough *)
EnterDirectly(t) ==
  /\ pc[t] = "queued"
  /\ t = Head(queue[TabOf[t]])
  /\ Goto(t, "loading")
  /\ UNCHANGED <<db, call, snapshot, queue, waiting, lock, begun, returned>>

(* The tab's queue has come to t: the callback runs, or asks for the lock. *)
Enter(t) ==
  /\ pc[t] = "queued"
  /\ t = Head(queue[TabOf[t]])
  /\ Goto(t, IF WebLocks THEN "waiting" ELSE "loading")
  /\ waiting' = IF WebLocks THEN Append(waiting, t) ELSE waiting
  /\ UNCHANGED <<db, call, snapshot, queue, lock, begun, returned>>

Grant(t) ==
  /\ pc[t] = "waiting"
  /\ lock = NoTask
  /\ t = Head(waiting)
  /\ lock' = t
  /\ waiting' = Tail(waiting)
  /\ Goto(t, "loading")
  /\ UNCHANGED <<db, call, snapshot, queue, begun, returned>>

(* mutation: an error leaves the queue and the lock as they are *)
LeaveUnlessFailed(t) ==
  /\ pc[t] \in {"written", "listed", "failed"}
  /\ IF pc[t] = "failed" THEN UNCHANGED <<lock, queue>>
     ELSE /\ lock' = IF lock = t THEN NoTask ELSE lock
          /\ queue' = [queue EXCEPT ![TabOf[t]] = Without(@, t)]
  /\ Goto(t, "idle")
  /\ returned' = IF pc[t] = "written" THEN returned \cup {call[t]} ELSE returned
  /\ UNCHANGED <<db, call, snapshot, waiting, begun>>

(* The callback has settled, well or with an error: lock and queue move on *)
(* and the caller gets the answer.                                         *)
Leave(t) ==
  /\ pc[t] \in {"written", "listed", "failed"}
  /\ lock' = IF lock = t THEN NoTask ELSE lock
  /\ queue' = [queue EXCEPT ![TabOf[t]] = Without(@, t)]
  /\ Goto(t, "idle")
  /\ returned' = IF pc[t] = "written" THEN returned \cup {call[t]} ELSE returned
  /\ UNCHANGED <<db, call, snapshot, waiting, begun>>

------------------------------------------------------------------------------
(* mutate, and the locked half of a read.                                  *)

Proceed(t) == Goto(t, IF call[t] = List THEN "listed" ELSE "mutating")

Load(t) ==
  /\ pc[t] = "loading"
  /\ snapshot' = [snapshot EXCEPT ![t] = Value]
  /\ IF db.current THEN Proceed(t) ELSE Goto(t, "resetting")
  /\ UNCHANGED <<db, call, queue, waiting, lock, begun, returned>>

(* The emptied state is written before anything is changed in it.          *)
Reset(t) ==
  /\ pc[t] = "resetting"
  /\ db' = Current({})
  /\ Proceed(t)
  /\ UNCHANGED <<call, snapshot, queue, waiting, lock, begun, returned>>

(* mutation: the answer is given before the write is done *)
MutateAndReturn(t) ==
  /\ pc[t] = "mutating"
  /\ IF Accepts(call[t], snapshot[t])
     THEN /\ snapshot' = [snapshot EXCEPT ![t] = @ \cup {call[t]}]
          /\ Goto(t, "writing")
          /\ returned' = returned \cup {call[t]}
     ELSE Goto(t, "failed") /\ UNCHANGED <<snapshot, returned>>
  /\ UNCHANGED <<db, call, queue, waiting, lock, begun>>

Mutate(t) ==
  /\ pc[t] = "mutating"
  /\ IF Accepts(call[t], snapshot[t])
     THEN /\ snapshot' = [snapshot EXCEPT ![t] = @ \cup {call[t]}]
          /\ Goto(t, "writing")
     ELSE Goto(t, "failed") /\ UNCHANGED snapshot
  /\ UNCHANGED <<db, call, queue, waiting, lock, begun, returned>>

(* The readwrite transaction commits. *)
Write(t) ==
  /\ pc[t] = "writing"
  /\ db' = Current(snapshot[t])
  /\ Goto(t, "written")
  /\ UNCHANGED <<call, snapshot, queue, waiting, lock, begun, returned>>

------------------------------------------------------------------------------
(* What goes wrong.                                                        *)

(* A transaction, decodeState or encodeState fails: nothing is written.    *)
Fail(t) ==
  /\ pc[t] \in {"reading", "loading", "resetting", "writing"}
  /\ Goto(t, IF pc[t] = "reading" THEN "idle" ELSE "failed")
  /\ UNCHANGED <<db, call, snapshot, queue, waiting, lock, begun, returned>>

(* A tab is closed or reloaded: the browser gives up its locks and requests. *)
Crash(b) ==
  LET gone == {t \in Task : TabOf[t] = b}
      Stays(t) == t \notin gone
  IN  /\ \E t \in gone : pc[t] # "idle"
      /\ pc' = [t \in Task |-> IF t \in gone THEN "idle" ELSE pc[t]]
      /\ queue' = [queue EXCEPT ![b] = <<>>]
      /\ waiting' = SelectSeq(waiting, Stays)
      /\ lock' = IF lock \in gone THEN NoTask ELSE lock
      /\ UNCHANGED <<db, call, snapshot, begun, returned>>

------------------------------------------------------------------------------

Continue(t) ==
  \/ Read(t) \/ Enter(t) \/ Grant(t)
  \/ Load(t) \/ Reset(t) \/ Mutate(t) \/ Write(t) \/ Leave(t)

Next ==
  \/ \E t \in Task :
       \/ \E c \in Call : Mutation(t, c)
       \/ ListReservations(t) \/ Continue(t) \/ Fail(t)
  \/ \E b \in Tab : Crash(b)

Spec == Init /\ [][Next]_vars

(* The promise chain of a call goes on by itself, the browser grants the   *)
(* lock in the order of the requests, and every transaction settles.       *)
FairSpec == Spec /\ \A t \in Task : WF_vars(Continue(t))

------------------------------------------------------------------------------
(* What the store promises.                                                *)

(* The variables keep their ranges. *)
TypeOK ==
  /\ db \in Stored
  /\ pc \in [Task -> Phase]
  /\ call \in [Task -> Call \cup {List}]
  /\ snapshot \in [Task -> SUBSET Call]
  /\ queue \in [Tab -> Seq(Task)]
  /\ waiting \in Seq(Task)
  /\ lock \in Task \cup {NoTask}
  /\ begun \subseteq Call
  /\ returned \subseteq Call

(* No lost update: whoever is about to change or write the state has the   *)
(* one that is stored, for all the awaits since it was loaded.             *)
NoStaleWrite ==
  \A t \in Task :
    /\ pc[t] = "mutating" => snapshot[t] = Value
    /\ pc[t] = "writing" => snapshot[t] = Value \cup {call[t]}

(* What a caller was told has happened stays so, through crashes of any    *)
(* tab and the discarding of a legacy state by readers and writers.        *)
ReturnedIsDurable == returned \subseteq Value

(* Tabs see one store that performs their calls one at a time: #load,      *)
(* mutate and #writeState implement an atomic store.                       *)
Atomic == INSTANCE AtomicStore WITH value <- Value

ImplementsAtomicStore == Atomic!Spec

(* withInProcessMutationLock's finally and the browser's release at the    *)
(* end of a tab: no call waits for ever on a failed or vanished one.       *)
EveryCallSettles == \A t \in Task : pc[t] # "idle" ~> pc[t] = "idle"
==============================================================================
