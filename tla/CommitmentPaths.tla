---------------------------- MODULE CommitmentPaths ----------------------------
(***************************************************************************)
(* Where the Merkle paths of a payload come from: the input notes of a     *)
(* transfer, batch or withdrawal are leaves of the chain's note tree, and  *)
(* the builders need a path for each of them, all to one root, while the   *)
(* tree grows.                                                             *)
(*                                                                         *)
(*   a transfer or batch reads the current root (unless a root is given),  *)
(*       asks for all paths at exactly that root, recomputes every path    *)
(*       (src/src/privacy/merkle-path.js) and serves its lookups from it   *)
(*   a withdrawal reads the one path it needs from the current tree        *)
(*                                                                         *)
(* The builder recomputes what it is given once more.  The tree and the    *)
(* node are external; with Lies the node answers anything at all.          *)
(* A hash is the tuple of what is hashed, so two are equal only if made    *)
(* from the same.                                                          *)
(***************************************************************************)
EXTENDS Integers, Sequences, FiniteSets, SequencesExt

CONSTANTS
    Depth,           \* levels of the tree, 32 in the code
    MaxCommitments,  \* commitments of one snapshot, 16 in the code
    Commitments,     \* of the notes on the chain
    Zero,            \* the zero field, which an empty leaf holds
    Heights,         \* block heights a request or an answer may name
    Nothing,         \* an absent field
    Jobs,            \* [kind, notes, root, height] of the payloads an application builds
    Lies             \* does the node answer anything, or the truth?

CommitmentPathsAssumption ==
    /\ Depth \in Nat /\ MaxCommitments \in Nat
    /\ Zero \notin Commitments
    /\ \A j \in Jobs : j.kind \in {"transfer", "batch", "withdraw"}

VARIABLES
    leaves,  \* the commitments in the tree, oldest first
    job,     \* the running build: its step and what it holds
    taken    \* the paths the builder has accepted for its inputs, in order

vars == <<leaves, job, taken>>
Idle == [step |-> "idle"]
Failed(reason) == [step |-> "failed", reason |-> reason]

(***************************************************************************)
(* The tree and a path through it.                                         *)
(***************************************************************************)
Capacity == 2 ^ Depth
Node(level, left, right) == <<level, left, right>>
Bit(index, level) == (index \div (2 ^ level)) % 2

\* The node of a level over the first `count` leaves; empty leaves are zero.
NodeOver(count) ==
    LET at[level \in 0 .. Depth] ==
            [i \in 0 .. 2 ^ (Depth - level) - 1 |->
                IF level = 0 THEN IF i < count THEN leaves[i + 1] ELSE Zero
                ELSE Node(level - 1, at[level - 1][2 * i], at[level - 1][2 * i + 1])]
    IN  at
RootOver(count) == NodeOver(count)[Depth][0]
History == 0 .. Len(leaves)

\* What a leaf and its siblings hash to, level by level.
Climb(leaf, siblings, helpers) ==
    LET up[level \in 0 .. Depth] ==
            IF level = 0 THEN leaf
            ELSE IF helpers[level] = 0
            THEN Node(level - 1, up[level - 1], siblings[level])
            ELSE Node(level - 1, siblings[level], up[level - 1])
    IN  up[Depth]

\* The answer of a truthful node about a leaf of the tree of `count` leaves.
TruePath(count, commitment) ==
    LET index == CHOOSE i \in 0 .. count - 1 : leaves[i + 1] = commitment
        Sibling(level) == NodeOver(count)[level][(index \div (2 ^ level)) + 1 - 2 * Bit(index, level)]
    IN  [commitment |-> commitment, leafIndex |-> index,
         path |-> [k \in 1 .. Depth |-> Sibling(k - 1)],
         helpers |-> [k \in 1 .. Depth |-> Bit(index, k - 1)]]
Has(count, commitment) == \E i \in 1 .. count : leaves[i] = commitment

(***************************************************************************)
(* What a lying node may put in an answer: any field it has seen.          *)
(***************************************************************************)
Fields == {Zero} \cup Commitments \cup {RootOver(n) : n \in History}
          \cup {NodeOver(Len(leaves))[level][0] : level \in 0 .. Depth}
          \cup {NodeOver(Len(leaves))[1][i] : i \in 0 .. 2 ^ (Depth - 1) - 1}
AnyPaths(commitments) ==
    [commitment : commitments, leafIndex : 0 .. Capacity,
     path : [1 .. Depth -> Fields] \cup {<< >>}, helpers : [1 .. Depth -> 0 .. 1]]
AnyHeads == [root : Fields, height : Heights, leafCount : 0 .. Capacity + 1, size : 0 .. MaxCommitments]

(***************************************************************************)
(* The checks of merkle-path.js.                                           *)
(***************************************************************************)
\* normalizeCommitmentPathsAtRootRequest
RequestFits(notes) ==
    /\ Len(notes) \in 1 .. MaxCommitments
    /\ \A k \in 1 .. Len(notes) : notes[k] # Zero
    /\ IsInjective(notes)

\* The part of normalizeCommitmentPathsAtRootResponse about the whole answer.
HeadFits(head) ==
    /\ head.root = job.root
    /\ job.height # Nothing => head.height = job.height
    /\ head.leafCount > 0 /\ head.leafCount <= Capacity
    /\ head.size = Len(job.notes)

\* Its part about one path.
PathFits(path, k) ==
    /\ path.commitment = job.notes[k]
    /\ path.leafIndex < job.leafCount
    /\ Len(path.path) = Depth
    /\ \A level \in 1 .. Depth : path.helpers[level] = Bit(path.leafIndex, level - 1)
    /\ Climb(path.commitment, path.path, path.helpers) = job.root

(***************************************************************************)
(* A build, from its notes to its last path.                               *)
(***************************************************************************)
Begin(j) ==
    /\ job.step \in {"idle", "failed", "built"}
    /\ job' = [step |-> IF j.kind = "withdraw" THEN "read"
                        ELSE IF j.root = Nothing THEN "root" ELSE "ask",
               kind |-> j.kind, notes |-> j.notes, root |-> j.root, height |-> j.height]
    /\ taken' = << >>
    /\ UNCHANGED leaves

\* fetchTreeState
FetchTreeState ==
    /\ job.step = "root"
    /\ \E root \in IF Lies THEN Fields ELSE {RootOver(Len(leaves))} :
          job' = [job EXCEPT !.step = "ask", !.root = root]
    /\ UNCHANGED <<leaves, taken>>

(* queryCommitmentPathsAtRoot up to its answer; the node may have dropped  *)
(* the tree of that root, or never have had it.                            *)
Ask ==
    /\ job.step = "ask"
    /\ job' = IF RequestFits(job.notes) THEN [job EXCEPT !.step = "answer"] ELSE Failed("request")
    /\ UNCHANGED <<leaves, taken>>
Unserved ==
    /\ job.step \in {"root", "answer", "read"}
    /\ job' = Failed("unserved")
    /\ UNCHANGED <<leaves, taken>>

CountsOf(root) ==
    {n \in History : RootOver(n) = root /\ \A k \in 1 .. Len(job.notes) : Has(n, job.notes[k])}
TrueHeads(root) ==
    [root : {root}, height : IF job.height = Nothing THEN Heights ELSE {job.height},
     leafCount : CountsOf(root), size : {Len(job.notes)}]

AnswerHead ==
    /\ job.step = "answer"
    /\ \E head \in IF Lies THEN AnyHeads ELSE TrueHeads(job.root) :
          job' = IF HeadFits(head)
                 THEN [job EXCEPT !.step = "paths"] @@
                      [leafCount |-> head.leafCount, snapshot |-> << >>]
                 ELSE Failed("answer")
    /\ UNCHANGED <<leaves, taken>>

AnswerPath ==
    /\ job.step = "paths"
    /\ LET k == Len(job.snapshot) + 1 IN
       \E path \in IF Lies THEN AnyPaths(ToSet(job.notes))
                   ELSE {TruePath(n, job.notes[k]) : n \in CountsOf(job.root)} :
          job' = IF ~PathFits(path, k) THEN Failed("answer")
                 ELSE [job EXCEPT !.snapshot = Append(@, path),
                                  !.step = IF k = Len(job.notes) THEN "lookup" ELSE "paths"]
    /\ UNCHANGED <<leaves, taken>>

(***************************************************************************)
(* The builder takes one path after the other, out of the snapshot or, for *)
(* a withdrawal, as the node answers now, and recomputes it: it must lead  *)
(* to the root it came with, and every input to the same root.             *)
(***************************************************************************)
LeadsToIts(root, path) ==
    Len(path.path) = Depth /\ Climb(job.notes[Len(taken) + 1], path.path, path.helpers) = root

Take(root, path, next) ==
    IF ~LeadsToIts(root, path) THEN job' = Failed("answer") /\ UNCHANGED taken
    ELSE IF taken # << >> /\ taken[1].root # root THEN job' = Failed("roots differ") /\ UNCHANGED taken
    ELSE /\ taken' = Append(taken, [root |-> root, path |-> path])
         /\ job' = [job EXCEPT !.step = IF Len(taken) + 1 = Len(job.notes) THEN "built" ELSE next]

\* The lookup of createCommitmentPathSnapshotProvider.
SnapshotPath(k) ==
    CHOOSE path \in ToSet(job.snapshot) : path.commitment = job.notes[k]

(* mutation: the tree is read again for each path *)
LookupReadingAgain ==
    /\ job.step = "lookup"
    /\ LET k == Len(taken) + 1 IN
       \E n \in History : /\ n = Len(leaves) /\ Has(n, job.notes[k])
                          /\ Take(RootOver(n), TruePath(n, job.notes[k]), "lookup")
    /\ UNCHANGED leaves

Lookup ==
    /\ job.step = "lookup"
    /\ Take(job.root, SnapshotPath(Len(taken) + 1), "lookup")
    /\ UNCHANGED leaves

\* lookupMerklePath of the client: the builder asks for its own commitment.
ReadPath ==
    /\ job.step = "read"
    /\ LET commitment == job.notes[1] IN
       IF Lies
       THEN \E root \in Fields, path \in AnyPaths({commitment}) : Take(root, path, "read")
       ELSE /\ Has(Len(leaves), commitment)
            /\ Take(RootOver(Len(leaves)), TruePath(Len(leaves), commitment), "read")
    /\ UNCHANGED leaves

\* External: a transaction adds a note.
Grow ==
    /\ Len(leaves) < Capacity
    /\ \E c \in Commitments \ ToSet(leaves) : leaves' = Append(leaves, c)
    /\ UNCHANGED <<job, taken>>

Init == leaves = << >> /\ job = Idle /\ taken = << >>
Next ==
    \/ \E j \in Jobs : Begin(j)
    \/ FetchTreeState \/ Ask \/ Unserved \/ AnswerHead \/ AnswerPath
    \/ Lookup \/ ReadPath \/ Grow
Spec == Init /\ [][Next]_vars

(***************************************************************************)
(* Properties.                                                             *)
(***************************************************************************)
\* A build never takes more paths than it has inputs, and only of its inputs.
TypeOK ==
    /\ IsInjective(leaves) /\ ToSet(leaves) \subseteq Commitments
    /\ job.step \in {"idle", "root", "ask", "answer", "paths", "lookup", "read", "built", "failed"}
    /\ job.step \in {"lookup", "read", "built"} =>
          Len(taken) <= Len(job.notes) /\ (job.step = "built" => Len(taken) = Len(job.notes))

(* Whatever the node answers: a path the checks of merkle-path.js let      *)
(* through to a root the tree really had is the path of that note - the    *)
(* note is in the tree of that root, at the leaf index of the answer.      *)
SnapshotPathsAreTrue ==
    job.step \in {"paths", "lookup"} =>
        \A k \in 1 .. Len(job.snapshot) : \A n \in History :
            RootOver(n) = job.root =>
                /\ job.snapshot[k].leafIndex < n
                /\ leaves[job.snapshot[k].leafIndex + 1] = job.notes[k]
                /\ job.snapshot[k].path = TruePath(n, job.notes[k]).path

(* What the builders prove from, whichever way the paths came: input by    *)
(* input, the note itself is a leaf under the one root of the payload, if  *)
(* the tree ever had that root.                                            *)
InputsAreInTheTree ==
    job.step = "built" =>
        \A k \in 1 .. Len(taken) :
            /\ taken[k].root = taken[1].root
            /\ \A n \in History : RootOver(n) = taken[k].root => Has(n, job.notes[k])

(* With a truthful node no answer is refused and no build fails because    *)
(* the tree grew between two of its lookups, up to a full tree: only a     *)
(* request that is wrong or a node that does not serve it ends a build.    *)
GrowthFailsNoBuild ==
    ~Lies /\ job.step = "failed" => job.reason \in {"request", "unserved"}

(* All of it: the paths a payload is proved with are those of its inputs.  *)
PathsAreSound == TypeOK /\ SnapshotPathsAreTrue /\ InputsAreInTheTree /\ GrowthFailsNoBuild
=============================================================================
