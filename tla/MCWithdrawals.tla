----------------------------- MODULE MCWithdrawals -----------------------------
(***************************************************************************)
(* Instances of WithdrawRelay, Deposits and CommitmentPaths: the two ways  *)
(* between an account and its notes, and the paths through the note tree   *)
(* that spending a note takes.  A history is of one of them; the others    *)
(* stay as they are.                                                       *)
(***************************************************************************)
EXTENDS WithdrawRelay

VARIABLES
    machine,
    serials, materials, dProofs, dBuild, prepared, chain, confirmed,   \* Deposits
    leaves, job, taken                                                 \* CommitmentPaths

depositVars == <<serials, materials, dProofs, dBuild, prepared, chain, confirmed>>
pathVars == <<leaves, job, taken>>

-----------------------------------------------------------------------------
(***************************************************************************)
(* Withdrawals.                                                            *)
(***************************************************************************)
Note(owner, amount, asset, randomness) ==
    [owner |-> owner, amount |-> amount, asset |-> asset, randomness |-> randomness]
Recipient(prefix, account) == [prefix |-> prefix, account |-> account]
Request(signer, amount, recipient, network, expires, clock) ==
    [signer |-> signer, amount |-> amount, asset |-> "uclair", recipient |-> recipient,
     chain |-> network, expires |-> expires, clock |-> clock]
Bob == Recipient("clair", "bob")

\* Two withdrawals whose files get mixed up (the cfg).
MixNotes == {Note("alice", 2, "uclair", 1), Note("alice", 3, "uclair", 3)}
MixRequests == {Request("alice", 2, Bob, "clairveil-1", Default, "chain"),
                Request("alice", 3, Recipient("clair", "carol"), "clairveil-2", 2, "chain")}

\* One build: notes of the amount asked, one of another asset; every kind of
\* request; the tree grows and the local clock runs ahead.
Asked == INSTANCE WithdrawRelay WITH
    Wallet <- MixNotes \cup {Note("alice", 2, "uother", 2)},
    Requests <-
        {Request("alice", 2, to, network, expires, clock) :
            to \in {Bob, Recipient("other", "bob")}, network \in {"clairveil-1", "clairveil-2"},
            expires \in {Default, 2}, clock \in {"chain", "local"}}
        \cup {Request("carol", 2, Bob, "clairveil-1", Default, "chain")},
    Skew <- 1, MaxTime <- 2, MaxRoots <- 1, MaxBuilds <- 1, MaxJobs <- 0, MaxPayloads <- 0,
    MaxMessages <- 0

\* Two withdrawals on one chain, up to the submission.
Sending == INSTANCE WithdrawRelay WITH
    Requests <- {Request("alice", 2, Bob, "clairveil-1", 1, "local"),
                 Request("alice", 3, Recipient("clair", "carol"), "clairveil-1", 2, "chain")},
    MaxJobs <- 0, MaxMessages <- 2, MaxSent <- 1

-----------------------------------------------------------------------------
(***************************************************************************)
(* Deposits: two wallets, a proof service and the application's own prover;*)
(* or an EVM wallet that deposits two amounts, edited on the way.          *)
(***************************************************************************)
Deposit(wallet, via, amount, provider) ==
    [wallet |-> wallet, via |-> via, amount |-> amount, provider |-> provider]

MixedUp == INSTANCE Deposits WITH
    Wallets <- {"alice", "bob"}, Values <- {1}, Nothing <- [owner |-> "nobody"],
    Requests <- {Deposit("alice", "cosmos", 1, "http"), Deposit("bob", "evm", 1, "own")},
    MaxNotes <- 3, MaxPrepared <- 2, MaxSent <- 2, proofs <- dProofs, build <- dBuild
Edited == INSTANCE Deposits WITH
    Wallets <- {"alice"}, Values <- {1, 2}, Nothing <- [owner |-> "nobody"],
    Requests <- {Deposit("alice", "evm", 1, "http"), Deposit("alice", "evm", 2, "none")},
    MaxNotes <- 3, MaxPrepared <- 3, MaxSent <- 3, proofs <- dProofs, build <- dBuild

-----------------------------------------------------------------------------
(***************************************************************************)
(* Paths through trees of two levels, of a node that answers anything at   *)
(* all, or of a truthful one while the tree grows until it is full.        *)
(***************************************************************************)
CONSTANTS a, b, c, d, Zero, NoField

Paths(kind, notes) == [kind |-> kind, notes |-> notes, root |-> NoField, height |-> NoField]
\* A root the caller read earlier: that of the tree of a alone.
RootOfFirst == <<1, <<0, a, Zero>>, <<0, Zero, Zero>>>>

Lying == INSTANCE CommitmentPaths WITH
    Depth <- 2, MaxCommitments <- 2, Commitments <- {a, b, c}, Heights <- {1, 2}, Lies <- TRUE,
    Nothing <- NoField,
    Jobs <- {Paths("transfer", <<a, b>>), Paths("withdraw", <<a>>),
             [Paths("batch", <<b>>) EXCEPT !.height = 1],
             [Paths("batch", <<a>>) EXCEPT !.root = RootOfFirst],
             Paths("batch", <<Zero>>)}
Truthful == INSTANCE CommitmentPaths WITH
    Depth <- 2, MaxCommitments <- 2, Commitments <- {a, b, c, d}, Heights <- {1, 2},
    Lies <- FALSE, Nothing <- NoField,
    Jobs <- {Paths("transfer", <<a, b>>), Paths("withdraw", <<c>>), Paths("batch", <<b>>),
             [Paths("batch", <<b, a>>) EXCEPT !.height = 1],
             [Paths("batch", <<a>>) EXCEPT !.root = RootOfFirst],
             Paths("transfer", <<a, a>>), Paths("batch", <<a, b, c>>)}

ASSUME MixedUp!DepositsAssumption /\ Edited!DepositsAssumption
ASSUME Lying!CommitmentPathsAssumption /\ Truthful!CommitmentPathsAssumption

-----------------------------------------------------------------------------
MCInit ==
    /\ machine \in {"asked", "files", "sending", "mixed up", "edited", "lying", "truthful"}
    /\ Init /\ Edited!Init /\ Truthful!Init

Withdrawing(Step) == Step /\ UNCHANGED <<machine, depositVars, pathVars>>
Depositing(Step) == Step /\ UNCHANGED <<machine, vars, pathVars>>
Looking(Step) == Step /\ UNCHANGED <<machine, vars, depositVars>>

MCNext ==
    \/ machine = "asked" /\ Withdrawing(Asked!Next)
    \/ machine = "files" /\ Withdrawing(Next)
    \/ machine = "sending" /\ Withdrawing(Sending!Next)
    \/ machine = "mixed up" /\ Depositing(MixedUp!Next)
    \/ machine = "edited" /\ Depositing(Edited!Next)
    \/ machine = "lying" /\ Looking(Lying!Next)
    \/ machine = "truthful" /\ Looking(Truthful!Next)

MCSpec == MCInit /\ [][MCNext]_<<machine, vars, depositVars, pathVars>>

DepositsAreSound ==
    /\ machine = "mixed up" => MixedUp!DepositsAreSound
    /\ machine = "edited" => Edited!DepositsAreSound

PathsAreSound ==
    /\ machine = "lying" => Lying!PathsAreSound
    /\ machine = "truthful" => Truthful!PathsAreSound
=============================================================================
