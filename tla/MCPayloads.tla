------------------------------ MODULE MCPayloads ------------------------------
(***************************************************************************)
(* Instances of TransferPayload, BatchPayload and Disclosure: payloads from*)
(* their notes to the message, and what is read of it.  A history is of one*)
(* of them; the others stay as they are.                                   *)
(***************************************************************************)
EXTENDS TransferPayload

VARIABLES
    machine,
    bNow, bBuild, bDrafts, bSigned, bPayloads, bProofs, bMessage,   \* BatchPayload
    chain, report                                                   \* Disclosure

batchVars == <<bNow, bBuild, bDrafts, bSigned, bPayloads, bProofs, bMessage>>
readVars == <<chain, report>>

-----------------------------------------------------------------------------
(***************************************************************************)
(* Transfers: two builds whose drafts, payloads and proofs get mixed up.   *)
(***************************************************************************)
Note(owner, amount, asset, randomness) ==
    [owner |-> owner, amount |-> amount, asset |-> asset, randomness |-> randomness]
Request(sender, recipient, amount, policy, mode, selfView) ==
    [sender |-> sender, recipient |-> recipient, amount |-> amount, asset |-> "uclair",
     policy |-> policy, mode |-> mode, target |-> "judge", selfView |-> selfView,
     signer |-> "alice", chain |-> "clairveil-1", expires |-> Default]
Draw(recipient, change, full, user) ==
    [recipient |-> recipient, change |-> change, full |-> full, user |-> user]

MixWallet == {Note("alice", 2, "uclair", 11), Note("alice", 1, "uclair", 12),
              Note("bob", 2, "uclair", 14), Note("bob", 1, "uclair", 15)}
MixRequests == {Request("alice", "carol", 3, {"to"}, "encrypted", TRUE),
                [Request("bob", "carol", 2, {"amount", "from"}, "public", FALSE)
                    EXCEPT !.signer = "bob", !.chain = "clairveil-2", !.expires = 2]}
MixDraws == {Draw(1, 2, 3, 4), Draw(5, 6, 7, 8)}

\* Files are mixed up (the cfg); or signing requests are put together by hand.
ByHand == INSTANCE TransferPayload WITH MaxByHand <- 1, MaxPayloads <- 0

\* Two transfers of Alice, one after the other, up to the submission.
Submitting == INSTANCE TransferPayload WITH
    Wallet <- {Note("alice", 2, "uclair", 11), Note("alice", 1, "uclair", 12)},
    Requests <- {Request("alice", "carol", 3, {"to"}, "encrypted", TRUE)},
    Draws <- {Draw(1, 2, 3, 4)}, MaxTime <- 2, MaxDrafts <- 2, MaxPayloads <- 0, MaxSent <- 1

(***************************************************************************)
(* One transfer: Alice's notes, one of them of another asset, and one of   *)
(* Bob's; every policy and mode, and a sender whose keys are not the notes';*)
(* random values some of which a build must draw again; the tree grows.    *)
(***************************************************************************)
Asked == INSTANCE TransferPayload WITH
    Wallet <- {Note("alice", 2, "uclair", 11), Note("alice", 1, "uclair", 12),
               Note("alice", 1, "uother", 13), Note("bob", 2, "uclair", 14)},
    Requests <-
        {Request("alice", "bob", 2, policy, mode, selfView) :
            policy \in Policies, mode \in Modes, selfView \in BOOLEAN}
        \cup {Request("carol", "bob", 2, {}, "none", TRUE),
              Request("alice", "bob", 4, {}, "none", TRUE)},
    Draws <- {Draw(1, 2, 3, 4), Draw(1, 2, 1, 4), Draw(1, 2, 3, 1), Draw(1, 2, 3, 3)},
    MaxTime <- 1, MaxRoots <- 1, MaxDrafts <- 1, MaxPayloads <- 1

-----------------------------------------------------------------------------
(***************************************************************************)
(* Batches.                                                                *)
(***************************************************************************)
In(owner, amount, randomness, at) ==
    [note |-> Note(owner, amount, "uclair", randomness), root |-> at]
Out(kind, owner, amount, randomness, full) ==
    [kind |-> kind, note |-> Note(owner, amount, "uclair", randomness),
     policy |-> AllPrivate, mode |-> "none", target |-> "nobody", user |-> 0, full |-> full]
Telling(output, policy, mode, target, user) ==
    [output EXCEPT !.policy = policy, !.mode = mode, !.target = target, !.user = user]
Batch(inputs, at, outputs, selfView) ==
    [inputs |-> inputs, root |-> at, outputs |-> outputs, selfView |-> selfView,
     chain |-> "clairveil-1", expires |-> 1, signer |-> "alice"]

\* Payment and change, in every kind, owner and disclosure the second output may
\* have, with secrets some of which repeat.
SecondOutputs ==
    {Out(kind, owner, amount, randomness, full) :
        kind \in {"payment", "change", "padding"}, owner \in {"alice", "carol"},
        amount \in {0, 1}, randomness \in {3, 11, 13}, full \in {4, 31, 3}}
OneBatch ==
    {Batch(<<In("alice", 2, 11, 7), In(other, 1, 12, at)>>, declared,
           <<Telling(Out("payment", "bob", amount, 3, 4), policy, mode, target, user), second>>,
           TRUE) :
        other \in {"alice", "bob"}, at \in {7, 8}, declared \in {0, 7},
        amount \in {2, 3}, policy \in {{"amount"}, {"to"}}, mode \in {"public", "encrypted"},
        target \in {"nobody", "judge"}, user \in {5, 4}, second \in SecondOutputs}

\* Three shapes whose drafts get mixed up: two payments, payment and change,
\* and the same payments with padding.
MixBatches ==
    {Batch(<<In("alice", 3, 11, 7)>>, 0,
           <<Telling(Out("payment", "bob", 2, 21, 22), {"to"}, "encrypted", "judge", 23),
             Out("payment", "carol", 1, 24, 25)>>, TRUE),
     Batch(<<In("alice", 3, 13, 7)>>, 0,
           <<Telling(Out("payment", "bob", 2, 31, 32), {"to"}, "encrypted", "judge", 33),
             Out("change", "alice", 1, 34, 35)>>, FALSE),
     [Batch(<<In("alice", 3, 11, 7)>>, 0,
           <<Telling(Out("payment", "bob", 2, 21, 22), {"amount"}, "public", "nobody", 23),
             Out("change", "alice", 1, 44, 45)>>, TRUE)
         EXCEPT !.chain = "clairveil-2", !.expires = 2]}

BatchAsked == INSTANCE BatchPayload WITH
    Builds <- OneBatch, NoRoot <- 0, NoTarget <- "nobody", SelfKey <- "alice",
    MaxInputs <- 2, MaxOutputs <- 2, MaxTime <- 0, MaxDrafts <- 1, MaxPayloads <- 0,
    MaxSigned <- 0, now <- bNow, build <- bBuild, drafts <- bDrafts, signed <- bSigned,
    payloads <- bPayloads, proofs <- bProofs, message <- bMessage
BatchFiles == INSTANCE BatchPayload WITH
    Builds <- MixBatches, NoRoot <- 0, NoTarget <- "nobody", SelfKey <- "alice",
    MaxInputs <- 2, MaxOutputs <- 2, MaxTime <- 2, MaxDrafts <- 2, MaxPayloads <- 3,
    MaxSigned <- 0, now <- bNow, build <- bBuild, drafts <- bDrafts, signed <- bSigned,
    payloads <- bPayloads, proofs <- bProofs, message <- bMessage
BatchByHand == INSTANCE BatchPayload WITH
    Builds <- MixBatches, NoRoot <- 0, NoTarget <- "nobody", SelfKey <- "alice",
    MaxInputs <- 2, MaxOutputs <- 2, MaxTime <- 0, MaxDrafts <- 3, MaxPayloads <- 0,
    MaxSigned <- 3, now <- bNow, build <- bBuild, drafts <- bDrafts, signed <- bSigned,
    payloads <- bPayloads, proofs <- bProofs, message <- bMessage

-----------------------------------------------------------------------------
(***************************************************************************)
(* Disclosures: one output of every policy, in the clear and encrypted, of *)
(* two assets; or few effects and more outputs.                            *)
(***************************************************************************)
Paid(asset, policy, mode) ==
    [from |-> "alice", to |-> "bob", amount |-> 3, asset |-> asset,
     policy |-> policy, mode |-> mode, target |-> "judge"]
Caller(given, derived) == [given |-> given, derived |-> derived]

OneOutput == INSTANCE Disclosure WITH
    Txs <- {"t1", "t2"}, Denoms <- {"uclair", "uother"},
    Effects <- {Paid("uclair", {}, "none"), Paid("uother", {"to"}, "public")}
        \cup {Paid("uclair", policy, mode) :
                policy \in Policies \ {{}}, mode \in {"public", "encrypted"}},
    Callers <- {Caller("auditor", "none"), Caller("none", "alice"),
                Caller("alice", "judge"), Caller("judge", "none")},
    NoKey <- "none", SelfKey <- "alice", MaxOutputs <- 1, MaxFaults <- 1, DropsDigest <- FALSE
MoreOutputs == INSTANCE Disclosure WITH
    Txs <- {"t1", "t2"}, Denoms <- {"uclair"},
    Effects <- {Paid("uclair", {"amount"}, "encrypted"), Paid("uclair", {"to", "from"}, "public")},
    Callers <- {Caller("auditor", "none"), Caller("alice", "judge")},
    NoKey <- "none", SelfKey <- "alice", MaxOutputs <- 3, MaxFaults <- 1, DropsDigest <- FALSE

ASSUME BatchAsked!BatchPayloadAssumption /\ BatchFiles!BatchPayloadAssumption
ASSUME OneOutput!DisclosureAssumption /\ MoreOutputs!DisclosureAssumption

-----------------------------------------------------------------------------
MCInit ==
    /\ machine \in {"asked", "files", "by hand", "submitting", "batch asked", "batch files",
                    "batch by hand", "one output", "more outputs"}
    /\ Init /\ BatchFiles!Init /\ OneOutput!Init

Transfer(Step) == Step /\ UNCHANGED <<machine, batchVars, readVars>>
OfBatch(Step) == Step /\ UNCHANGED <<machine, vars, readVars>>
Reading(Step) == Step /\ UNCHANGED <<machine, vars, batchVars>>

MCNext ==
    \/ machine = "asked" /\ Transfer(Asked!Next)
    \/ machine = "files" /\ Transfer(Next)
    \/ machine = "by hand" /\ Transfer(ByHand!Next)
    \/ machine = "submitting" /\ Transfer(Submitting!Next)
    \/ machine = "batch asked" /\ OfBatch(BatchAsked!Next)
    \/ machine = "batch files" /\ OfBatch(BatchFiles!Next)
    \/ machine = "batch by hand" /\ OfBatch(BatchByHand!Next)
    \/ machine = "one output" /\ Reading(OneOutput!Next)
    \/ machine = "more outputs" /\ Reading(MoreOutputs!Next)

MCSpec == MCInit /\ [][MCNext]_<<machine, vars, batchVars, readVars>>

\* What a transfer does not disclose stays hidden; batches are sound.
PayloadsAreSound ==
    /\ machine = "asked" => Asked!TypeOK /\ Asked!HiddenStaysHidden
    /\ machine = "batch asked" => BatchAsked!BatchIsSound
    /\ machine = "batch files" => BatchFiles!BatchIsSound
    /\ machine = "batch by hand" => BatchByHand!SignedIsShown

DisclosureIsSound ==
    /\ machine = "one output" => OneOutput!DisclosureIsSound
    /\ machine = "more outputs" => MoreOutputs!DisclosureIsSound

\* Two outputs, or three that were sealed truthfully.
SmallInOneWay == Len(chain) <= 2 \/ \A i \in DOMAIN chain : chain[i].fault = "none"
=============================================================================
