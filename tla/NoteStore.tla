------------------------------ MODULE NoteStore ------------------------------
(***************************************************************************)
(* The wallet's cache of its own notes (src/privacy/note-store.js) and the *)
(* calls that fill it: scanWalletNotes and scanNotes of                    *)
(* src/transport/cosmos-client.js page through the chain from the stored   *)
(* cursor, ask which nullifiers are used and merge the result; the         *)
(* application marks notes spent and rolls the cache back after a          *)
(* reorganisation.  Every store method loads the whole state, waits, and   *)
(* saves a whole state.                                                    *)
(*                                                                         *)
(* A cursor is a number: height * Stride + sequence.                       *)
(***************************************************************************)
EXTENDS Naturals, Sequences, FiniteSets

CONSTANTS
  Note,         \* notes that may ever belong to this wallet
  Other,        \* an output of somebody else
  Width,        \* outputs per block, bound
  MaxHeight,    \* blocks, bound
  MaxReorg,     \* reorganisations, bound
  MaxPages,     \* pages one scan may read
  Call,         \* calls of the application that may be in progress at once
  Missing,      \* scan endpoints that some node asked may not serve
  Spendable,    \* notes whose nullifier may appear on the chain
  QueriesFail,  \* a nullifier query may leave a note unanswered
  Locked,       \* the application runs each store method under a lock
  Coordinated   \* and whole scans and rollbacks under a second one

NoteStoreAssumption ==
  /\ Width \in Nat \ {0} /\ MaxHeight \in Nat \ {0}
  /\ MaxReorg \in Nat /\ MaxPages \in Nat \ {0}
  /\ Other \notin Note
  /\ Missing \subseteq {"privacy_scan", "scan_events", "privacy_events"}
  /\ Spendable \subseteq Note /\ QueriesFail \in BOOLEAN
  /\ Locked \in BOOLEAN /\ Coordinated \in BOOLEAN

VARIABLES
  blocks,    \* blocks[h]: the outputs of the block at height h
  spentAt,   \* spentAt[n]: the height that has the nullifier of n, or 0
  replaced,  \* the lowest height replaced since the cache was rolled back, or 0
  since,     \* the lowest height replaced since that was last acted upon, or 0
  reorgs,    \* reorganisations so far
  store,     \* the cache
  calls      \* the calls in progress

vars == <<blocks, spentAt, replaced, since, reorgs, store, calls>>
chainVars == <<blocks, spentAt, replaced, since, reorgs>>

Stride == Width + 1
Cursor == 0 .. (MaxHeight * Stride + Width)
Height(c) == c \div Stride
Start(h) == h * Stride          \* (h, sequence 0): before the outputs of h
End(h) == h * Stride + Width    \* after all of them
Before(h) == IF h = 0 THEN 0 ELSE h - 1     \* decrementUint64Cursor

Status == {"unverified", "unspent", "spent", "unknown"}
Found == [at : Cursor, status : Status]
Notes == UNION {[S -> Found] : S \in SUBSET Note}
NoNotes == [n \in {} |-> 0]

State == [source : {"none", "privacy_scan", "scan_events", "privacy_events"},
          cursor : Cursor, scanned : 0 .. MaxHeight, notes : Notes]
Empty == [source |-> "none", cursor |-> 0, scanned |-> 0, notes |-> NoNotes]

Point == {"idle", "scanning", "checked", "merging", "merged", "asked",
          "setting", "rolling", "marking"}
Idle == [pc |-> "idle", kind |-> "none", source |-> "none", from |-> 0, at |-> 0,
         more |-> FALSE, pages |-> 0, height |-> 0, found |-> NoNotes, read |-> Empty]

Init ==
  /\ blocks = <<>>
  /\ spentAt = [n \in Note |-> 0]
  /\ replaced = 0
  /\ since = 0
  /\ reorgs = 0
  /\ store = Empty
  /\ calls = [c \in Call |-> Idle]

------------------------------------------------------------------------------
(* The chain.                                                              *)

(* Where the outputs of the chain are. *)
Outputs == {p \in Cursor : /\ Height(p) \in DOMAIN blocks
                           /\ p - Start(Height(p)) \in DOMAIN blocks[Height(p)]}
OutputAt(p) == blocks[Height(p)][p - Start(Height(p))]
OnChain(n) == \E p \in Outputs : OutputAt(p) = n
Place(n) == CHOOSE p \in Outputs : OutputAt(p) = n

Mine == {n \in Note : OnChain(n)}

Block ==
  /\ Len(blocks) < MaxHeight
  /\ \E w \in 0 .. Width : \E outs \in [1 .. w -> (Note \ Mine) \cup {Other}] :
       /\ \A i, j \in 1 .. w : i # j /\ outs[i] \in Note => outs[i] # outs[j]
       /\ blocks' = Append(blocks, outs)
  /\ UNCHANGED <<spentAt, replaced, since, reorgs, store, calls>>

Spend(n) ==
  /\ n \in Mine \cap Spendable /\ spentAt[n] = 0
  /\ spentAt' = [spentAt EXCEPT ![n] = Len(blocks)]
  /\ UNCHANGED <<blocks, replaced, since, reorgs, store, calls>>

Lower(a, b) == IF a = 0 \/ b < a THEN b ELSE a

(* The blocks from height h on are taken back. *)
Reorg(h) ==
  /\ reorgs < MaxReorg
  /\ h \in DOMAIN blocks
  /\ reorgs' = reorgs + 1
  /\ blocks' = SubSeq(blocks, 1, h - 1)
  /\ spentAt' = [n \in Note |-> IF spentAt[n] >= h THEN 0 ELSE spentAt[n]]
  /\ replaced' = Lower(replaced, h)
  /\ since' = Lower(since, h)
  /\ UNCHANGED <<store, calls>>

------------------------------------------------------------------------------
(* The locks are the application's (docs/storage-and-persistence.md).      *)

InMethod(c) == calls[c].pc \in {"merging", "setting", "rolling", "marking"}
MayLoad == Locked => \A c \in Call : ~InMethod(c)

Scanning(c) == calls[c].pc \notin {"idle", "marking"}
MayScan == Coordinated => \A c \in Call : ~Scanning(c)

Update(c, new) == calls' = [calls EXCEPT ![c] = new]
Load(c, pc) ==
  /\ MayLoad
  /\ Update(c, [calls[c] EXCEPT !.pc = pc, !.read = store])
  /\ UNCHANGED <<chainVars, store>>

(* The state kept is what the method made of the state it loaded. *)
Save(c, new, then) ==
  /\ store' = new
  /\ Update(c, then)
  /\ UNCHANGED chainVars

------------------------------------------------------------------------------
(* scanWalletNotes and scanNotes.                                          *)

(* A typed cursor is resumed exactly; a legacy one, or the bare height,    *)
(* cannot prove a position: one height back.                               *)
WalletStart(s) ==
  CASE s.source = "privacy_scan" -> s.cursor
    [] s.source = "none" -> Start(Before(s.scanned))
    [] OTHER -> Start(Before(Height(s.cursor)))

(* nextPrivacyScanOptions: the low-level caller resumes the same source.   *)
SourceStart(s, source) == IF s.source = source THEN s.cursor ELSE 0

StartScan(c, kind, source) ==
  /\ calls[c].pc = "idle" /\ MayScan
  /\ kind = "wallet" => source = "privacy_scan"
  /\ LET from == IF kind = "wallet" THEN WalletStart(store)
                                    ELSE SourceStart(store, source)
     IN  Update(c, [Idle EXCEPT !.pc = "scanning", !.kind = kind,
                                !.source = source, !.from = from, !.at = from,
                                !.more = TRUE])
  /\ UNCHANGED <<chainVars, store>>

(* After a reorganisation: scan again from the height, and merge with      *)
(* rollbackToHeight.                                                       *)
StartRescan(c, h) ==
  /\ calls[c].pc = "idle" /\ MayScan
  /\ h \in 1 .. replaced
  /\ Start(h) <= WalletStart(store)
  /\ Update(c, [Idle EXCEPT !.pc = "scanning", !.kind = "rescan",
                            !.source = "privacy_scan", !.from = Start(h),
                            !.at = Start(h), !.more = TRUE, !.height = h])
  /\ since' = 0
  /\ UNCHANGED <<blocks, spentAt, replaced, reorgs, store>>

Between(a, b) == {n \in Mine : a < Place(n) /\ Place(n) <= b}
New(S) == [n \in S |-> [at |-> Place(n), status |-> "unverified"]]
With(f, g) == [n \in DOMAIN f \cup DOMAIN g |-> IF n \in DOMAIN f THEN f[n] ELSE g[n]]

(* One page: the outputs after the cursor, up to some later one.  The last *)
(* page ends where the chain does; an empty page keeps the cursor.         *)
Page(c) ==
  /\ calls[c].pc = "scanning" /\ calls[c].more /\ calls[c].pages < MaxPages
  /\ \E next \in {p \in Outputs : p > calls[c].at} \cup {calls[c].at} :
       LET rest == {p \in Outputs : p > next}
       IN  /\ rest # {} => next # calls[c].at
           /\ Update(c, [calls[c] EXCEPT
                !.at = next, !.more = (rest # {}), !.pages = @ + 1,
                !.found = With(@, New(Between(calls[c].at, next)))])
  /\ UNCHANGED <<chainVars, store>>

(* The node does not serve the endpoint: the low-level scan goes to the    *)
(* next older one, a height back.  A wallet scan has a typed cursor and    *)
(* throws instead.                                                         *)
Fallback(c) ==
  /\ calls[c].pc = "scanning" /\ calls[c].pages = 0
  /\ calls[c].source \in Missing
  /\ LET to == IF calls[c].source = "privacy_scan" THEN "scan_events" ELSE "privacy_events"
         h == Before(Height(calls[c].from))
         from == IF to = "scan_events" THEN Start(h) ELSE End(h)
     IN  IF calls[c].kind # "app" \/ calls[c].source = "privacy_events"
         THEN Update(c, Idle)
         ELSE Update(c, [calls[c] EXCEPT !.source = to, !.from = from, !.at = from])
  /\ UNCHANGED <<chainVars, store>>

Told(n) == IF spentAt[n] # 0 THEN "spent" ELSE "unspent"

(* The batch query, then single queries for what it left open: what stays  *)
(* open is unknown.                                                        *)
Answers(S) ==
  {a \in [S -> {"spent", "unspent", "unknown"}] :
     \A n \in S : a[n] = Told(n) \/ (QueriesFail /\ a[n] = "unknown")}

Check(c) ==
  /\ calls[c].pc = "scanning" /\ calls[c].pages > 0
  /\ ~calls[c].more \/ calls[c].pages = MaxPages
  /\ \E a \in Answers(DOMAIN calls[c].found) :
       Update(c, [calls[c] EXCEPT !.pc = "checked",
                  !.found = [n \in DOMAIN @ |-> [@[n] EXCEPT !.status = a[n]]]])
  /\ UNCHANGED <<chainVars, store>>

(* A query throws. *)
ScanThrows(c) ==
  /\ calls[c].pc \in {"scanning", "merged"}
  /\ Update(c, Idle)
  /\ UNCHANGED <<chainVars, store>>

------------------------------------------------------------------------------
(* mergeScanResult.                                                        *)

(* privacy_events has no position inside a height: until its last page it  *)
(* stays where it began.                                                   *)
CursorOf(scan) ==
  CASE scan.source # "privacy_events" -> scan.at
    [] scan.more -> scan.from
    [] OTHER -> IF End(Height(scan.at)) > scan.from THEN End(Height(scan.at)) ELSE scan.from

Below(notes, h) ==
  LET kept == {n \in DOMAIN notes : Height(notes[n].at) < h}
  IN  [n \in kept |-> notes[n]]

Highest(S) == CHOOSE h \in S : \A k \in S : k <= h
LatestHeight(notes) == Highest({0} \cup {Height(notes[n].at) : n \in DOMAIN notes})

Merged(s, scan) ==
  LET old == IF scan.height = 0 THEN s.notes ELSE Below(s.notes, scan.height)
      notes == With(scan.found, old)
      seen == {scan.height, IF scan.height = 0 THEN s.scanned ELSE 0, Height(CursorOf(scan))}
  IN  [source |-> scan.source,
       cursor |-> CursorOf(scan),
       scanned |-> IF scan.more THEN Highest(seen)
                   ELSE Highest(seen \cup {LatestHeight(notes)}),
       notes |-> notes]

MergeLoad(c) == calls[c].pc = "checked" /\ Load(c, "merging")

MergeSave(c) ==
  /\ calls[c].pc = "merging"
  /\ store' = Merged(calls[c].read, calls[c])
  /\ replaced' = IF calls[c].height = 0 THEN replaced ELSE since
  /\ Update(c, IF calls[c].kind = "wallet" THEN [Idle EXCEPT !.pc = "merged"] ELSE Idle)
  /\ UNCHANGED <<blocks, spentAt, since, reorgs>>

------------------------------------------------------------------------------
(* refreshNoteStoreSpentStatuses and setNullifierStatuses.                 *)

RefreshAsk(c) ==
  /\ calls[c].pc = "merged" /\ MayLoad
  /\ \E a \in Answers(DOMAIN store.notes) :
       Update(c, [calls[c] EXCEPT !.pc = "asked",
                  !.found = [n \in DOMAIN a |-> [at |-> 0, status |-> a[n]]]])
  /\ UNCHANGED <<chainVars, store>>

(* mutation: a note once found unspent is left alone *)
WithStatusesOnce(s, f) ==
  [s EXCEPT !.notes = [n \in DOMAIN @ |->
     IF n \in DOMAIN f /\ @[n].status # "unspent"
     THEN [@[n] EXCEPT !.status = f[n].status] ELSE @[n]]]

WithStatuses(s, f) ==
  [s EXCEPT !.notes = [n \in DOMAIN @ |->
     IF n \in DOMAIN f THEN [@[n] EXCEPT !.status = f[n].status] ELSE @[n]]]


SetLoad(c) == calls[c].pc = "asked" /\ Load(c, "setting")
SetSave(c) ==
  /\ calls[c].pc = "setting"
  /\ Save(c, WithStatuses(calls[c].read, calls[c].found), Idle)

------------------------------------------------------------------------------
(* markSpent, rollbackToHeight, clear, and the end of a session.           *)

MarkLoad(c, n) ==
  /\ calls[c].pc = "idle" /\ spentAt[n] # 0 /\ MayLoad
  /\ Update(c, [Idle EXCEPT !.pc = "marking", !.read = store,
                            !.found = [m \in {n} |-> [at |-> 0, status |-> "spent"]]])
  /\ UNCHANGED <<chainVars, store>>

MarkSave(c) ==
  /\ calls[c].pc = "marking"
  /\ Save(c, WithStatuses(calls[c].read, calls[c].found), Idle)

(* rewindScanState: never ahead of what was scanned, and one height more   *)
(* where the source begins after a height instead of in it.                *)
RewoundAfter(s, h) ==           \* mutation: every source is resumed after it
  LET boundary == IF h < s.scanned THEN h ELSE s.scanned
  IN  [source |-> s.source, cursor |-> End(boundary), scanned |-> boundary,
       notes |-> Below(s.notes, h)]

Rewound(s, h) ==
  LET boundary == IF h < s.scanned THEN h ELSE s.scanned
      legacy == s.source \in {"none", "privacy_events"}
      resume == IF legacy THEN Before(boundary) ELSE boundary
  IN  [source |-> IF legacy THEN "privacy_events" ELSE s.source,
       cursor |-> IF legacy THEN End(resume) ELSE Start(resume),
       scanned |-> resume,
       notes |-> Below(s.notes, h)]

RollbackLoad(c, h) ==
  /\ calls[c].pc = "idle" /\ MayScan /\ MayLoad
  /\ h \in 1 .. replaced
  /\ Update(c, [Idle EXCEPT !.pc = "rolling", !.read = store, !.height = h])
  /\ since' = 0
  /\ UNCHANGED <<blocks, spentAt, replaced, reorgs, store>>

RollbackSave(c) ==
  /\ calls[c].pc = "rolling"
  /\ store' = Rewound(calls[c].read, calls[c].height)
  /\ replaced' = since
  /\ Update(c, Idle)
  /\ UNCHANGED <<blocks, spentAt, since, reorgs>>

(* Not while a scan is under way: its cursor would outlive the notes that  *)
(* were before it.                                                         *)
Clear ==
  /\ MayLoad /\ \A c \in Call : ~Scanning(c)
  /\ store # Empty
  /\ store' = Empty
  /\ UNCHANGED <<chainVars, calls>>

(* The page is closed.  LocalStorageNoteStore wrote every saved state; a   *)
(* MemoryNoteStore, or a value of another version, is a new cache.         *)
Reload ==
  /\ \E c \in Call : calls[c].pc # "idle"
  /\ calls' = [c \in Call |-> Idle]
  /\ store' \in {store, Empty}
  /\ UNCHANGED chainVars

------------------------------------------------------------------------------

CallStep(c) ==
  \/ Page(c) \/ Fallback(c) \/ Check(c)
  \/ MergeLoad(c) \/ MergeSave(c) \/ RefreshAsk(c) \/ SetLoad(c) \/ SetSave(c)
  \/ MarkSave(c) \/ RollbackSave(c)

Next ==
  \/ Block
  \/ \E n \in Note : Spend(n)
  \/ \E h \in 1 .. MaxHeight : Reorg(h)
  \/ \E c \in Call :
       \/ CallStep(c) \/ ScanThrows(c)
       \/ StartScan(c, "wallet", "privacy_scan")
       \/ \E source \in {"privacy_scan", "scan_events", "privacy_events"} :
            StartScan(c, "app", source)
       \/ \E n \in Note : MarkLoad(c, n)
       \/ \E h \in 1 .. MaxHeight : StartRescan(c, h) \/ RollbackLoad(c, h)
  \/ Clear
  \/ Reload

Spec == Init /\ [][Next]_vars

(* A step of a session nothing goes wrong in: the cache is not emptied, a  *)
(* call ends only by saving (no page is closed on it, it does not throw),  *)
(* queries are answered.                                                   *)
Known(found) == \A n \in DOMAIN found : found[n].status # "unknown"
Saves(c) == MergeSave(c) \/ SetSave(c) \/ MarkSave(c) \/ RollbackSave(c)
Undisturbed ==
  /\ store' = Empty => store = Empty
  /\ \A c \in Call :
       /\ calls[c].pc # "idle" /\ calls'[c].pc = "idle" => Saves(c)
       /\ Known(calls'[c].found)

(* The application syncs again and again and acts on a reorganisation; the *)
(* calls it makes besides are its own affair.  However much went wrong     *)
(* before, at last nothing does.                                           *)
Syncs(c) ==
  /\ WF_vars(CallStep(c))
  /\ SF_vars(StartScan(c, "wallet", "privacy_scan"))
  /\ SF_vars(\E h \in 1 .. MaxHeight : RollbackLoad(c, h))

FairSpec == Spec /\ (\A c \in Call : Syncs(c)) /\ <>[][Undisturbed]_vars

------------------------------------------------------------------------------
(* What the cache promises.                                                *)

(* The variables keep their ranges. *)
TypeOK ==
  /\ spentAt \in [Note -> 0 .. MaxHeight]
  /\ {replaced, since} \subseteq 0 .. MaxHeight
  /\ store \in State
  /\ \A c \in Call :
       /\ calls[c].pc \in Point
       /\ {calls[c].from, calls[c].at} \subseteq Cursor
       /\ calls[c].found \in Notes
       /\ calls[c].read \in State

Settled(h) == replaced = 0 \/ h < replaced

(* The cursor never passes a note the cache does not hold: whatever is at  *)
(* or before it on the chain, below a reorganisation not yet acted upon,   *)
(* is there, through partial pages, endpoint fallbacks, rewinds, rescans,  *)
(* failed queries and reloads (mergeScanResult, rewindScanState).          *)
NothingSkipped ==
  \A p \in Outputs :
    p <= store.cursor /\ OutputAt(p) \in Note /\ Settled(Height(p))
      => OutputAt(p) \in DOMAIN store.notes

(* A rollback leaves no note of the abandoned blocks behind, the boundary  *)
(* height included: every note kept is where the chain has it.             *)
NothingOrphaned ==
  \A n \in DOMAIN store.notes :
    LET p == store.notes[n].at
    IN  Settled(Height(p)) => p \in Outputs /\ OutputAt(p) = n

(* The cache is what the chain was up to its cursor.                       *)
CacheIsExact == TypeOK /\ NothingSkipped /\ NothingOrphaned

(* A note spent on the chain does not stay spendable in the cache, even if *)
(* a result fetched before the spend is merged after it, or over a spent   *)
(* mark: a later refresh learns of it (refreshNoteStoreSpentStatuses),     *)
(* whatever number of queries fails before.                                *)
SpentIsLearned ==
  \A n \in Note :
    [](spentAt[n] # 0 =>
         <>(spentAt[n] = 0 \/ n \notin DOMAIN store.notes \/ store.notes[n].status = "spent"))

(* However often the chain was reorganised and the page reloaded, the      *)
(* wallet ends up with its notes.                                          *)
EveryNoteIsFound ==
  \A n \in Note : []<>(OnChain(n) => n \in DOMAIN store.notes)
==============================================================================
