----------------------------- MODULE PrivacyScan -----------------------------
(***************************************************************************)
(* A wallet scan over pages a node makes up as it likes: the loop of       *)
(* scanNotes (src/transport/cosmos-client.js) and the checks of            *)
(* validatePrivacyScanPageV2 (src/privacy/scan.js), which carry what they  *)
(* know of a half-delivered event from page to page and, with the cursor,  *)
(* from scan to scan.                                                      *)
(*                                                                         *)
(* The event with the k-th (height, global_sequence) is k; a cursor is     *)
(* k * MaxOutputs + output_index, and 0 comes before all events.  Events   *)
(* are batch transfers, and withdrawals when they have no outputs.         *)
(***************************************************************************)
EXTENDS Naturals, Sequences, FiniteSets

CONSTANTS
  MaxEvent,       \* events, bound
  MaxOutputs,     \* outputs of an event, bound
  OutputLimit,    \* outputs a page may have (output_limit)
  PageBudget,     \* pages of one scan (max_pages)
  MaxCompletion,  \* pages more to complete an event
  Views           \* may an output have, or lack, a self-view payload

PrivacyScanAssumption ==
  /\ MaxEvent \in Nat \ {0} /\ MaxOutputs \in Nat \ {0}
  /\ OutputLimit \in Nat \ {0} /\ PageBudget \in Nat \ {0}
  /\ MaxCompletion \in Nat
  /\ Views \subseteq BOOLEAN /\ Views # {}

VARIABLES
  pc,        \* paging, returned or threw
  after,     \* the cursor of the next request
  pending,   \* validation state: [event, count, last] of a half event
  views,     \* validation state: does that event have self-view payloads
  pages,     \* pages read by this scan
  more,      \* has_more of the last one
  accepted,  \* what the pages accepted so far said: counts, outputs
  saved      \* cursor, state and pages of the scans that returned

vars == <<pc, after, pending, views, pages, more, accepted, saved>>

Event == 1 .. MaxEvent
Cursor == 0 .. (MaxEvent * MaxOutputs + MaxOutputs - 1)
At(e, i) == e * MaxOutputs + i
EventOf(c) == c \div MaxOutputs
IndexOf(c) == c % MaxOutputs
Output == [at : {c \in Cursor : EventOf(c) \in Event}, view : Views]
Half == [event : Event, count : 1 .. MaxOutputs, last : 0 .. MaxOutputs]

Fresh == [after |-> 0, pending |-> {}, views |-> {}, counts |-> {}, outputs |-> {}]

Init ==
  /\ pc = "returned"
  /\ after = 0 /\ pending = {} /\ views = {}
  /\ pages = 0 /\ more = FALSE
  /\ accepted = [counts |-> {}, outputs |-> {}]
  /\ saved = Fresh

------------------------------------------------------------------------------
(* validatePrivacyScanPageV2.  A page has one output count per summary, a  *)
(* sequence of outputs, the next cursor and has_more.                      *)

Summaries == UNION {[E -> 0 .. MaxOutputs] : E \in SUBSET Event}

LastOf(page) == page.outputs[Len(page.outputs)].at
EndsAt(page, c) == page.outputs # <<>> /\ LastOf(page) = c
Returned(page) == {page.outputs[k].at : k \in DOMAIN page.outputs}

(* scanOutput: an output belongs to a summary of its page. *)
Framed(counts) ==
  {out \in Output : EventOf(out.at) \in DOMAIN counts /\ IndexOf(out.at) < counts[EventOf(out.at)]}

(* After the cursor, in order, without a gap inside an event. *)
InOrder(page) ==
  \A k \in DOMAIN page.outputs :
    LET c == page.outputs[k].at
        previous == IF k = 1 THEN after ELSE page.outputs[k - 1].at
    IN  /\ previous < c
        /\ IF EventOf(previous) = EventOf(c) THEN c = previous + 1 ELSE IndexOf(c) = 0

(* What is known of the self-view payloads of each event, with this page.  *)
SeenViews(page) ==
  views \cup {<<EventOf(page.outputs[k].at), page.outputs[k].view>> : k \in DOMAIN page.outputs}
OneView(page) == \A v, w \in SeenViews(page) : v[1] = w[1] => v = w
NextViews(page) ==
  {v \in SeenViews(page) :
     ~(v[1] \in DOMAIN page.counts /\ At(v[1], page.counts[v[1]] - 1) \in Returned(page))}

(* The page may end inside its last event, if the cursor stops there too.  *)
Partial(page) ==
  {e \in DOMAIN page.counts : page.more /\ EndsAt(page, page.next) /\ EventOf(page.next) = e}

(* mutation: the summary repeated on a resumed page is not compared *)
ResumesAnyhow(page) ==
  EventOf(after) \in DOMAIN page.counts => \E h \in pending : h.event = EventOf(after)

(* validatePendingPrivacyScanSummaries: a half event is resumed where it   *)
(* stopped, by a page that says the same of it; and no other event is.     *)
Resumes(page) ==
  /\ EventOf(after) \in DOMAIN page.counts => \E h \in pending : h.event = EventOf(after)
  /\ \A h \in pending :
       /\ At(h.event, h.last) = after
       /\ h.event \in DOMAIN page.counts /\ page.counts[h.event] = h.count

NextPending(page) ==
  {h \in pending : At(h.event, h.count - 1) \notin Returned(page)
                   /\ h.event \notin Partial(page)} \cup
  {[event |-> e, count |-> page.counts[e], last |-> IndexOf(page.next)] :
     e \in {x \in Partial(page) : IndexOf(page.next) + 1 < page.counts[x]}}

(* validateCompletedPrivacyScanPage: an announced event is there in full,  *)
(* from the cursor on, save the one the page ends in.                      *)
Complete(page) ==
  \A e \in DOMAIN page.counts :
    /\ e >= EventOf(after)
    /\ \/ e \in Partial(page)
       \/ \A i \in 0 .. page.counts[e] - 1 : At(e, i) > after \/ e # EventOf(after)
                                             => At(e, i) \in Returned(page)

Whole(page, c) ==
  EventOf(c) \in DOMAIN page.counts /\ IndexOf(c) + 1 = page.counts[EventOf(c)]
Boundary(page, c) ==
  IndexOf(c) = 0 /\ EventOf(c) \in DOMAIN page.counts /\ page.counts[EventOf(c)] = 0

(* validatePrivacyScanNextCursor: the cursor stops at the last output, or  *)
(* at a later event that has none, with no other event skipped.            *)
NextFollows(page) ==
  IF page.outputs = <<>>
  THEN page.next > after => Boundary(page, page.next)
  ELSE LET last == LastOf(page)
       IN  /\ page.next >= last
           /\ page.more \/ Whole(page, last)
           /\ page.next # last =>
                /\ Whole(page, last)
                /\ Boundary(page, page.next)
                /\ EventOf(page.next) > EventOf(last)
                /\ \A e \in DOMAIN page.counts :
                     EventOf(last) < e /\ e <= EventOf(page.next) => page.counts[e] = 0

(* The halves of the validation state agree. *)
StateAgrees(page) ==
  {v[1] : v \in NextViews(page)} = {h.event : h \in NextPending(page)}

ValidOutputs(page) == InOrder(page) /\ OneView(page)
ValidPage(page) ==
  /\ page.next >= after
  /\ Resumes(page)
  /\ NextFollows(page)
  /\ Complete(page)
  /\ page.more => page.next > after
  /\ StateAgrees(page)

------------------------------------------------------------------------------
(* The loop of scanNotes.                                                  *)

(* nextPrivacyScanOptions and restorePrivacyScanValidationStateV2: from    *)
(* where the last scan returned.                                           *)
Begin ==
  /\ pc # "paging"
  /\ pc' = "paging"
  /\ after' = saved.after /\ pending' = saved.pending /\ views' = saved.views
  /\ accepted' = [counts |-> saved.counts, outputs |-> saved.outputs]
  /\ pages' = 0 /\ more' = TRUE
  /\ UNCHANGED saved

Wants == pending # {} \/ pages < PageBudget
OutOfBudget == pages >= PageBudget + MaxCompletion

(* While an event is half delivered no more than its rest is asked for.    *)
Limit ==
  IF pending = {} THEN OutputLimit
  ELSE LET h == CHOOSE h \in pending : TRUE
           rest == h.count - h.last - 1
       IN  IF rest < OutputLimit THEN rest ELSE OutputLimit

(* Any answer of a node that passes the checks; what it says of events     *)
(* beyond its cursor counts for nothing yet.                               *)
Accept(page) ==
  /\ after' = page.next
  /\ pending' = NextPending(page)
  /\ views' = NextViews(page)
  /\ more' = page.more
  /\ accepted' =
       [counts |-> accepted.counts \cup
          {<<e, page.counts[e]>> : e \in {x \in DOMAIN page.counts : x <= EventOf(page.next)}},
        outputs |-> accepted.outputs \cup {page.outputs[k] : k \in DOMAIN page.outputs}]

Page ==
  /\ pc = "paging" /\ more /\ Wants /\ ~OutOfBudget
  /\ \E counts \in Summaries : \E n \in 0 .. Limit : \E outputs \in [1 .. n -> Framed(counts)] :
       /\ ValidOutputs([counts |-> counts, outputs |-> outputs])
       /\ \E next \in Cursor, b \in BOOLEAN :
            LET page == [counts |-> counts, outputs |-> outputs, next |-> next, more |-> b]
            IN  ValidPage(page) /\ Accept(page)
  /\ pages' = pages + 1
  /\ UNCHANGED <<pc, saved>>

(* A page that is refused, a query that fails, or the end of the session.  *)
Throw ==
  /\ pc = "paging"
  /\ pc' = "threw"
  /\ UNCHANGED <<after, pending, views, pages, more, accepted, saved>>

(* The notes and the cursor go to the caller together. *)
Return ==
  /\ pc = "paging" /\ pages > 0
  /\ ~more \/ ~Wants
  /\ pc' = "returned"
  /\ saved' = [after |-> after, pending |-> pending, views |-> views,
               counts |-> accepted.counts, outputs |-> accepted.outputs]
  /\ UNCHANGED <<after, pending, views, pages, more, accepted>>

Next == Begin \/ Page \/ Throw \/ Return

Spec == Init /\ [][Next]_vars

------------------------------------------------------------------------------
(* What the validation promises, whatever the node answers.                *)

(* The variables keep their ranges; one event at most is half delivered.   *)
TypeOK ==
  /\ pc \in {"paging", "returned", "threw"}
  /\ after \in Cursor
  /\ pending \subseteq Half /\ Cardinality(pending) <= 1
  /\ views \subseteq Event \X Views
  /\ pages \in 0 .. PageBudget + MaxCompletion
  /\ accepted.counts \subseteq Event \X (0 .. MaxOutputs)
  /\ accepted.outputs \subseteq Output

Passed(e, i) == At(e, i) <= after

(* The cursor does not pass an output that was announced and not handed    *)
(* over: of an event some page named, all outputs before the cursor were   *)
(* delivered, over any division into pages and any restarts.               *)
NothingOmitted ==
  \A claim \in accepted.counts : \A i \in 0 .. claim[2] - 1 :
    Passed(claim[1], i) => \E out \in accepted.outputs : out.at = At(claim[1], i)

(* Nor does it stay behind one that was, which the next scan would deliver *)
(* again.                                                                  *)
NothingAhead == \A out \in accepted.outputs : out.at <= after

(* An event is the same event on every page that names it: one output      *)
(* count, and self-view payloads on all of its outputs or on none.         *)
SameEventThroughout ==
  /\ \A c, d \in accepted.counts : c[1] = d[1] => c = d
  /\ \A p, q \in accepted.outputs : EventOf(p.at) = EventOf(q.at) => p.view = q.view

(* What a scan hands to the cache ends between events: a caller that drops *)
(* the validation state still gets every event whole.                      *)
ReturnsWhole ==
  /\ saved.pending = {} /\ saved.views = {}
  /\ \A out \in saved.outputs : \A claim \in saved.counts :
       claim[1] = EventOf(out.at) => \A i \in 0 .. claim[2] - 1 : \E o \in saved.outputs : o.at = At(claim[1], i)

(* A wallet gets every output up to its cursor once, and whole events.     *)
ScanIsExact ==
  TypeOK /\ NothingOmitted /\ NothingAhead /\ SameEventThroughout /\ ReturnsWhole
==============================================================================
