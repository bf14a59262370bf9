------------------------------- MODULE Pages -------------------------------
(***************************************************************************)
(* One page of CCM-Frontend in a browser, from the moment it is shown: the *)
(* questions its handlers and effects send, the answers in whatever order  *)
(* they come, the rows, dialogs and spinners the user sees.  What a page   *)
(* asks and disables is in Screens; Init shows any of them.                *)
(*                                                                         *)
(* A handler is a closure: what it reads, and what it calls after an       *)
(* await, is of the moment of the click.  So a handler that sets the page  *)
(* number and loads asks for the old one; the effect that watches the page *)
(* number asks again after the next rendering, which is the same step.     *)
(* The services are seen through their answers: a list answers with some   *)
(* state between question and answer, an action may take effect and its    *)
(* answer be lost.                                                         *)
(***************************************************************************)
EXTENDS Screens, Integers, SequencesExt, FiniteSets

CONSTANTS
  Shown,       \* the pages to look at
  Rows,        \* rows a user acts on
  MaxGestures  \* bound: what the user does

ASSUME PagesAssumption ==
  /\ Shown \subseteq Routes
  /\ Rows \cap {"none", "form"} = {}
  /\ MaxGestures \in Nat

VARIABLES
  page,    \* the page shown, as Screens describes it
  field,   \* page number, filters and typed text, each 0 as at first or 1
  asked,   \* what the user asked for last
  rows,    \* the question and the state the rows answer
  loads,   \* questions in flight
  loading, \* the flag of the spinner
  refreshing, \* the flag of a refresh that leaves the rows in sight
  dialog,  \* the action whose dialog is open, and its row
  posts,   \* actions in flight
  busy,    \* the row being processed
  detail,  \* the row of the detail dialog, what it shows, whether it waits
  views,   \* details in flight
  version, \* how many actions have changed the rows on the server
  quiet,   \* history: nothing overlapped or failed since the rows were asked
  stale,   \* history: a reset asked for them with the text it was clearing
  mixed,   \* history: details in flight "crossed", or the last one "failed"
  gestures

list == <<field, asked, rows, loads, loading, refreshing, quiet, stale>>
actions == <<dialog, posts, busy, version>>
details == <<detail, views, mixed>>
pagesVars == <<page, list, actions, details, gestures>>

The(a) == page.actions[a]
Works(a) == The(a).buttons
NoRow == "none"
Form == "form"
Fields == [page : {0, 1}, pick : {0, 1}, text : {0, 1}]
First == [page |-> 0, pick |-> 0, text |-> 0]
Nothing == [asks |-> "none"]
NoDialog == [row |-> NoRow]
Versions == 0 .. MaxGestures

PagesTypeOK ==
  /\ page \in Shown /\ field \in Fields /\ asked \in Fields
  /\ rows \in [asks : Fields, seen : Versions] \cup {Nothing}
  /\ \A i \in DOMAIN loads : loads[i] \in [asks : Fields, since : Versions]
  /\ dialog = NoDialog \/ (dialog.row \in Rows \cup {Form} /\ dialog.action \in DOMAIN page.actions)
  /\ \A i \in DOMAIN posts : posts[i].action \in DOMAIN page.actions /\ posts[i].again \in Fields
  /\ busy \in Rows \cup {Form, NoRow}
  /\ detail \in [row : Rows \cup {NoRow}, shows : Rows \cup {NoRow}, waits : BOOLEAN]
  /\ \A i \in DOMAIN views : views[i] \in Rows
  /\ {loading, refreshing, quiet, stale} \subseteq BOOLEAN /\ mixed \in {"no", "crossed", "failed"}
  /\ version \in Versions /\ gestures \in Versions

----------------------------------------------------------------------------
(* Questions.                                                              *)

(* What a load sends of the fields, and the question of a lookup.          *)
ListOf(f) == IF page.list.typed = "sent" THEN f ELSE [f EXCEPT !.text = 0]
Lookup == [First EXCEPT !.text = 1]

(* What the effect of the page depends on.                                 *)
(* Fault: the page number is missing from the dependencies.                *)
WatchedFilters(f) == f.pick

Watched(f) == <<f.page, f.pick>>

Ask(q, v) == [asks |-> q, since |-> v]

(* The first rendering.                                                    *)
PagesInit ==
  /\ page \in Shown
  /\ field = First /\ asked = First
  /\ rows = Nothing /\ loads = <<Ask(First, 0)>>
  /\ loading = TRUE /\ refreshing = FALSE /\ quiet = TRUE /\ stale = FALSE
  /\ dialog = NoDialog /\ posts = <<>> /\ busy = NoRow /\ version = 0
  /\ detail = [row |-> NoRow, shows |-> NoRow, waits |-> FALSE]
  /\ views = <<>> /\ mixed = "no"
  /\ gestures = 0

(* A spinner in place of the whole page unmounts its dialogs, and with     *)
(* them the flags they keep.                                               *)
Blank == loading /\ \/ page.table.hides = "page"
                    \/ page.table.hides = "first" /\ field.page = 0
                    \/ page.table.hides = "once" /\ rows = Nothing
KeepsFlag == page.table.hides # "page" \/ \A a \in DOMAIN page.actions : ~Works(a).inside

(* Dialogs are modal.                                                      *)
Usable == ~Blank /\ dialog = NoDialog /\ detail.row = NoRow
PagerUsable == Usable /\ ~(loading /\ page.table.hides = "table")
RowsUsable == Usable /\ ~(loading /\ page.table.hides \in {"table", "rows", "once"}) /\ rows # Nothing

Gesturing == gestures < MaxGestures /\ gestures' = gestures + 1

(* The user's handler sets the fields to g and sends questions of its own; *)
(* the effect adds one if a watched field has changed.  What it meant to   *)
(* ask, and whether its closure still has what it clears, is history.      *)
Gesture(g, own, meant, old) ==
  LET sent == own \o IF Watched(g) = Watched(field) THEN <<>> ELSE <<ListOf(g)>> IN
  /\ Gesturing
  /\ field' = g
  /\ asked' = meant
  /\ IF sent = <<>> THEN UNCHANGED <<loads, loading, quiet, stale, busy>>
     ELSE /\ loads' = loads \o [i \in DOMAIN sent |-> Ask(sent[i], version)]
          /\ loading' = TRUE
          /\ quiet' = (loads = <<>> /\ posts = <<>> /\ Len(sent) = 1)
          /\ stale' = old
          /\ busy' = IF KeepsFlag THEN busy ELSE NoRow
  /\ UNCHANGED <<page, rows, refreshing, dialog, posts, version, details>>

(* Pagination; another size goes back to the first page.                   *)
Turn(p) ==
  /\ PagerUsable /\ "turns" \in page.table.pager /\ p # field.page
  /\ LET g == [field EXCEPT !.page = p] IN Gesture(g, <<>>, ListOf(g), FALSE)

Resize(k) ==
  /\ PagerUsable /\ "sizes" \in page.table.pager /\ k # field.pick
  /\ LET g == [field EXCEPT !.pick = k, !.page = 0] IN Gesture(g, <<>>, ListOf(g), FALSE)

(* A filter the effect depends on.                                         *)
Filter(k) ==
  /\ Usable /\ k # field.pick
  /\ \E how \in page.list.filters :
       LET g == [field EXCEPT !.pick = k, !.page = IF how = "rewinds" THEN 0 ELSE @]
       IN  Gesture(g, <<>>, ListOf(g), FALSE)

Type(t) ==
  /\ Usable /\ page.list.typed # "none" /\ t # field.text
  /\ Gesture([field EXCEPT !.text = t], <<>>, asked, FALSE)

(* The buttons beside the text fields.                                     *)
Rewound == [field EXCEPT !.page = 0]

Search ==
  /\ Usable
  /\ \/ /\ page.list.search = "reload"
        /\ Gesture(field, <<ListOf(field)>>, ListOf(field), FALSE)
     \/ /\ page.list.search = "rewind"
        /\ Gesture(Rewound, <<ListOf(field)>>, ListOf(Rewound), FALSE)
     \/ /\ page.list.search = "lookup"
        /\ LET q == IF field.text = 0 THEN ListOf(field) ELSE Lookup
           IN  Gesture(field, <<q>>, q, FALSE)

(* What is set is seen after the next rendering: the handler loads with    *)
(* the text it has just cleared.                                           *)
Cleared == [f \in DOMAIN field |-> IF f \in page.list.clears THEN 0 ELSE field[f]]

ClearFields ==
  /\ Usable /\ page.list.clears # {}
  /\ Gesture(Cleared, <<ListOf(field)>>, ListOf(Cleared), ListOf(field).text # 0)

(* AdminReports keeps its rows in sight meanwhile, under a flag of its own,*)
(* which the timer that polls does not look at.                            *)
AskAside ==
  /\ Gesturing
  /\ asked' = ListOf(field) /\ loads' = Append(loads, Ask(ListOf(field), version))
  /\ refreshing' = TRUE
  /\ quiet' = (loads = <<>> /\ posts = <<>>) /\ stale' = FALSE
  /\ UNCHANGED <<page, field, rows, loading, dialog, posts, busy, version, details>>

Refresh ==
  /\ Usable
  /\ \/ /\ page.list.refresh = "free" \/ (page.list.refresh = "quiet" /\ ~loading)
        /\ Gesture(field, <<ListOf(field)>>, ListOf(field), FALSE)
     \/ page.list.refresh = "aside" /\ ~refreshing /\ AskAside

Poll == page.list.polls /\ AskAside

----------------------------------------------------------------------------
(* Answers, in any order.                                                  *)
AnswerLoad(i) ==
  /\ \E v \in loads[i].since .. version : rows' = [asks |-> loads[i].asks, seen |-> v]
  /\ loads' = RemoveAt(loads, i) /\ loading' = FALSE /\ refreshing' = FALSE
  /\ UNCHANGED <<page, field, asked, quiet, stale, actions, details, gestures>>

(* Fault: the flag is reset after a good answer only.                      *)
FailLoadForgets(i) ==
  /\ rows' = IF page.list.failure = "clears" THEN Nothing ELSE rows
  /\ loads' = RemoveAt(loads, i)
  /\ quiet' = FALSE
  /\ UNCHANGED <<page, field, asked, loading, refreshing, stale, actions, details, gestures>>

FailLoad(i) ==
  /\ rows' = IF page.list.failure = "clears" THEN Nothing ELSE rows
  /\ loads' = RemoveAt(loads, i) /\ loading' = FALSE /\ refreshing' = FALSE
  /\ quiet' = FALSE
  /\ UNCHANGED <<page, field, asked, stale, actions, details, gestures>>

----------------------------------------------------------------------------
(* Actions.                                                                *)
Open(r, a) ==
  /\ \/ The(a).starts = "dialog" /\ r # Form /\ RowsUsable
     \/ The(a).starts = "form" /\ r = Form /\ Usable
  /\ Works(a).opener = "row" => busy # r
  /\ Gesturing
  /\ dialog' = [row |-> r, action |-> a]
  /\ UNCHANGED <<page, list, posts, busy, version, details>>

(* Cancel, or the Escape key, which a held dialog ignores while it works.  *)
Dismiss ==
  /\ ~Blank /\ dialog # NoDialog
  /\ Works(dialog.action).held => busy = NoRow
  /\ dialog' = NoDialog
  /\ UNCHANGED <<page, list, posts, busy, version, details, gestures>>

Flags(a) == Works(a).guard \in {"row", "any"}

(* Fault: each button looks at its own row.                                *)
EnabledByRow(r, a) == Flags(a) => busy # r

Enabled(r, a) ==
  /\ Works(a).guard = "row" => busy # r
  /\ Works(a).guard = "any" => busy = NoRow
  /\ Works(a).guard = "detail" => ~detail.waits

Post(r, a) ==
  /\ Enabled(r, a)
  /\ Gesturing
  /\ posts' = Append(posts, [row |-> r, action |-> a, again |-> ListOf(field)])
  /\ busy' = IF Flags(a) THEN r ELSE busy
  /\ UNCHANGED <<page, list, dialog, version, details>>

Confirm == ~Blank /\ dialog # NoDialog /\ Post(dialog.row, dialog.action)

(* The button of a row, or the one in the dialog of its details.           *)
Click(r, a) ==
  /\ r # Form /\ The(a).starts = "row"
  /\ \/ RowsUsable
     \/ page.detail.acts /\ ~Blank /\ ~detail.waits /\ r \in {detail.row} \cap {detail.shows}
  /\ Post(r, a)

Done(a) == IF Flags(a) THEN NoRow ELSE busy

(* The handler asks for the rows as its closure knows them.                *)
(* Fault: it asks without waiting for its action.                          *)
ReloadEarly(q, v) ==
  /\ asked' = q /\ loads' = Append(loads, Ask(q, v - 1)) /\ loading' = TRUE
  /\ quiet' = (quiet /\ loads = <<>>) /\ stale' = FALSE /\ UNCHANGED refreshing

Reload(q, v) ==
  /\ asked' = q /\ loads' = Append(loads, Ask(q, v)) /\ loading' = TRUE
  /\ quiet' = (quiet /\ loads = <<>>) /\ stale' = FALSE /\ UNCHANGED refreshing

AnswerPost(i) ==
  LET p == posts[i] IN
  /\ posts' = RemoveAt(posts, i)
  /\ IF The(p.action).reloads = "never" THEN UNCHANGED <<version, asked, loads, loading, refreshing, quiet, stale>>
     ELSE version' = version + 1 /\ Reload(p.again, version + 1)
  /\ dialog' = IF dialog # NoDialog /\ p.action = dialog.action THEN NoDialog ELSE dialog
  /\ busy' = IF The(p.action).reloads = "never" \/ KeepsFlag THEN Done(p.action) ELSE NoRow
  /\ UNCHANGED <<page, field, rows, details, gestures>>

(* Refused, or the answer is lost.                                         *)
FailPost(i) ==
  LET p == posts[i] IN
  /\ posts' = RemoveAt(posts, i) /\ busy' = Done(p.action)
  /\ The(p.action).reloads = "never" => UNCHANGED version
  /\ version' \in {version, version + 1}
  /\ quiet' = FALSE
  /\ IF The(p.action).reloads = "always"
     THEN asked' = p.again /\ loads' = Append(loads, Ask(p.again, version')) /\ loading' = TRUE
     ELSE UNCHANGED <<asked, loads, loading>>
  /\ UNCHANGED <<page, field, rows, refreshing, stale, dialog, details, gestures>>

----------------------------------------------------------------------------
(* Details.                                                                *)

OpenDetail(r) ==
  /\ RowsUsable /\ page.detail.opens \in {"first", "last"}
  /\ Gesturing
  /\ detail' = IF page.detail.opens = "last" THEN detail
               ELSE [row |-> r, waits |-> TRUE,
                     shows |-> IF page.detail.before = "clears" THEN NoRow ELSE detail.shows]
  /\ views' = Append(views, r)
  /\ mixed' = IF views = <<>> THEN "no" ELSE "crossed"
  /\ UNCHANGED <<page, list, actions>>

(* A dialog that asks nothing, and one with a button that asks again (it   *)
(* is there when any row has been shown).                                  *)
Look(r) ==
  /\ RowsUsable /\ page.detail.opens = "local"
  /\ Gesturing
  /\ detail' = [row |-> r, shows |-> r, waits |-> FALSE]
  /\ UNCHANGED <<page, list, actions, views, mixed>>

LookAgain ==
  /\ page.detail.again /\ ~Blank /\ detail.row # NoRow /\ ~detail.waits
  /\ Gesturing
  /\ detail' = [detail EXCEPT !.waits = TRUE]
  /\ views' = Append(views, detail.row)
  /\ mixed' = IF views = <<>> THEN "no" ELSE "crossed"
  /\ UNCHANGED <<page, list, actions>>

(* What the user sees of it.                                               *)
Seen == IF detail.waits /\ page.detail.before = "covers" THEN NoRow ELSE detail.shows

AnswerDetail(i) ==
  /\ detail' = [row |-> IF page.detail.opens = "last" THEN views[i] ELSE detail.row,
                shows |-> views[i], waits |-> FALSE]
  /\ views' = RemoveAt(views, i)
  /\ UNCHANGED <<page, list, actions, mixed, gestures>>

FailDetail(i) ==
  /\ detail' = [row |-> IF page.detail.failure = "closes" THEN NoRow ELSE detail.row,
                shows |-> IF page.detail.failure = "clears" THEN NoRow ELSE detail.shows,
                waits |-> FALSE]
  /\ views' = RemoveAt(views, i)
  /\ mixed' = IF mixed = "no" THEN "failed" ELSE mixed
  /\ UNCHANGED <<page, list, actions, gestures>>

CloseDetail ==
  /\ ~Blank /\ detail.row # NoRow
  /\ detail' = [detail EXCEPT !.row = NoRow]
  /\ UNCHANGED <<page, list, actions, views, mixed, gestures>>

----------------------------------------------------------------------------
Answers ==
  \/ \E i \in DOMAIN loads : AnswerLoad(i) \/ FailLoad(i)
  \/ \E i \in DOMAIN posts : AnswerPost(i) \/ FailPost(i)
  \/ \E i \in DOMAIN views : AnswerDetail(i) \/ FailDetail(i)

PagesNext ==
  \/ \E k \in {0, 1} : Turn(k) \/ Resize(k) \/ Filter(k) \/ Type(k)
  \/ Search \/ ClearFields \/ Refresh \/ Poll
  \/ \E r \in Rows \cup {Form}, a \in DOMAIN page.actions : Open(r, a) \/ Click(r, a)
  \/ Dismiss \/ Confirm
  \/ \E r \in Rows : OpenDetail(r) \/ Look(r)
  \/ LookAgain \/ CloseDetail
  \/ Answers

(* Each request is answered or fails: the browser closes it in the end.    *)
PagesSpec == PagesInit /\ [][PagesNext]_pagesVars /\ WF_pagesVars(Answers)

----------------------------------------------------------------------------
(* Nothing overlapped, nothing failed: the rows answer what the user asked *)
(* for last, whatever was typed or turned before.  Exempt (`stale`) are    *)
(* the rows after a reset on the pages where handleReset or                *)
(* handleClearFilters loads from its own closure: AdminTransactionsPage,   *)
(* AdminListings and AdminWalletsPage ask once more with the text just     *)
(* cleared, and show what that answers until they are asked again.  A      *)
(* dialog of details shows the row it was opened for, and no other while   *)
(* it waits for the answer, but on the page that covers nothing: there,    *)
(* MyListings has the bids on another listing under the title of this one. *)
RowsAnswerWhatWasAsked ==
  /\ quiet /\ ~stale /\ loads = <<>> => rows # Nothing /\ rows.asks = asked
  /\ detail.row # NoRow /\ mixed = "no" =>
       \/ Seen = detail.row
       \/ detail.waits /\ (Seen = NoRow \/ page.detail.before = "keeps")

(* Undisturbed rows, those after a reset among them, show the effect of    *)
(* every action of this page.                                              *)
RowsShowOwnActions ==
  quiet /\ loads = <<>> => rows # Nothing /\ rows.seen = version

(* A flag the page itself keeps lets one action through at a time, even    *)
(* when its dialog is dismissed and opened for another row; not so where a *)
(* button beside each row sets the same flag.                              *)
OneAtATime ==
  KeepsFlag /\ (\A a \in DOMAIN page.actions : Works(a).guard # "row") =>
    Cardinality({i \in DOMAIN posts : Works(posts[i].action).guard = "any"}) < 2

(* No spinner turns for ever, and no button stays disabled.                *)
SpinnersEnd ==
  (loading ~> ~loading) /\ (refreshing ~> ~refreshing) /\ (busy # NoRow ~> busy = NoRow)
=============================================================================
