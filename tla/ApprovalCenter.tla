--------------------------- MODULE ApprovalCenter ---------------------------
(***************************************************************************)
(* The approval centre of the console (frontend/src/components/            *)
(* ApprovalCenter.tsx, mounted by App.tsx) in front of the API, beside     *)
(* other approvers.                                                        *)
(*                                                                         *)
(* The queue on the page is the last answer of GET /workflows/approval/    *)
(* pending: fetched on mount, every ten seconds, on the refresh button and *)
(* after the page's own decisions.  A decision is confirmed in a dialog,   *)
(* which can be closed, and opened for another thread, while the decision  *)
(* is in flight; leaving the page and coming back makes a new component,   *)
(* to which the answer of the old one's decision means nothing.            *)
(*                                                                         *)
(* The browser is online, the approver's token is valid, and no start      *)
(* loses the acknowledgement of its commit (see Approval).  The query      *)
(* client is external: one fetch of a query at a time, an invalidation     *)
(* replaces the one in flight when there is data to show meanwhile.        *)
(***************************************************************************)
EXTENDS FiniteSets

CONSTANTS
  Threads,
  Nil

ASSUME NilAssumption == Nil \notin Threads /\ \A rows \in SUBSET Threads : rows # Nil

Decisions == {"APPROVED", "REJECTED"}
\* Requests of this component and of one that was left; of the latter one at
\* a time (a bound: every leaving may leave one behind).
Slots == {"mounted", "left"}

VARIABLES
  record,   \* server: "NONE", "PENDING_APPROVAL" or the decision recorded
  mounted,  \* the approval section is shown
  list,     \* cached answer of the pending query, Nil before the first
  stale,    \* invalidated while nobody showed it
  fetch,    \* the query's fetch
  selected, \* thread of the open dialog, Nil without one
  choice,   \* decision of the dialog
  sent,     \* decisions in flight
  shown,    \* the decision the page reports as recorded
  told      \* threads so reported since the centre was opened (observation)

page == <<selected, choice, shown, told>>
vars == <<record, mounted, list, stale, fetch, selected, choice, sent, shown, told>>

NoFetch == [at |-> "idle", rows |-> {}]
Asked == [at |-> "asked", rows |-> {}]
NotSent == [at |-> "none", thread |-> Nil, decision |-> "NONE"]

Pending == {t \in Threads : record[t] = "PENDING_APPROVAL"}
Rows == IF mounted /\ list # Nil THEN list ELSE {}

Init ==
  /\ record \in [Threads -> {"NONE", "PENDING_APPROVAL"}]
  /\ mounted = FALSE
  /\ list = Nil
  /\ stale = FALSE
  /\ fetch = NoFetch
  /\ selected = Nil
  /\ choice = "APPROVED"
  /\ sent = [s \in Slots |-> NotSent]
  /\ shown = NotSent
  /\ told = {}

----------------------------------------------------------------------------
(* The API and whoever else uses it. *)

Started(t) ==
  /\ record[t] = "NONE"
  /\ record' = [record EXCEPT ![t] = "PENDING_APPROVAL"]
  /\ UNCHANGED <<mounted, list, stale, fetch, sent, page>>

DecidedByOther(t, d) ==
  /\ t \in Pending
  /\ record' = [record EXCEPT ![t] = d]
  /\ UNCHANGED <<mounted, list, stale, fetch, sent, page>>

\* GET /workflows/approval/pending reads the rows; the answer is on its way.
ListPending ==
  /\ fetch.at = "asked"
  /\ fetch' = [at |-> "answered", rows |-> Pending]
  /\ UNCHANGED <<record, mounted, list, stale, sent, page>>

\* POST .../decision records the decision, or is refused, or fails.
Decide(s) ==
  /\ sent[s].at = "asked"
  /\ \/ /\ sent[s].thread \in Pending
        /\ record' = [record EXCEPT ![sent[s].thread] = sent[s].decision]
        /\ sent' = [sent EXCEPT ![s].at = "recorded"]
     \/ /\ sent' = [sent EXCEPT ![s].at = "refused"]
        /\ UNCHANGED record
  /\ UNCHANGED <<mounted, list, stale, fetch, page>>

----------------------------------------------------------------------------
(* The query. *)

\* The answer replaces the queue; it counts as fresh, whatever was
\* invalidated since it was asked for.
Deliver ==
  /\ fetch.at = "answered"
  /\ list' = fetch.rows
  /\ stale' = FALSE
  /\ fetch' = NoFetch
  /\ UNCHANGED <<record, mounted, sent, page>>

\* After the retries: the old queue stays, the next interval asks again.
FetchFails ==
  /\ fetch.at # "idle"
  /\ fetch' = NoFetch
  /\ UNCHANGED <<record, mounted, list, stale, sent, page>>

\* A slip: no interval, so that only the user and his decisions ask again.
AskOnce == mounted /\ fetch = NoFetch /\ list = Nil /\ fetch' = Asked

\* The interval, or the button, which takes no click while a fetch is running.
AskAgain == mounted /\ fetch = NoFetch /\ fetch' = Asked

Refetch ==
  /\ AskAgain
  /\ UNCHANGED <<record, mounted, list, stale, sent, page>>

\* invalidateQueries.
Invalidate ==
  IF mounted
  THEN /\ fetch' = IF list # Nil \/ fetch.at = "idle" THEN Asked ELSE fetch
       /\ UNCHANGED stale
  ELSE stale' = TRUE /\ UNCHANGED fetch

----------------------------------------------------------------------------
(* The component. *)

\* Mounted by the navigation or by the answer of a start; data of the last ten
\* seconds is shown without being asked for again.
Open ==
  /\ ~mounted
  /\ mounted' = TRUE
  /\ \/ fetch.at = "idle" /\ fetch' = Asked
     \/ (fetch.at # "idle" \/ (list # Nil /\ ~stale)) /\ UNCHANGED fetch
  /\ UNCHANGED <<record, list, stale, sent, page>>

\* The component and its state go, its request and the cache stay.
Leave ==
  /\ mounted /\ (sent["mounted"] = NotSent \/ sent["left"] = NotSent)
  /\ mounted' = FALSE
  /\ sent' = IF sent["mounted"] = NotSent THEN sent
             ELSE [s \in Slots |-> IF s = "left" THEN sent["mounted"] ELSE NotSent]
  /\ selected' = Nil /\ choice' = "APPROVED" /\ shown' = NotSent /\ told' = {}
  /\ UNCHANGED <<record, list, stale, fetch>>

\* A dialog covers the buttons of the queue.
OpenDecision(t, d) ==
  /\ t \in Rows /\ selected = Nil
  /\ selected' = t /\ choice' = d
  /\ UNCHANGED <<record, mounted, list, stale, fetch, sent, shown, told>>

Cancel ==
  /\ selected # Nil
  /\ selected' = Nil
  /\ UNCHANGED <<record, mounted, list, stale, fetch, sent, choice, shown, told>>

\* OK takes no click while the component's last decision is in flight.
Confirm ==
  /\ selected # Nil /\ sent["mounted"] = NotSent
  /\ sent' = [sent EXCEPT !["mounted"] = [at |-> "asked", thread |-> selected, decision |-> choice]]
  /\ UNCHANGED <<record, mounted, list, stale, fetch, page>>

\* A slip: the row of the decision is taken out of the queue at once, instead
\* of asking for the queue again: whatever row the dialog is about by now.
RemoveRow ==
  /\ list' = list \ {selected}
  /\ UNCHANGED <<fetch, stale>>

\* onSuccess asks for the queue again, whatever is asked for already.
AfterSuccess == Invalidate /\ UNCHANGED list

\* A slip: the report is put together from the dialog.
ReportOfDialog(s) == [at |-> "recorded", thread |-> sent[s].thread, decision |-> choice]

\* The report is the answer of the API.
Report(s) == sent[s]

\* The answer of a decision of this component closes whatever dialog is open;
\* that of an earlier one only invalidates the queue.
Succeeds(s) ==
  /\ sent[s].at = "recorded"
  /\ IF s = "mounted"
     THEN /\ shown' = Report(s)
          /\ told' = told \cup {sent[s].thread}
          /\ selected' = Nil
     ELSE UNCHANGED <<shown, told, selected>>
  /\ AfterSuccess
  /\ sent' = [sent EXCEPT ![s] = NotSent]
  /\ UNCHANGED <<record, mounted, choice>>

\* A refusal, an error, or an answer that is lost: the dialog says so, if there
\* is one, and nothing is asked for.
Errs(s) ==
  /\ sent[s].at \in {"recorded", "refused"}
  /\ sent' = [sent EXCEPT ![s] = NotSent]
  /\ UNCHANGED <<record, mounted, list, stale, fetch, page>>

----------------------------------------------------------------------------
Next ==
  \/ \E t \in Threads : Started(t) \/ \E d \in Decisions : DecidedByOther(t, d) \/ OpenDecision(t, d)
  \/ ListPending \/ Deliver \/ FetchFails \/ Refetch
  \/ Open \/ Leave \/ Cancel \/ Confirm
  \/ \E s \in Slots : Decide(s) \/ Succeeds(s) \/ Errs(s)

Spec == Init /\ [][Next]_vars

\* The interval ticks and the API answers; requests may fail again and again,
\* but not for ever.
FairSpec == Spec /\ WF_vars(Refetch) /\ SF_vars(ListPending) /\ SF_vars(Deliver)

----------------------------------------------------------------------------
(* Properties *)

TypeOK ==
  /\ record \in [Threads -> {"NONE", "PENDING_APPROVAL"} \cup Decisions]
  /\ mounted \in BOOLEAN /\ stale \in BOOLEAN
  /\ list \in (SUBSET Threads) \cup {Nil}
  /\ fetch \in [at : {"idle", "asked", "answered"}, rows : SUBSET Threads]
  /\ selected \in Threads \cup {Nil} /\ choice \in Decisions
  /\ sent \in [Slots -> [at : {"none", "asked", "recorded", "refused"},
                         thread : Threads \cup {Nil}, decision : Decisions \cup {"NONE"}]]
  /\ shown \in [at : {"none", "recorded"}, thread : Threads \cup {Nil},
                decision : Decisions \cup {"NONE"}]
  /\ told \in SUBSET Threads

\* A row leaves the queue only because its thread was decided, never because
\* of the answer to a decision of another one; and a thread whose decision was
\* reported never comes back once it has left, not even with a queue that was
\* asked for before the decision.
QueueIsHonest ==
  [][mounted /\ mounted' =>
       /\ \A t \in Rows \ Rows' : record[t] \in Decisions
       /\ told \cap (Rows' \ Rows) = {}]_vars

\* What the page reports is what is on record for the thread it was confirmed
\* for, whatever dialog has been opened since.
ReportIsTrue == shown # NotSent => record[shown.thread] = shown.decision

\* While the centre stays open, the queue follows the server: a pending thread
\* gets into it, a decided one out of it, whoever started or decided it.
QueueFollows ==
  \A t \in Threads :
    /\ t \in Pending ~> t \in Rows \/ t \notin Pending \/ ~mounted
    /\ record[t] \in Decisions ~> t \notin Rows
=============================================================================
