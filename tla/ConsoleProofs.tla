------------------------------ MODULE ConsoleProofs ------------------------------
(***************************************************************************)
(* The parts of the pages, proved of Console for any number of rows,        *)
(* requests, writes, answers and files: what is acknowledged is shown, a     *)
(* dialog acts once and for its own row, a table shows the rows it asked     *)
(* for, an import is accounted for, and the frame shows the theme.           *)
(***************************************************************************)
EXTENDS Console, DataProofs

--------------------------------------------------------------------------------
(* The dialogs *)

\* What the dialogs have in common.  A dialog that sends is closed by the click,
\* or its button is disabled until the answer; what an answer does not close has
\* nothing typed for a row in it that the next opening would find.
DialogFacts(d) ==
    /\ d.target \in BOOLEAN /\ d.sends \in BOOLEAN /\ d.result \in BOOLEAN
    /\ d.detail \in BOOLEAN /\ d.toggles \in BOOLEAN
    /\ d.sends => "click" \in d.closes \/ d.guard \in {"form", "mutation"}
    /\ d.sends /\ d.guard = "form" =>
           {"success", "failure"} \subseteq d.closes \cap d.resets
    /\ d.guard = "mutation" => ~d.detail
    /\ d.target /\ d.input # "none" => {"open", "cancel"} \cap d.resets # {}
    /\ "click" \in d.closes /\ d.target => d.input = "none" \/ "open" \in d.resets
    /\ d.target /\ d.sends /\ d.guard # "form" => d.input = "none"
    /\ d.result => "cancel" \in d.resets /\ d.closes = {} /\ ~d.sends

LEMMA AllDialogsFacts == \A d \in AllDialogs : DialogFacts(d)
<1>1. DialogFacts(BalanceDialog)
  BY DEF DialogFacts, BalanceDialog, Plain
<1>2. DialogFacts(CreateCustomerSheet)
  BY DEF DialogFacts, CreateCustomerSheet, Plain
<1>3. DialogFacts(RatePlanSheet)
  BY DEF DialogFacts, RatePlanSheet, Plain
<1>4. DialogFacts(BlacklistAdd)
  BY DEF DialogFacts, BlacklistAdd, Plain
<1>5. DialogFacts(ToggleDialog)
  BY DEF DialogFacts, ToggleDialog, Plain
<1>6. DialogFacts(RemoveBlacklisted) /\ DialogFacts(HangupAction)
  BY DEF DialogFacts, RemoveBlacklisted, HangupAction, ConfirmDialog, Plain
<1>7. DialogFacts(GatewayConfigSheet)
  BY DEF DialogFacts, GatewayConfigSheet, Plain
<1>8. DialogFacts(DidAssignDialog)
  BY DEF DialogFacts, DidAssignDialog, Plain
<1>9. DialogFacts(TestOriginateDialog)
  BY DEF DialogFacts, TestOriginateDialog, Plain
<1>10. QED
  BY <1>1, <1>2, <1>3, <1>4, <1>5, <1>6, <1>7, <1>8, <1>9 DEF AllDialogs

\* DialogSound is not inductive.  A call under way keeps the button of its own
\* opening disabled, or the opening is over (Guarded); an answer to the form
\* that made the call finds that form's page.
Guarded ==
    /\ ~dialog.sends => calls = {}
    /\ \A c \in calls : c.form => c.page
    /\ \A c \in calls : dlg.shown /\ c.opening = dlg.opening =>
           (dialog.guard = "form" /\ busy) \/ (dialog.guard = "mutation" /\ c.form)

\* What is left in a form that is not shown will be reset before it is shown
\* for a row, or belongs to no row.
OwnForm ==
    /\ ~dialog.target => dlg.target = NoTarget
    /\ dialog.input = "none" => ~dlg.typed
    /\ dlg.typed /\ ~dlg.cut => dlg.typedFor = dlg.target
    /\ ~dlg.shown /\ dlg.typed /\ ~dlg.cut => "open" \in dialog.resets \/ ~dialog.target
    /\ dlg.resultOf # NoTarget => dialog.result /\ dlg.shown /\ dlg.resultOf = dlg.target

DialogTypes == DialogTypeOK /\ IsFiniteSet(calls)

DialogInv == DialogTypes /\ Guarded /\ OwnForm /\ NoDoubleSubmit /\ BusyMeansWaiting

DlgRecord ==
    [shown : BOOLEAN, target : Targets \cup {NoTarget}, opening : Openings,
     typed : BOOLEAN, typedFor : Targets \cup {NoTarget}, cut : BOOLEAN,
     resultOf : Targets \cup {NoTarget}]

\* What a reset and an opening leave of the record
LEMMA ResetOnParts ==
    ASSUME NEW d \in DlgRecord, NEW event
    PROVE  LET r == ResetOn(event, d)
           IN  /\ r \in DlgRecord
               /\ r.shown = d.shown /\ r.target = d.target /\ r.opening = d.opening
               /\ event \in dialog.resets =>
                      ~r.typed /\ ~r.cut /\ r.typedFor = NoTarget /\ r.resultOf = NoTarget
               /\ event \notin dialog.resets => r = d
BY DEF ResetOn, Reset, DlgRecord

LEMMA OpeningsAreNumbers == 1 \in Openings /\ Openings \subseteq Nat /\ IsFiniteSet(Openings)
BY MaxCallsAssumption, FS_Interval DEF Openings

LEMMA DialogInitially ==
    ASSUME NEW dialogs \in SUBSET AllDialogs, DialogInit(dialogs)
    PROVE  DialogInv
<1>1. DialogTypes
  BY FS_EmptySet, OpeningsAreNumbers DEF DialogInit, DialogTypes, DialogTypeOK, Closed
<1>2. Guarded /\ OwnForm /\ NoDoubleSubmit /\ BusyMeansWaiting
  BY DEF DialogInit, Closed, Guarded, OwnForm, NoDoubleSubmit, BusyMeansWaiting
<1>3. QED
  BY <1>1, <1>2 DEF DialogInv

\* The number of requests of one opening
LEMMA NthType ==
    ASSUME DialogTypes, Cardinality(calls) < MaxCalls
    PROVE  NewCall.nth \in Openings
<1> DEFINE S == {c \in calls : c.opening = dlg.opening}
<1>1. IsFiniteSet(S) /\ Cardinality(S) <= Cardinality(calls)
  BY FS_Subset DEF DialogTypes
<1>2. Cardinality(S) \in Nat /\ Cardinality(calls) \in Nat
  BY <1>1, FS_CardinalityType DEF DialogTypes
<1>3. 1 + Cardinality(S) \in 1 .. MaxCalls + 1
  BY <1>1, <1>2, MaxCallsAssumption
<1>4. QED
  BY <1>3 DEF NewCall, Openings

--------------------------------------------------------------------------------
(* One lemma for each event of a dialog *)

LEMMA OpenDialogKeeps ==
    ASSUME DialogInv, NEW t, OpenDialog(t)
    PROVE  DialogInv'
<1> DEFINE d(o) == [dlg EXCEPT !.shown = TRUE, !.target = t, !.opening = o]
<1>0. DialogFacts(dialog) /\ dlg \in DlgRecord
  BY AllDialogsFacts DEF DialogInv, DialogTypes, DialogTypeOK, DlgRecord
<1>1. PICK o \in Openings : (\A c \in calls : c.opening # o) /\ dlg' = ResetOn("open", d(o))
  BY DEF OpenDialog
<1>2. /\ t \in Targets \cup {NoTarget} /\ (~dialog.target => t = NoTarget) /\ ~dlg.shown
      /\ UNCHANGED <<dialog, calls>> /\ busy' = BusyAfter("open")
  BY <1>0 DEF OpenDialog, DialogFacts
<1>3. d(o) \in DlgRecord /\ d(o).shown /\ d(o).target = t /\ d(o).opening = o
  BY <1>0, <1>2 DEF DlgRecord
<1>4. /\ dlg' \in DlgRecord /\ dlg'.shown /\ dlg'.target = t /\ dlg'.opening = o
      /\ "open" \in dialog.resets =>
             ~dlg'.typed /\ ~dlg'.cut /\ dlg'.typedFor = NoTarget /\ dlg'.resultOf = NoTarget
      /\ "open" \notin dialog.resets => dlg' = d(o)
  BY <1>1, <1>3, ResetOnParts
<1>5. "open" \notin dialog.resets =>
          /\ dlg'.typed = dlg.typed /\ dlg'.cut = dlg.cut
          /\ dlg'.typedFor = dlg.typedFor /\ dlg'.resultOf = dlg.resultOf
  BY <1>0, <1>4 DEF DlgRecord
<1>6. DialogTypes'
  BY <1>2, <1>4 DEF DialogInv, DialogTypes, DialogTypeOK, DlgRecord, BusyAfter
<1>7. Guarded' /\ NoDoubleSubmit' /\ BusyMeansWaiting'
  BY <1>1, <1>2, <1>4 DEF DialogInv, Guarded, NoDoubleSubmit, BusyMeansWaiting, BusyAfter
<1>8. OwnForm'
  BY <1>0, <1>2, <1>4, <1>5 DEF DialogInv, OwnForm
<1>9. QED
  BY <1>6, <1>7, <1>8 DEF DialogInv

LEMMA TypeInputKeeps ==
    ASSUME DialogInv, TypeInput
    PROVE  DialogInv'
<1>0. dlg \in DlgRecord
  BY DEF DialogInv, DialogTypes, DialogTypeOK, DlgRecord
<1>1. /\ UNCHANGED <<dialog, busy, calls>> /\ dlg.shown /\ dialog.input # "none"
      /\ dlg' \in DlgRecord
      /\ dlg'.shown /\ dlg'.typed /\ dlg'.typedFor = dlg.target /\ dlg'.target = dlg.target
      /\ dlg'.opening = dlg.opening /\ dlg'.resultOf = dlg.resultOf
  BY <1>0 DEF TypeInput, DlgRecord
<1>2. DialogTypes' /\ Guarded'
  BY <1>1 DEF DialogInv, DialogTypes, DialogTypeOK, DlgRecord, Guarded
<1>3. OwnForm' /\ NoDoubleSubmit' /\ BusyMeansWaiting'
  BY <1>1 DEF DialogInv, OwnForm, NoDoubleSubmit, BusyMeansWaiting
<1>4. QED
  BY <1>2, <1>3 DEF DialogInv

LEMMA CancelKeeps ==
    ASSUME DialogInv, Cancel
    PROVE  DialogInv'
<1> DEFINE d == [dlg EXCEPT !.shown = FALSE]
<1>0. DialogFacts(dialog) /\ dlg \in DlgRecord
  BY AllDialogsFacts DEF DialogInv, DialogTypes, DialogTypeOK, DlgRecord
<1>1. /\ d \in DlgRecord /\ ~d.shown /\ d.target = dlg.target /\ d.typed = dlg.typed
      /\ d.typedFor = dlg.typedFor /\ d.cut = dlg.cut /\ d.resultOf = dlg.resultOf
  BY <1>0 DEF DlgRecord
<1>2. /\ UNCHANGED <<dialog, calls>> /\ busy' = BusyAfter("cancel")
      /\ dlg' = ResetOn("cancel", d)
  BY DEF Cancel
<1>3. /\ dlg' \in DlgRecord /\ ~dlg'.shown /\ dlg'.target = dlg.target
      /\ "cancel" \in dialog.resets =>
             ~dlg'.typed /\ ~dlg'.cut /\ dlg'.typedFor = NoTarget /\ dlg'.resultOf = NoTarget
      /\ "cancel" \notin dialog.resets => dlg' = d
  BY <1>1, <1>2, ResetOnParts
<1>4. DialogTypes'
  BY <1>2, <1>3 DEF DialogInv, DialogTypes, DialogTypeOK, DlgRecord, BusyAfter
<1>5. Guarded' /\ NoDoubleSubmit' /\ BusyMeansWaiting'
  BY <1>2, <1>3 DEF DialogInv, Guarded, NoDoubleSubmit, BusyMeansWaiting, BusyAfter
<1>6. OwnForm'
  BY <1>0, <1>1, <1>2, <1>3 DEF DialogInv, OwnForm, DialogFacts
<1>7. QED
  BY <1>4, <1>5, <1>6 DEF DialogInv

LEMMA SubmitKeeps ==
    ASSUME DialogInv, Submit
    PROVE  DialogInv'
<1>0. DialogFacts(dialog) /\ dlg \in DlgRecord
  BY AllDialogsFacts DEF DialogInv, DialogTypes, DialogTypeOK, DlgRecord
<1>1. /\ dlg' \in DlgRecord /\ dlg'.shown = ("click" \notin dialog.closes)
      /\ dlg'.target = dlg.target /\ dlg'.opening = dlg.opening
      /\ dlg'.typed = dlg.typed /\ dlg'.typedFor = dlg.typedFor /\ dlg'.cut = dlg.cut
      /\ dlg'.resultOf = IF dialog.result THEN dlg.target ELSE dlg.resultOf
  BY <1>0 DEF Submit, DlgRecord
<1>2. /\ UNCHANGED dialog /\ dlg.shown /\ ~ButtonDisabled
      /\ calls' = IF dialog.sends THEN calls \cup {NewCall} ELSE calls
      /\ busy' = (dialog.sends /\ dialog.guard = "form")
  BY DEF Submit
<1>3. \A c \in calls : c.opening # dlg.opening
  BY <1>2 DEF DialogInv, Guarded, ButtonDisabled, IsPending
<1>4. NewCall.nth = 1
  <2>1. {c \in calls : c.opening = dlg.opening} = {}
    BY <1>3
  <2>2. QED
    BY <2>1, FS_EmptySet DEF NewCall
<1>5. dialog.sends => NewCall \in Call
  <2>1. 1 \in Openings
    BY OpeningsAreNumbers
  <2>2. QED
    BY <1>0, <1>4, <2>1 DEF NewCall, Call, DlgRecord
<1>6. DialogTypes'
  BY <1>0, <1>1, <1>2, <1>5, FS_AddElement
     DEF DialogInv, DialogTypes, DialogTypeOK, DlgRecord, DialogFacts
<1>7. NewCall.opening = dlg.opening /\ NewCall.form /\ NewCall.page
  BY DEF NewCall
<1>8. Guarded'
  BY <1>0, <1>1, <1>2, <1>3, <1>7 DEF DialogInv, Guarded, DialogFacts
<1>9. NoDoubleSubmit' /\ BusyMeansWaiting'
  BY <1>2, <1>4, <1>7 DEF DialogInv, NoDoubleSubmit, BusyMeansWaiting
<1>10. OwnForm'
  BY <1>0, <1>1, <1>2 DEF DialogInv, OwnForm, DialogFacts
<1>11. QED
  BY <1>6, <1>8, <1>9, <1>10 DEF DialogInv

LEMMA AnsweredKeeps ==
    ASSUME DialogInv, NEW c \in calls, NEW event \in {"success", "failure"}, Answered(c, event)
    PROVE  DialogInv'
<1> DEFINE closes == c.page /\ event \in dialog.closes
           shut == [dlg EXCEPT !.shown = @ /\ ~closes]
           cut == [shut EXCEPT !.cut = @ \/ (closes /\ dlg.typed)]
<1>0. /\ DialogFacts(dialog) /\ dlg \in DlgRecord /\ c \in Call /\ dialog.sends
      /\ calls \subseteq Call /\ c.form \in BOOLEAN /\ c.page \in BOOLEAN
  BY AllDialogsFacts DEF DialogInv, DialogTypes, DialogTypeOK, DlgRecord, Guarded, Call
<1>1. /\ shut \in DlgRecord /\ (shut.shown <=> dlg.shown /\ ~closes)
      /\ shut.target = dlg.target
      /\ shut.typed = dlg.typed /\ shut.opening = dlg.opening /\ shut.cut = dlg.cut
      /\ shut.typedFor = dlg.typedFor /\ shut.resultOf = dlg.resultOf
  BY <1>0 DEF DlgRecord
<1>2. UNCHANGED dialog /\ calls' = calls \ {c} /\ busy' = (busy /\ ~c.form)
  BY DEF Answered
<1>3. CASE c.form
  <2>0. dlg' = ResetOn(event, shut)
    BY <1>3 DEF Answered
  <2> HIDE DEF shut
  <2>1. /\ dlg' \in DlgRecord /\ dlg'.shown = shut.shown
        /\ dlg'.target = shut.target /\ dlg'.opening = shut.opening
        /\ event \in dialog.resets =>
               ~dlg'.typed /\ ~dlg'.cut /\ dlg'.typedFor = NoTarget /\ dlg'.resultOf = NoTarget
        /\ event \notin dialog.resets => dlg' = shut
    BY <1>1, <2>0, ResetOnParts
  <2>2. /\ c.page
        /\ dialog.guard = "form" => ~dlg'.shown
        /\ ~dialog.result /\ dlg.resultOf = NoTarget
    BY <1>0, <1>1, <1>3, <2>1 DEF DialogInv, Guarded, OwnForm, DialogFacts
  <2>3. DialogTypes'
    BY <1>0, <1>2, <2>1, FS_RemoveElement
       DEF DialogInv, DialogTypes, DialogTypeOK, DlgRecord
  <2>4. Guarded' /\ NoDoubleSubmit' /\ BusyMeansWaiting'
    BY <1>0, <1>1, <1>2, <1>3, <2>1, <2>2 DEF DialogInv, Guarded, NoDoubleSubmit, BusyMeansWaiting
  <2>5. dialog.target /\ dialog.input # "none" => event \in dialog.resets
    BY <1>0 DEF DialogFacts
  <2>6. OwnForm'
    BY <1>0, <1>1, <1>2, <2>1, <2>2, <2>5 DEF DialogInv, OwnForm
  <2>7. QED
    BY <2>3, <2>4, <2>6 DEF DialogInv
<1>4. CASE ~c.form
  <2>0. dlg' = cut
    BY <1>4 DEF Answered
  <2>1. /\ dlg' \in DlgRecord /\ (dlg'.shown <=> dlg.shown /\ ~closes)
        /\ dlg'.target = dlg.target /\ dlg'.opening = dlg.opening
        /\ dlg'.typed = dlg.typed /\ dlg'.typedFor = dlg.typedFor
        /\ dlg'.resultOf = dlg.resultOf /\ (dlg'.cut <=> dlg.cut \/ (closes /\ dlg.typed))
    BY <1>0, <1>1, <2>0 DEF DlgRecord
  <2>2. busy' = busy /\ ~dialog.result /\ dlg.resultOf = NoTarget
    BY <1>0, <1>2, <1>4 DEF DialogInv, DialogTypes, DialogTypeOK, OwnForm, DialogFacts
  <2>3. DialogTypes'
    BY <1>0, <1>2, <2>1, <2>2, FS_RemoveElement
       DEF DialogInv, DialogTypes, DialogTypeOK, DlgRecord
  <2>4. Guarded' /\ NoDoubleSubmit' /\ BusyMeansWaiting'
    BY <1>0, <1>2, <1>4, <2>1, <2>2 DEF DialogInv, Guarded, NoDoubleSubmit, BusyMeansWaiting
  <2>5. OwnForm'
    BY <1>0, <1>2, <2>1, <2>2 DEF DialogInv, OwnForm
  <2>6. QED
    BY <2>3, <2>4, <2>5 DEF DialogInv
<1>5. QED
  BY <1>3, <1>4

LEMMA LeavePageKeeps ==
    ASSUME DialogInv, LeavePage
    PROVE  DialogInv'
<1> DEFINE left(c) == [c EXCEPT !.page = FALSE, !.form = FALSE]
<1>0. /\ DialogFacts(dialog) /\ dlg \in DlgRecord /\ calls \subseteq Call
  BY AllDialogsFacts DEF DialogInv, DialogTypes, DialogTypeOK, DlgRecord
<1>1. /\ dlg' \in DlgRecord /\ ~dlg'.shown /\ dlg'.target = NoTarget /\ ~dlg'.typed
      /\ dlg'.resultOf = NoTarget
  BY <1>0 DEF LeavePage, Closed, DlgRecord
<1>2. UNCHANGED dialog /\ busy' = FALSE /\ calls' = {left(c) : c \in calls}
  BY DEF LeavePage
<1>3. \A c \in calls : left(c) \in Call /\ ~left(c).form /\ left(c).nth = c.nth
  BY <1>0 DEF Call
<1>4. IsFiniteSet(calls')
  <2> DEFINE f == [c \in calls |-> left(c)]
  <2>1. f \in Surjection(calls, calls')
    BY <1>2 DEF Surjection
  <2>2. QED
    BY <2>1, FS_Surjection DEF DialogInv, DialogTypes
<1>5. DialogTypes'
  BY <1>1, <1>2, <1>3, <1>4 DEF DialogInv, DialogTypes, DialogTypeOK, DlgRecord
<1>6. ~dialog.sends => calls' = {}
  BY <1>2 DEF DialogInv, Guarded
<1>7. Guarded' /\ NoDoubleSubmit' /\ BusyMeansWaiting'
  BY <1>1, <1>2, <1>3, <1>6 DEF DialogInv, Guarded, NoDoubleSubmit, BusyMeansWaiting
<1>8. OwnForm'
  BY <1>1, <1>2 DEF DialogInv, OwnForm
<1>9. QED
  BY <1>5, <1>7, <1>8 DEF DialogInv

LEMMA VisitDetailKeeps ==
    ASSUME DialogInv, VisitDetail
    PROVE  DialogInv'
<1> DEFINE left(c) == [c EXCEPT !.form = FALSE]
<1>0. /\ DialogFacts(dialog) /\ dlg \in DlgRecord /\ calls \subseteq Call
  BY AllDialogsFacts DEF DialogInv, DialogTypes, DialogTypeOK, DlgRecord
<1>1. /\ dlg' \in DlgRecord /\ ~dlg'.shown /\ dlg'.target = dlg.target /\ ~dlg'.typed
      /\ dlg'.resultOf = NoTarget
  BY <1>0 DEF VisitDetail, Reset, DlgRecord
<1>2. UNCHANGED dialog /\ busy' = FALSE /\ calls' = {left(c) : c \in calls}
  BY DEF VisitDetail
<1>3. \A c \in calls : left(c) \in Call /\ ~left(c).form /\ left(c).nth = c.nth
  BY <1>0 DEF Call
<1>4. IsFiniteSet(calls')
  <2> DEFINE f == [c \in calls |-> left(c)]
  <2>1. f \in Surjection(calls, calls')
    BY <1>2 DEF Surjection
  <2>2. QED
    BY <2>1, FS_Surjection DEF DialogInv, DialogTypes
<1>5. DialogTypes'
  BY <1>1, <1>2, <1>3, <1>4 DEF DialogInv, DialogTypes, DialogTypeOK, DlgRecord
<1>6. ~dialog.sends => calls' = {}
  BY <1>2 DEF DialogInv, Guarded
<1>7. Guarded' /\ NoDoubleSubmit' /\ BusyMeansWaiting'
  BY <1>1, <1>2, <1>3, <1>6 DEF DialogInv, Guarded, NoDoubleSubmit, BusyMeansWaiting
<1>8. OwnForm'
  BY <1>1, <1>2 DEF DialogInv, OwnForm
<1>9. QED
  BY <1>5, <1>7, <1>8 DEF DialogInv

LEMMA DialogKeeps ==
    ASSUME DialogInv, DialogNext \/ UNCHANGED dialogVars
    PROVE  DialogInv'
<1>1. CASE UNCHANGED dialogVars
  <2>1. UNCHANGED <<dialog, dlg, busy, calls>>
    BY <1>1 DEF dialogVars
  <2>2. DialogTypes' /\ Guarded' /\ OwnForm'
    BY <2>1 DEF DialogInv, DialogTypes, DialogTypeOK, Guarded, OwnForm
  <2>3. NoDoubleSubmit' /\ BusyMeansWaiting'
    BY <2>1 DEF DialogInv, NoDoubleSubmit, BusyMeansWaiting
  <2>4. QED
    BY <2>2, <2>3 DEF DialogInv
<1>2. QED
  BY <1>1, OpenDialogKeeps, TypeInputKeeps, CancelKeeps, SubmitKeeps, AnsweredKeeps,
     LeavePageKeeps, VisitDetailKeeps DEF DialogNext

--------------------------------------------------------------------------------
(* The query of a page *)

\* A row of the tables is excused, or its mutation refreshes what it affects.
Refreshed == row.affects => row.stales \/ row.excused

Sent == {w \in writes : w.st = "sent"}

\* Writes under way have room: WritesRoom keeps server within its bound.
QueryTypes ==
    /\ PageQueryTypeOK
    /\ IsFiniteSet(writes)
    /\ server + Cardinality(Sent) <= MaxWrites

\* AckedIsShown is about a page that is idle.  Before, an answer that was read
\* has what was acknowledged, or is known to be overtaken; and an entry that
\* lacks it is stale where nobody looks, so that the next visit asks again.
Answers ==
    /\ acked <= server
    /\ \A w \in writes : w.st = "done" => w.ver <= server
    /\ ~row.affects => acked = 0
    /\ entry.status = "success" => entry.has
    /\ ~row.excused /\ ~raced =>
           /\ fetch.st = "read" => fetch.ver >= acked
           /\ entry.status = "success" /\ ~Fetching /\ (onPage \/ ~entry.stale) =>
                  entry.ver >= acked

QueryInv == QueryTypes /\ Refreshed /\ Answers

RowType ==
    [affects : BOOLEAN, stales : BOOLEAN, polls : BOOLEAN, retries : 0 .. 1,
     away : BOOLEAN, excused : BOOLEAN]
Entries ==
    [has : BOOLEAN, ver : 0 .. MaxWrites, status : {"pending", "success", "error"},
     stale : BOOLEAN]
Fetches == [st : {"none", "sent", "read"}, ver : 0 .. MaxWrites, tries : 0 .. 1]

LEMMA QueryFacts ==
    ASSUME QueryInv
    PROVE  /\ row \in RowType /\ entry \in Entries /\ fetch \in Fetches
           /\ server \in 0 .. MaxWrites /\ acked \in 0 .. MaxWrites /\ MaxWrites \in Nat
           /\ writes \subseteq Writes /\ raced \in BOOLEAN /\ onPage \in BOOLEAN
           /\ IsFiniteSet(writes) /\ Cardinality(Sent) \in Nat
BY MaxWritesAssumption, FS_Subset, FS_CardinalityType
   DEF QueryInv, QueryTypes, PageQueryTypeOK, RowType, Entries, Fetches, Sent

LEMMA NothingAsked == NoEntry \in Entries /\ NoFetch \in Fetches
BY MaxWritesAssumption DEF NoEntry, NoFetch, Entries, Fetches

LEMMA QueryInitially ==
    ASSUME NEW rows \in SUBSET RowType, PageQueryInit(rows),
           \A r \in rows : r.affects => r.stales \/ r.excused
    PROVE  QueryInv
<1>1. Sent = {} /\ Cardinality(Sent) = 0 /\ IsFiniteSet(writes)
  BY FS_EmptySet DEF PageQueryInit, Sent
<1>2. row \in RowType /\ entry \in Entries /\ fetch \in Fetches
  BY NothingAsked DEF PageQueryInit
<1>3. server \in 0 .. MaxWrites /\ acked \in 0 .. MaxWrites /\ server + Cardinality(Sent) <= MaxWrites
  BY <1>1, MaxWritesAssumption DEF PageQueryInit
<1>4. QueryTypes
  BY <1>1, <1>2, <1>3
     DEF PageQueryInit, QueryTypes, PageQueryTypeOK, RowType, Entries, Fetches
<1>5. Refreshed /\ Answers
  BY DEF PageQueryInit, Refreshed, Answers, NoEntry, NoFetch, Fetching
<1>6. QED
  BY <1>4, <1>5 DEF QueryInv

\* A step that leaves the writes alone keeps room for them.
LEMMA ReadersKeep ==
    ASSUME QueryInv, UNCHANGED <<row, server, writes, acked>>,
           entry' \in Entries, fetch' \in Fetches, raced' \in BOOLEAN, onPage' \in BOOLEAN,
           entry'.status = "success" => entry'.has,
           ~row.excused /\ ~raced' =>
               /\ fetch'.st = "read" => fetch'.ver >= acked
               /\ entry'.status = "success" /\ fetch'.st = "none" /\ (onPage' \/ ~entry'.stale)
                      => entry'.ver >= acked
    PROVE  QueryInv'
<1>1. Sent' = Sent
  BY DEF Sent
<1>2. QueryTypes'
  BY <1>1 DEF QueryInv, QueryTypes, PageQueryTypeOK, Entries, Fetches
<1>3. Refreshed' /\ Answers'
  BY DEF QueryInv, Refreshed, Answers, Fetching
<1>4. QED
  BY <1>2, <1>3 DEF QueryInv

LEMMA StartFetchParts ==
    ASSUME QueryInv, StartFetch
    PROVE  /\ fetch' \in Fetches /\ fetch'.st = "sent"
           /\ entry' \in Entries /\ (entry'.status = "success" => entry'.has)
           /\ raced' = FALSE
<1>1. [st |-> "sent", ver |-> 0, tries |-> row.retries] \in Fetches
  BY QueryFacts DEF Fetches, RowType
<1>2. entry' \in Entries /\ (entry'.status = "success" => entry'.has)
  BY QueryFacts DEF StartFetch, Entries, QueryInv, Answers
<1>3. QED
  BY <1>1, <1>2 DEF StartFetch

LEMMA PageKeeps ==
    ASSUME QueryInv, OpenPage \/ ClosePage \/ Refetch \/ Poll
    PROVE  QueryInv'
<1>0. /\ entry \in Entries /\ fetch \in Fetches /\ raced \in BOOLEAN
      /\ (entry.status = "success" => entry.has) /\ entry.stale \in BOOLEAN
      /\ ~row.excused /\ ~raced =>
           /\ fetch.st = "read" => fetch.ver >= acked
           /\ entry.status = "success" /\ fetch.st = "none" /\ (onPage \/ ~entry.stale) =>
                  entry.ver >= acked
  BY QueryFacts DEF QueryInv, Answers, Fetching, Entries
<1>1. CASE StartFetch /\ UNCHANGED <<row, server, writes, acked>> /\ onPage' = TRUE
  BY <1>1, StartFetchParts, ReadersKeep
<1>2. CASE /\ OpenPage
           /\ Fetching \/ (entry.has /\ ~entry.stale)
           /\ UNCHANGED <<entry, fetch, raced>>
  BY <1>0, <1>2, ReadersKeep DEF OpenPage, Fetching
<1>3. CASE ClosePage
  BY <1>0, <1>3, ReadersKeep DEF ClosePage
<1>4. QED
  BY <1>1, <1>2, <1>3, QueryFacts DEF OpenPage, Refetch, Poll

LEMMA FetchKeeps ==
    ASSUME QueryInv, FetchReads \/ FetchAnswered \/ FetchFails
    PROVE  QueryInv'
<1>0. /\ entry \in Entries /\ fetch \in Fetches /\ raced \in BOOLEAN /\ onPage \in BOOLEAN
      /\ (entry.status = "success" => entry.has) /\ acked <= server
      /\ server \in 0 .. MaxWrites
      /\ ~row.excused /\ ~raced => (fetch.st = "read" => fetch.ver >= acked)
  BY QueryFacts DEF QueryInv, Answers
<1>1. CASE FetchReads
  <2>1. /\ fetch' \in Fetches /\ fetch'.st = "read" /\ fetch'.ver = server
        /\ UNCHANGED <<row, server, entry, writes, acked, raced, onPage>>
    BY <1>0, <1>1 DEF FetchReads, Fetches
  <2>2. QED
    BY <1>0, <2>1, ReadersKeep
<1>2. CASE FetchAnswered
  <2>1. /\ fetch' = NoFetch /\ fetch'.st = "none"
        /\ entry' \in Entries /\ entry'.has /\ entry'.ver = fetch.ver
        /\ fetch.st = "read" /\ UNCHANGED <<row, server, writes, acked, raced, onPage>>
    BY <1>0, <1>2 DEF FetchAnswered, Fetches, Entries, NoFetch
  <2>2. QED
    BY <1>0, <2>1, ReadersKeep, NothingAsked
<1>3. CASE FetchFails
  <2> DEFINE again == [st |-> "sent", ver |-> 0, tries |-> fetch.tries - 1]
             failed == [entry EXCEPT !.status = "error", !.stale = TRUE]
  <2>1. /\ UNCHANGED <<row, server, writes, acked, raced, onPage>>
        /\ \/ entry' = entry /\ fetch' = again /\ fetch.tries > 0
           \/ fetch' = NoFetch /\ entry' = failed
    BY <1>3 DEF FetchFails
  <2>2. fetch.tries > 0 => again \in Fetches /\ again.st = "sent"
    BY <1>0, MaxWritesAssumption DEF Fetches
  <2>3. failed \in Entries /\ failed.status = "error"
    BY <1>0 DEF Entries
  <2>4. NoFetch \in Fetches /\ NoFetch.st = "none"
    BY NothingAsked DEF NoFetch
  <2>5. /\ entry' \in Entries /\ fetch' \in Fetches
        /\ (entry'.status = "success" => entry'.has)
        /\ fetch'.st # "read" /\ (fetch'.st = "none" => entry'.status = "error")
    <3> HIDE DEF again, failed
    <3> QED
      BY <1>0, <2>1, <2>2, <2>3, <2>4
  <2>6. QED
    BY <1>0, <2>1, <2>5, ReadersKeep
<1>4. QED
  BY <1>1, <1>2, <1>3

LEMMA CacheKeeps ==
    ASSUME QueryInv, Ages \/ Forgotten
    PROVE  QueryInv'
<1>0. /\ entry \in Entries /\ fetch \in Fetches /\ raced \in BOOLEAN /\ onPage \in BOOLEAN
      /\ (entry.status = "success" => entry.has) /\ entry.stale \in BOOLEAN
      /\ ~row.excused /\ ~raced =>
           /\ fetch.st = "read" => fetch.ver >= acked
           /\ entry.status = "success" /\ fetch.st = "none" /\ (onPage \/ ~entry.stale) =>
                  entry.ver >= acked
  BY QueryFacts DEF QueryInv, Answers, Fetching, Entries
<1>1. CASE Ages
  <2>1. /\ entry' \in Entries /\ entry'.stale /\ entry'.status = entry.status
        /\ entry'.has = entry.has /\ entry'.ver = entry.ver /\ ~entry.stale
        /\ UNCHANGED <<row, server, fetch, writes, acked, raced, onPage>>
    BY <1>0, <1>1 DEF Ages, Entries
  <2>2. QED
    BY <1>0, <2>1, ReadersKeep
<1>2. CASE Forgotten
  <2>1. /\ entry' \in Entries /\ entry'.status = "pending" /\ raced' = FALSE
        /\ fetch' = fetch /\ fetch.st = "none"
        /\ UNCHANGED <<row, server, writes, acked, onPage>>
    BY <1>2, NothingAsked DEF Forgotten, NoEntry, Fetching
  <2>2. QED
    BY <1>0, <2>1, ReadersKeep
<1>3. QED
  BY <1>1, <1>2

--------------------------------------------------------------------------------
(* The mutations, and the writes of others *)

\* What a write that comes or goes does to those that are on their way
LEMMA SentChanges ==
    ASSUME QueryInv, NEW w
    PROVE  /\ writes' = writes \cup {w} =>
                  /\ IsFiniteSet(writes')
                  /\ IsFiniteSet(Sent') /\ Cardinality(Sent') <= Cardinality(Sent) + 1
                  /\ w.st # "sent" => Sent' = Sent
           /\ writes' = writes \ {w} =>
                  /\ IsFiniteSet(writes')
                  /\ Cardinality(Sent') <= Cardinality(Sent)
<1>1. IsFiniteSet(writes) /\ IsFiniteSet(Sent) /\ Cardinality(Sent) \in Nat
  BY QueryFacts, FS_Subset DEF Sent
<1>2. ASSUME writes' = writes \cup {w}
      PROVE  /\ IsFiniteSet(writes')
             /\ IsFiniteSet(Sent') /\ Cardinality(Sent') <= Cardinality(Sent) + 1
             /\ w.st # "sent" => Sent' = Sent
  <2>1. Sent' = Sent \/ Sent' = Sent \cup {w}
    BY <1>2 DEF Sent
  <2>2. w.st # "sent" => Sent' = Sent
    BY <1>2 DEF Sent
  <2>3. IsFiniteSet(writes')
    BY <1>1, <1>2, FS_AddElement
  <2>4. /\ IsFiniteSet(Sent \cup {w})
        /\ \/ Cardinality(Sent \cup {w}) = Cardinality(Sent)
           \/ Cardinality(Sent \cup {w}) = Cardinality(Sent) + 1
    BY <1>1, FS_AddElement
  <2>5. IsFiniteSet(Sent') /\ Cardinality(Sent') <= Cardinality(Sent) + 1
    <3>1. CASE Sent' = Sent
      BY <1>1, <3>1
    <3>2. CASE Sent' = Sent \cup {w}
      BY <1>1, <2>4, <3>2
    <3>3. QED
      BY <2>1, <3>1, <3>2
  <2>6. QED
    BY <2>2, <2>3, <2>5
<1>3. ASSUME writes' = writes \ {w}
      PROVE  IsFiniteSet(writes') /\ Cardinality(Sent') <= Cardinality(Sent)
  <2>1. Sent' \subseteq Sent
    BY <1>3 DEF Sent
  <2>2. QED
    BY <1>1, <1>3, <2>1, FS_Subset, FS_RemoveElement
<1>4. QED
  BY <1>2, <1>3

LEMMA SentCounts ==
    ASSUME QueryInv, NEW w \in writes, w.st = "sent"
    PROVE  LET rest == {v \in writes \ {w} : v.st = "sent"}
           IN  IsFiniteSet(rest) /\ Cardinality(rest) = Cardinality(Sent) - 1
<1>1. {v \in writes \ {w} : v.st = "sent"} = Sent \ {w} /\ w \in Sent
  BY DEF Sent
<1>2. IsFiniteSet(Sent)
  BY QueryFacts, FS_Subset DEF Sent
<1>3. QED
  BY <1>1, <1>2, FS_RemoveElement

\* The entry is not touched; the server's data may have a write more.
LEMMA WritersKeep ==
    ASSUME QueryInv, UNCHANGED <<row, entry, fetch, acked, raced, onPage>>,
           server' \in 0 .. MaxWrites, server <= server',
           writes' \subseteq Writes, IsFiniteSet(writes'),
           server' + Cardinality(Sent') <= MaxWrites,
           \A w \in writes' : w.st = "done" => w.ver <= server'
    PROVE  QueryInv'
<1>1. QueryTypes'
  BY DEF QueryInv, QueryTypes, PageQueryTypeOK
<1>2. acked' <= server'
  BY QueryFacts DEF QueryInv, Answers
<1>3. Refreshed' /\ Answers'
  BY <1>2 DEF QueryInv, Refreshed, Answers, Fetching
<1>4. QED
  BY <1>1, <1>3 DEF QueryInv

LEMMA MutateKeeps ==
    ASSUME QueryInv, Mutate
    PROVE  QueryInv'
<1> DEFINE w(slot) == [slot |-> slot, st |-> "sent", ver |-> 0]
<1>1. PICK slot \in Slots : writes' = writes \cup {w(slot)}
  BY DEF Mutate
<1>2. /\ UNCHANGED <<row, server, entry, fetch, acked, raced, onPage>>
      /\ server + Cardinality(Sent) < MaxWrites
  BY DEF Mutate, Room, Sent
<1>3. w(slot) \in Writes /\ w(slot).st = "sent"
  BY MaxWritesAssumption DEF Writes
<1> HIDE DEF w
<1>4. IsFiniteSet(writes') /\ IsFiniteSet(Sent') /\ Cardinality(Sent') <= Cardinality(Sent) + 1
  BY <1>1, SentChanges
<1>5. server \in 0 .. MaxWrites /\ Cardinality(Sent) \in Nat /\ Cardinality(Sent') \in Nat
      /\ MaxWrites \in Nat
  BY <1>4, QueryFacts, FS_CardinalityType
<1>6. server' = server /\ server' + Cardinality(Sent') <= MaxWrites
  BY <1>2, <1>4, <1>5
<1>7. writes' \subseteq Writes /\ \A v \in writes' : v.st = "done" => v.ver <= server'
  BY <1>1, <1>3, <1>6, QueryFacts DEF QueryInv, Answers
<1>8. QED
  BY <1>2, <1>4, <1>5, <1>6, <1>7, WritersKeep

LEMMA OthersWriteKeeps ==
    ASSUME QueryInv, OthersWrite
    PROVE  QueryInv'
<1>1. /\ server + Cardinality(Sent) < MaxWrites /\ server' = server + 1
      /\ UNCHANGED <<row, entry, fetch, writes, acked, raced, onPage>>
  BY DEF OthersWrite, Room, Sent
<1>2. Sent' = Sent
  BY <1>1 DEF Sent
<1>3. /\ server \in 0 .. MaxWrites /\ Cardinality(Sent) \in Nat /\ MaxWrites \in Nat
      /\ writes \subseteq Writes /\ IsFiniteSet(writes)
  BY QueryFacts
<1>4. server' \in 0 .. MaxWrites /\ server <= server' /\ server' + Cardinality(Sent') <= MaxWrites
  BY <1>1, <1>2, <1>3
<1>5. \A w \in writes' : w.st = "done" => w.ver <= server'
  BY <1>1, <1>3 DEF QueryInv, Answers, Writes
<1>6. QED
  BY <1>1, <1>3, <1>4, <1>5, WritersKeep

LEMMA CommitsKeeps ==
    ASSUME QueryInv, NEW w \in writes, Commits(w)
    PROVE  QueryInv'
<1> DEFINE v == [w EXCEPT !.st = "done", !.ver = server']
           rest == writes \ {w}
<1>1. /\ w.st = "sent" /\ writes' = rest \cup {v}
      /\ server' = IF row.affects THEN server + 1 ELSE server
      /\ UNCHANGED <<row, entry, fetch, acked, raced, onPage>>
  BY DEF Commits
<1>2. /\ server \in 0 .. MaxWrites /\ Cardinality(Sent) \in Nat /\ MaxWrites \in Nat
      /\ w \in Writes /\ writes \subseteq Writes /\ IsFiniteSet(writes)
      /\ server + Cardinality(Sent) <= MaxWrites
  BY QueryFacts DEF QueryInv, QueryTypes
<1>3. {x \in rest : x.st = "sent"} = Sent'
  <2>1. v.st # "sent"
    BY <1>2 DEF Writes
  <2>2. QED
    BY <1>1, <2>1 DEF Sent
<1>4. Cardinality(Sent') = Cardinality(Sent) - 1 /\ IsFiniteSet(Sent')
  BY <1>1, <1>3, SentCounts
<1>5. Cardinality(Sent') \in Nat
  BY <1>4, FS_CardinalityType
<1>6. /\ server' \in 0 .. MaxWrites /\ server <= server'
      /\ server' + Cardinality(Sent') <= MaxWrites
  BY <1>1, <1>2, <1>4, <1>5
<1>7. v \in Writes /\ v.ver = server'
  BY <1>2, <1>6 DEF Writes
<1>8. IsFiniteSet(writes') /\ writes' \subseteq Writes
  <2>1. IsFiniteSet(rest)
    BY <1>2, FS_RemoveElement
  <2>2. QED
    BY <1>1, <1>2, <1>7, <2>1, FS_AddElement
<1>9. \A x \in writes' : x.st = "done" => x.ver <= server'
  <2>1. \A x \in writes : x.st = "done" => x.ver <= server'
    BY <1>2, <1>6 DEF QueryInv, Answers, Writes
  <2>2. v.ver <= server'
    BY <1>6, <1>7
  <2>3. QED
    BY <1>1, <2>1, <2>2
<1>10. QED
  BY <1>1, <1>6, <1>8, <1>9, WritersKeep

LEMMA MutationFailsKeeps ==
    ASSUME QueryInv, NEW w \in writes, MutationFails(w)
    PROVE  QueryInv'
<1>1. writes' = writes \ {w} /\ UNCHANGED <<row, server, entry, fetch, acked, raced, onPage>>
  BY DEF MutationFails
<1>2. IsFiniteSet(writes') /\ Cardinality(Sent') <= Cardinality(Sent)
  BY <1>1, SentChanges
<1>3. IsFiniteSet(Sent') /\ Cardinality(Sent') \in Nat
  <2>1. Sent' \subseteq writes'
    BY DEF Sent
  <2>2. QED
    BY <1>2, <2>1, FS_Subset, FS_CardinalityType
<1>4. /\ server \in 0 .. MaxWrites /\ Cardinality(Sent) \in Nat /\ MaxWrites \in Nat
      /\ server + Cardinality(Sent) <= MaxWrites /\ writes' \subseteq Writes
      /\ \A v \in writes' : v.st = "done" => v.ver <= server
  BY <1>1, QueryFacts DEF QueryInv, QueryTypes, Answers
<1>5. QED
  BY <1>1, <1>2, <1>3, <1>4, WritersKeep

\* An acknowledged write sends the query out again, makes its entry stale, or
\* marks the answer under way as overtaken.
LEMMA InvalidateParts ==
    ASSUME QueryInv, Invalidate, row.affects, ~row.excused, ~raced', onPage' = onPage
    PROVE  /\ fetch'.st = "read" => FALSE
           /\ ~(entry'.status = "success" /\ fetch'.st = "none" /\ (onPage \/ ~entry'.stale))
<1>0. /\ row.stales /\ entry \in Entries /\ fetch \in Fetches /\ raced \in BOOLEAN
      /\ onPage \in BOOLEAN /\ (entry.status = "success" => entry.has)
  BY QueryFacts DEF QueryInv, Refreshed, Answers, RowType
<1>1. CASE onPage
  BY <1>0, <1>1 DEF Invalidate, Fetching, Entries, Fetches
<1>2. CASE ~onPage
  <2>1. /\ fetch' = fetch /\ entry' = [entry EXCEPT !.stale = @ \/ entry.has]
        /\ raced' = (raced \/ Fetching)
    BY <1>0, <1>2 DEF Invalidate
  <2>2. fetch.st = "none"
    BY <2>1 DEF Fetching
  <2>3. entry'.status = entry.status /\ (entry.has => entry'.stale)
    BY <1>0, <2>1 DEF Entries
  <2>4. QED
    BY <1>0, <1>2, <2>1, <2>2, <2>3
<1>3. QED
  BY <1>0, <1>1, <1>2

LEMMA MutationSucceedsKeeps ==
    ASSUME QueryInv, NEW w \in writes, MutationSucceeds(w)
    PROVE  QueryInv'
<1>1. /\ w.st = "done" /\ writes' = writes \ {w} /\ Invalidate
      /\ acked' = IF row.affects /\ w.ver > acked THEN w.ver ELSE acked
      /\ UNCHANGED <<row, server, onPage>>
  BY DEF MutationSucceeds
<1>2. /\ row \in RowType /\ entry \in Entries /\ fetch \in Fetches /\ raced \in BOOLEAN
      /\ onPage \in BOOLEAN /\ (entry.status = "success" => entry.has)
      /\ server \in 0 .. MaxWrites /\ acked \in 0 .. MaxWrites /\ MaxWrites \in Nat
      /\ w \in Writes /\ w.ver <= server /\ acked <= server
  BY <1>1, QueryFacts DEF QueryInv, Answers
<1>3. /\ acked' \in 0 .. MaxWrites /\ acked' <= server
      /\ ~row.affects => acked' = acked
  BY <1>1, <1>2 DEF Writes
<1>4. /\ entry' \in Entries /\ fetch' \in Fetches /\ raced' \in BOOLEAN
      /\ entry'.status = "success" => entry'.has
  <2>1. /\ \/ entry' = entry
           \/ entry' = [entry EXCEPT !.stale = TRUE]
           \/ ~entry.has /\ entry' = [entry EXCEPT !.status = "pending"]
           \/ entry' = [entry EXCEPT !.stale = @ \/ entry.has]
        /\ fetch' = fetch \/ fetch' = [st |-> "sent", ver |-> 0, tries |-> row.retries]
        /\ raced' \in {raced, TRUE, FALSE, raced \/ Fetching}
    BY <1>1 DEF Invalidate
  <2>2. entry' \in Entries /\ (entry'.status = "success" => entry'.has)
    BY <1>2, <2>1 DEF Entries
  <2>3. [st |-> "sent", ver |-> 0, tries |-> row.retries] \in Fetches
    BY <1>2 DEF Fetches, RowType
  <2>4. QED
    BY <1>2, <2>1, <2>2, <2>3 DEF Fetching
<1>5. /\ IsFiniteSet(writes') /\ writes' \subseteq Writes
      /\ server' + Cardinality(Sent') <= MaxWrites
  <2>1. IsFiniteSet(writes') /\ Cardinality(Sent') <= Cardinality(Sent)
    BY <1>1, SentChanges
  <2>2. Cardinality(Sent') \in Nat
    <3>1. Sent' \subseteq writes'
      BY DEF Sent
    <3>2. QED
      BY <2>1, <3>1, FS_Subset, FS_CardinalityType
  <2>3. Cardinality(Sent) \in Nat /\ server + Cardinality(Sent) <= MaxWrites
    BY QueryFacts DEF QueryInv, QueryTypes
  <2>4. QED
    BY <1>1, <1>2, <2>1, <2>2, <2>3, QueryFacts
<1>6. QueryTypes'
  BY <1>1, <1>2, <1>3, <1>4, <1>5
     DEF QueryTypes, PageQueryTypeOK, RowType, Entries, Fetches
<1>7. ~row.excused /\ ~raced' =>
          /\ fetch'.st = "read" => fetch'.ver >= acked'
          /\ entry'.status = "success" /\ fetch'.st = "none" /\ (onPage \/ ~entry'.stale) =>
                 entry'.ver >= acked'
  <2>1. CASE row.affects
    BY <1>1, <2>1, InvalidateParts
  <2>2. CASE ~row.affects
    BY <1>2, <1>3, <1>4, <2>2 DEF QueryInv, Answers, Entries, Fetches
  <2>3. QED
    BY <2>1, <2>2
<1>8. /\ \A v \in writes' : v.st = "done" => v.ver <= server'
      /\ ~row.affects => acked' = 0
  BY <1>1, <1>3 DEF QueryInv, Answers
<1>9. Refreshed' /\ Answers'
  BY <1>1, <1>3, <1>4, <1>7, <1>8 DEF QueryInv, Refreshed, Answers, Fetching
<1>10. QED
  BY <1>6, <1>9 DEF QueryInv

LEMMA QueryKeeps ==
    ASSUME QueryInv, PageQueryNext \/ UNCHANGED pageQueryVars
    PROVE  QueryInv'
<1>1. CASE UNCHANGED pageQueryVars
  <2>1. UNCHANGED <<row, server, entry, fetch, writes, acked, raced, onPage>>
    BY <1>1 DEF pageQueryVars
  <2>2. Sent' = Sent
    BY <2>1 DEF Sent
  <2>3. QueryTypes'
    BY <2>1, <2>2 DEF QueryInv, QueryTypes, PageQueryTypeOK
  <2>4. Refreshed' /\ Answers'
    BY <2>1 DEF QueryInv, Refreshed, Answers, Fetching
  <2>5. QED
    BY <2>3, <2>4 DEF QueryInv
<1>2. QED
  BY <1>1, PageKeeps, FetchKeeps, CacheKeeps, OthersWriteKeeps, MutateKeeps, CommitsKeeps,
     MutationSucceedsKeeps, MutationFailsKeeps DEF PageQueryNext

--------------------------------------------------------------------------------
(* The tables *)

LEMMA TimesMonotone ==
    ASSUME NEW i \in Nat, NEW k \in Nat, NEW s \in Nat, i <= k
    PROVE  i * s <= k * s
OBVIOUS

\* Division, by its bounds
LEMMA DivParts ==
    ASSUME NEW m \in Nat, NEW s \in Nat \ {0}
    PROVE  /\ m \div s \in Nat
           /\ (m \div s) * s <= m
           /\ m < (m \div s + 1) * s
<1> DEFINE n == m \div s
<1>1. n \in Int /\ n * s <= m /\ m < (n + 1) * s
  OBVIOUS
<1> HIDE DEF n
<1>2. n >= 0
  <2>1. CASE n <= -1
    <3>1. (n + 1) * s <= 0
      BY <1>1, <2>1
    <3>2. QED
      BY <1>1, <3>1
  <2>2. QED
    BY <1>1, <2>1
<1>3. QED
  BY <1>1, <1>2 DEF n

\* PageCount: every page below it has a row, and the pages hold all of them.
LEMMA PagesHaveRows ==
    ASSUME NEW T \in Nat, NEW s \in Nat \ {0}
    PROVE  LET n == (T + s - 1) \div s
           IN  /\ n \in 0 .. T
               /\ n = 0 <=> T = 0
               /\ \A i \in Nat : i <= n - 1 => i * s < T
               /\ T <= n * s
<1> DEFINE n == (T + s - 1) \div s
<1>1. n \in Int /\ n * s <= T + s - 1 /\ T + s - 1 < (n + 1) * s
  OBVIOUS
<1> HIDE DEF n
<1>2. n >= 0
  <2>1. (n + 1) * s > 0
    BY <1>1
  <2>2. CASE n <= -1
    <3>1. (n + 1) * s <= 0
      BY <1>1, <2>2
    <3>2. QED
      BY <1>1, <2>1, <3>1
  <2>3. QED
    BY <1>1, <2>2
<1>3. n * s = (n - 1) * s + s /\ (n + 1) * s = n * s + s
  BY <1>1
<1>4. (n - 1) * s < T /\ T <= n * s
  BY <1>1, <1>3
<1>5. n <= T
  <2>1. CASE n >= T + 1
    <3>1. T * s <= (n - 1) * s
      BY <1>1, <1>2, <2>1, TimesMonotone
    <3>2. 1 * T <= s * T
      BY TimesMonotone
    <3>3. QED
      BY <1>1, <1>4, <3>1, <3>2
  <2>2. QED
    BY <1>1, <2>1
<1>6. n = 0 <=> T = 0
  BY <1>1, <1>2, <1>4, <1>5
<1>7. ASSUME NEW i \in Nat, i <= n - 1
      PROVE  i * s < T
  <2>1. i * s <= (n - 1) * s
    BY <1>1, <1>7, TimesMonotone
  <2>2. i * s \in Int /\ (n - 1) * s \in Int
    BY <1>1
  <2>3. QED
    BY <1>1, <1>4, <2>1, <2>2
<1>8. QED
  BY <1>1, <1>2, <1>4, <1>5, <1>6, <1>7 DEF n

LEMMA MaxOfTwo ==
    ASSUME NEW a \in Int, NEW b \in Int
    PROVE  /\ Max({a, b}) \in {a, b} /\ Max({a, b}) >= a /\ Max({a, b}) >= b
           /\ Min({a, b}) \in {a, b} /\ Min({a, b}) <= a /\ Min({a, b}) <= b
<1>1. \E x \in {a, b} : \A y \in {a, b} : x >= y
  <2>1. CASE a >= b
    BY <2>1
  <2>2. CASE b >= a
    BY <2>2
  <2>3. QED
    BY <2>1, <2>2
<1>2. \E x \in {a, b} : \A y \in {a, b} : x =< y
  <2>1. CASE a >= b
    BY <2>1
  <2>2. CASE b >= a
    BY <2>2
  <2>3. QED
    BY <2>1, <2>2
<1>3. /\ Max({a, b}) \in {a, b} /\ \A y \in {a, b} : Max({a, b}) >= y
      /\ Min({a, b}) \in {a, b} /\ \A y \in {a, b} : Min({a, b}) =< y
  BY <1>1, <1>2 DEF Max, Min
<1>4. QED
  BY <1>3

\* A set of numbers has a least one.
LEMMA LeastNumber ==
    ASSUME NEW S \in SUBSET Nat, S # {}
    PROVE  Min(S) \in S /\ \A y \in S : Min(S) =< y
<1> DEFINE Below == OpToRel(<, Nat)
<1>1. IsWellFoundedOn(Below, Nat)
  BY NatLessThanWellFounded
<1>2. PICK x \in S : \A y \in S : ~(<<y, x>> \in Below)
  <2> HIDE DEF Below
  <2>1. QED
    BY <1>1, WFMin
<1>3. \A y \in S : ~(y < x)
  BY <1>2 DEF OpToRel
<1>4. \A y \in S : x =< y
  BY <1>3
<1>5. QED
  BY <1>4 DEF Min

\* A page that is shown without a filter having strayed has a row, unless it is
\* the first; an answer is kept under the request it was sent for.
TableInv ==
    /\ TableTypeOK
    /\ RowsMatchParams
    /\ \A a \in answers : a.key = a.sent
    /\ ~strayed => pg.index = 0 \/ pg.index * pg.size < rowCount[Heard(pg)]

TableRecords ==
    [local : BOOLEAN, paged : BOOLEAN, filters : SUBSET Kinds, first : Sizes,
     perPage : [Sizes -> Sizes]]

LEMMA TablesAreRecords == Tables \subseteq TableRecords
<1>1. Asked \in [Sizes -> Sizes] /\ \A m \in Sizes : Always(m) \in [Sizes -> Sizes]
  BY DEF Asked, Always
<1>2. Ten \in Sizes /\ Twenty \in Sizes /\ Fifty \in Sizes
  BY DEF Sizes
<1>3. \A t, s, r : FilterKinds(t, s, r) \in SUBSET Kinds
  BY DEF FilterKinds
<1>4. {} \in SUBSET Kinds /\ {"heard"} \in SUBSET Kinds
  BY DEF Kinds
<1>5. /\ \A f \in SUBSET Kinds, n \in Sizes :
            /\ Local(f, n) \in TableRecords /\ Whole(n) \in TableRecords
            /\ \A a \in [Sizes -> Sizes] : Remote(f, n, a) \in TableRecords
  BY <1>1, <1>4 DEF Local, Whole, Remote, TableRecords
<1>6. /\ Customers \in TableRecords /\ CDR \in TableRecords /\ DID \in TableRecords
      /\ AuditLogTable \in TableRecords /\ BlacklistTable \in TableRecords
  BY <1>1, <1>2, <1>3, <1>4, <1>5 DEF Customers, CDR, DID, AuditLogTable, BlacklistTable
<1>7. /\ GatewayTable \in TableRecords /\ RatePlans \in TableRecords
      /\ LiveCalls \in TableRecords /\ TransactionTable \in TableRecords
  BY <1>2, <1>4, <1>5 DEF GatewayTable, RatePlans, LiveCalls, TransactionTable
<1>8. QED
  BY <1>6, <1>7 DEF Tables

LEMMA TableFacts ==
    ASSUME TableInv
    PROVE  /\ table.local \in BOOLEAN /\ table.paged \in BOOLEAN /\ MaxRows \in Nat
           /\ pg \in Params /\ pg.index \in Nat /\ pg.index <= MaxRows
           /\ pg.size \in Sizes /\ pg.size \in Nat \ {0} /\ Heard(pg) \in BOOLEAN
           /\ table.perPage[pg.size] \in Nat \ {0}
           /\ \A f \in BOOLEAN : rowCount[f] \in 0 .. MaxRows
           /\ asked \subseteq Params /\ strayed \in BOOLEAN
<1>1. /\ table.local \in BOOLEAN /\ table.paged \in BOOLEAN
      /\ \A n \in Sizes : table.perPage[n] \in Nat \ {0}
  <2>1. table \in TableRecords
    BY TablesAreRecords DEF TableInv, TableTypeOK
  <2>2. QED
    BY <2>1, SizesAssumption DEF TableRecords
<1>2. pg \in Params /\ asked \subseteq Params /\ strayed \in BOOLEAN
  BY DEF TableInv, TableTypeOK
<1>3. pg.index \in 0 .. MaxRows /\ pg.size \in Sizes /\ Heard(pg) \in BOOLEAN
  BY <1>2 DEF Params, Heard
<1>4. pg.size \in Nat \ {0} /\ MaxRows \in Nat
  BY <1>3, MaxRowsAssumption, SizesAssumption
<1>5. \A f \in BOOLEAN : rowCount[f] \in 0 .. MaxRows
  BY DEF TableInv, TableTypeOK
<1>6. QED
  BY <1>1, <1>2, <1>3, <1>4, <1>5

\* The total a page is told: of what matches, or nothing while it waits
LEMMA TotalIsRowCount ==
    ASSUME TableInv
    PROVE  /\ TotalOf(pg) \in 0 .. MaxRows
           /\ TotalOf(pg) = 0 \/ TotalOf(pg) = rowCount[Heard(pg)]
<1> DEFINE held == CHOOSE a \in answers : a.key = Key(pg)
<1>1. ASSUME \E a \in answers : a.key = Key(pg)
      PROVE  held \in answers /\ held.sent = pg
  <2>1. held \in answers /\ held.key = Key(pg)
    BY <1>1
  <2>2. QED
    BY <2>1 DEF TableInv, Key
<1> HIDE DEF held
<1>2. TotalOf(pg) = IF table.local THEN rowCount[Heard(pg)]
                    ELSE IF \E a \in answers : a.key = Key(pg) THEN rowCount[Heard(held.sent)]
                    ELSE 0
  BY DEF TotalOf, held
<1>3. QED
  BY <1>1, <1>2, TableFacts

\* The same of the table on the screen.
LEMMA PagesOfTable ==
    ASSUME TotalOf(pg) \in Nat, pg.size \in Nat \ {0}
    PROVE  /\ PageCount(pg) \in 0 .. TotalOf(pg)
           /\ PageCount(pg) = 0 <=> TotalOf(pg) = 0
           /\ \A i \in Nat : i <= PageCount(pg) - 1 => i * pg.size < TotalOf(pg)
           /\ TotalOf(pg) <= PageCount(pg) * pg.size
<1> DEFINE T == TotalOf(pg)
           s == pg.size
           n == PageCount(pg)
<1>1. n = (T + s - 1) \div s
  BY DEF PageCount
<1>2. T \in Nat /\ s \in Nat \ {0}
  OBVIOUS
<1> HIDE DEF T, s, n
<1>3. /\ n \in 0 .. T
      /\ n = 0 <=> T = 0
      /\ \A i \in Nat : i <= n - 1 => i * s < T
      /\ T <= n * s
  BY <1>1, <1>2, PagesHaveRows
<1>4. QED
  BY <1>3 DEF T, s, n

LEMMA PageCountParts ==
    ASSUME TableInv
    PROVE  /\ PageCount(pg) \in 0 .. MaxRows
           /\ PageCount(pg) = 0 <=> TotalOf(pg) = 0
           /\ \A i \in Nat : i <= PageCount(pg) - 1 => i * pg.size < rowCount[Heard(pg)]
<1>1. TotalOf(pg) \in Nat /\ TotalOf(pg) <= MaxRows /\ MaxRows \in Nat /\ pg.size \in Nat \ {0}
  BY TotalIsRowCount, TableFacts
<1> DEFINE n == PageCount(pg)
<1>2. /\ n \in 0 .. TotalOf(pg) /\ (n = 0 <=> TotalOf(pg) = 0)
      /\ \A i \in Nat : i <= n - 1 => i * pg.size < TotalOf(pg)
  BY <1>1, PagesOfTable
<1> HIDE DEF n
<1>3. n \in 0 .. MaxRows
  BY <1>1, <1>2
<1>4. ASSUME NEW i \in Nat, i <= n - 1
      PROVE  i * pg.size < rowCount[Heard(pg)]
  <2>1. TotalOf(pg) # 0
    BY <1>1, <1>2, <1>4
  <2>2. QED
    BY <1>2, <1>4, <2>1, TotalIsRowCount
<1>5. QED
  BY <1>2, <1>3, <1>4 DEF n

\* An index that is clamped stays among the pages.
LEMMA ClampParts ==
    ASSUME TableInv, NEW i \in Int
    PROVE  /\ Clamp(i) \in 0 .. MaxRows
           /\ Clamp(i) = 0 \/ Clamp(i) * pg.size < rowCount[Heard(pg)]
           /\ TotalOf(pg) > 0 => Clamp(i) * pg.size < rowCount[Heard(pg)]
<1> DEFINE n == PageCount(pg)
           k == Clamp(i)
<1>1. /\ n \in Nat /\ n <= MaxRows /\ MaxRows \in Nat /\ (n = 0 <=> TotalOf(pg) = 0)
      /\ \A j \in Nat : j <= n - 1 => j * pg.size < rowCount[Heard(pg)]
      /\ TotalOf(pg) \in Nat
  BY PageCountParts, TotalIsRowCount, TableFacts
<1> HIDE DEF n
<1>2. PICK m \in Int : m = Min({i, n - 1}) /\ m <= n - 1
  <2>1. \A z \in Int : Min({i, z}) \in {i, z} /\ Min({i, z}) <= z
    BY MaxOfTwo, ZenonT(30)
  <2>2. n - 1 \in Int
    BY <1>1
  <2>3. QED
    BY <2>1, <2>2
<1>3. k \in {0, m} /\ k >= 0
  <2>1. k = Max({0, m})
    BY <1>2 DEF Clamp, n
  <2>2. \A y, z \in Int : Max({y, z}) \in {y, z} /\ Max({y, z}) >= y
    BY MaxOfTwo, ZenonT(30)
  <2>3. 0 \in Int /\ m \in Int
    BY <1>2
  <2>4. Max({0, m}) \in {0, m} /\ Max({0, m}) >= 0
    BY <2>2, <2>3, ZenonT(30)
  <2>5. QED
    BY <2>1, <2>4
<1> HIDE DEF k
<1>4. k \in Nat /\ (k = 0 \/ k <= n - 1)
  BY <1>2, <1>3
<1>5. k \in 0 .. MaxRows
  BY <1>1, <1>4
<1>6. n > 0 => k <= n - 1
  BY <1>1, <1>4
<1>7. QED
  BY <1>1, <1>4, <1>5, <1>6 DEF k

\* A table with other parameters, and an answer the page already has
LEMMA ShowKeeps ==
    ASSUME TableInv, NEW p \in Params, Show(p), UNCHANGED <<table, rowCount, answers>>,
           strayed' \in BOOLEAN,
           ~strayed' => p.index = 0 \/ p.index * p.size < rowCount[Heard(p)]
    PROVE  TableInv'
<1>1. pg' = p /\ (asked' = asked \cup {p} \/ asked' = asked)
  BY DEF Show
<1>2. TableTypeOK'
  BY <1>1 DEF TableInv, TableTypeOK
<1>3. RowsMatchParams'
  BY <1>1 DEF TableInv, RowsMatchParams, Key
<1>4. QED
  BY <1>1, <1>2, <1>3 DEF TableInv

\* The next page: one that the table has
LEMMA NextPageKeeps == TableInv /\ NextPage => TableInv'
<1> SUFFICES ASSUME TableInv, NextPage
             PROVE  TableInv'
  OBVIOUS
<1> DEFINE k == Clamp(pg.index + 1)
           p == [pg EXCEPT !.index = k]
<1>1. /\ k \in 0 .. MaxRows
      /\ k = 0 \/ k * pg.size < rowCount[Heard(pg)]
  BY ClampParts, TableFacts
<1> HIDE DEF k
<1>2. p \in Params /\ p.index = k /\ p.size = pg.size /\ p.filter = pg.filter
  BY <1>1, TableFacts DEF Params
<1>3. Show(p) /\ strayed' = FALSE /\ UNCHANGED <<table, rowCount, answers>>
  BY DEF NextPage, k
<1> HIDE DEF p
<1>4. Heard(p) = Heard(pg)
  BY <1>2 DEF Heard
<1>5. QED
  BY <1>1, <1>2, <1>3, <1>4, ShowKeeps

\* The page before, among the pages there are now
LEMMA PreviousPageKeeps == TableInv /\ PreviousPage => TableInv'
<1> SUFFICES ASSUME TableInv, PreviousPage
             PROVE  TableInv'
  OBVIOUS
<1> DEFINE k == Clamp(pg.index - 1)
           p == [pg EXCEPT !.index = k]
<1>1. /\ k \in 0 .. MaxRows
      /\ k = 0 \/ k * pg.size < rowCount[Heard(pg)]
  BY ClampParts, TableFacts
<1> HIDE DEF k
<1>2. p \in Params /\ p.index = k /\ p.size = pg.size /\ p.filter = pg.filter
  BY <1>1, TableFacts DEF Params
<1>3. Show(p) /\ strayed' = FALSE /\ UNCHANGED <<table, rowCount, answers>>
  BY DEF PreviousPage, k
<1> HIDE DEF p
<1>4. Heard(p) = Heard(pg)
  BY <1>2 DEF Heard
<1>5. QED
  BY <1>1, <1>2, <1>3, <1>4, ShowKeeps

\* Another size starts from the first page.
LEMMA ChangeSizeKeeps == ASSUME TableInv, NEW n \in Sizes, ChangeSize(n) PROVE TableInv'
<1> DEFINE p == [pg EXCEPT !.index = 0, !.size = n]
<1>1. p \in Params /\ p.index = 0
  <2> DEFINE q == [pg EXCEPT !.index = 0]
             r == [q EXCEPT !.size = n]
  <2>1. q \in Params /\ q.index = 0
    BY TableFacts, MaxRowsAssumption DEF Params
  <2> HIDE DEF q
  <2>2. r \in Params /\ r.index = 0
    BY <2>1 DEF Params
  <2>3. p = r
    BY DEF q
  <2>4. QED
    BY <2>2, <2>3
<1>2. Show(p) /\ strayed' = FALSE /\ UNCHANGED <<table, rowCount, answers>>
  BY DEF ChangeSize
<1> HIDE DEF p
<1>3. QED
  BY <1>1, <1>2, ShowKeeps

\* A filter that is heard strays from a later page, and none else does.
LEMMA ChangeFilterKeeps == ASSUME TableInv, NEW k \in Kinds, ChangeFilter(k) PROVE TableInv'
<1> DEFINE f == SymDiff(pg.filter, {k})
           p == [pg EXCEPT !.filter = f]
<1>1. /\ p \in Params /\ p.index = pg.index /\ p.size = pg.size
      /\ k # "heard" => Heard(p) = Heard(pg)
  <2>1. f \in SUBSET Kinds /\ (k # "heard" => ("heard" \in f <=> "heard" \in pg.filter))
    BY TableFacts DEF SymDiff, Params
  <2> HIDE DEF f
  <2>2. QED
    BY <2>1, TableFacts DEF Params, Heard
<1>2. /\ Show(p) /\ UNCHANGED <<table, rowCount, answers>>
      /\ strayed' = (strayed \/ (k = "heard" /\ pg.index > 0))
  BY DEF ChangeFilter
<1> HIDE DEF p
<1>3. strayed' \in BOOLEAN
  BY <1>2, TableFacts
<1>4. ~strayed' => p.index = 0 \/ p.index * p.size < rowCount[Heard(p)]
  <2>1. CASE k = "heard"
    <3>1. ~strayed' => ~(pg.index > 0)
      BY <1>2, <2>1, Zenon
    <3>2. QED
      BY <1>1, <3>1, TableFacts
  <2>2. CASE k # "heard"
    BY <1>1, <1>2, <2>2 DEF TableInv
  <2>3. QED
    BY <2>1, <2>2
<1>5. QED
  BY <1>1, <1>2, <1>3, <1>4, ShowKeeps

\* An answer is kept under its request's key, and one is dropped.
LEMMA AnswersKeep ==
    ASSUME TableInv,
           (\E p \in asked : PageAnswered(p)) \/ (\E a \in answers : AnswerForgotten(a))
    PROVE  TableInv'
<1>1. CASE \E p \in asked : PageAnswered(p)
  <2>1. PICK p \in asked : PageAnswered(p)
    BY <1>1
  <2> DEFINE new == [key |-> p, sent |-> p]
  <2>2. p \in Params /\ new \in [key : Params, sent : Params] /\ new.key = new.sent
    BY TableFacts
  <2>3. /\ asked' = asked \ {p} /\ answers' = answers \cup {new}
        /\ UNCHANGED <<table, rowCount, pg, strayed>>
    BY <2>1 DEF PageAnswered, Key
  <2> HIDE DEF new
  <2>4. TableTypeOK'
    BY <2>2, <2>3 DEF TableInv, TableTypeOK
  <2>5. \A a \in answers' : a.key = a.sent
    BY <2>2, <2>3 DEF TableInv
  <2>6. RowsMatchParams'
    BY <2>5 DEF RowsMatchParams, Key
  <2>7. QED
    BY <2>3, <2>4, <2>5, <2>6 DEF TableInv
<1>2. CASE \E a \in answers : AnswerForgotten(a)
  <2>1. answers' \subseteq answers /\ UNCHANGED <<table, rowCount, pg, asked, strayed>>
    BY <1>2 DEF AnswerForgotten
  <2>2. TableTypeOK'
    BY <2>1 DEF TableInv, TableTypeOK
  <2>3. RowsMatchParams' /\ \A a \in answers' : a.key = a.sent
    BY <2>1 DEF TableInv, RowsMatchParams, Key
  <2>4. QED
    BY <2>1, <2>2, <2>3 DEF TableInv
<1>3. QED
  BY <1>1, <1>2

LEMMA TableKeeps == TableInv /\ TableNext => TableInv'
<1> SUFFICES ASSUME TableInv, TableNext
             PROVE  TableInv'
  OBVIOUS
<1>1. CASE TurnPage
  BY <1>1, NextPageKeeps, PreviousPageKeeps, ChangeSizeKeeps DEF TurnPage
<1>2. CASE \E k \in Kinds : ChangeFilter(k)
  BY <1>2, ChangeFilterKeeps
<1>3. CASE (\E p \in asked : PageAnswered(p)) \/ (\E a \in answers : AnswerForgotten(a))
  BY <1>3, AnswersKeep
<1>4. QED
  BY <1>1, <1>2, <1>3 DEF TableNext

LEMMA TableInitially ==
    ASSUME NEW tables \in SUBSET Tables, NEW rowCounts \in SUBSET RowCounts,
           TableInit(tables, rowCounts)
    PROVE  TableInv
<1>1. table.first \in Sizes
  BY TablesAreRecords DEF TableInit, TableRecords
<1>2. First(table) \in Params /\ First(table).index = 0
  BY <1>1, MaxRowsAssumption DEF First, Params
<1>3. table \in Tables /\ rowCount \in [BOOLEAN -> 0 .. MaxRows]
  BY DEF TableInit, RowCounts
<1>4. pg = First(table) /\ asked \subseteq {First(table)} /\ answers = {} /\ strayed = FALSE
  BY DEF TableInit
<1> HIDE DEF First
<1>5. TableTypeOK
  BY <1>2, <1>3, <1>4 DEF TableTypeOK
<1>6. QED
  BY <1>2, <1>4, <1>5 DEF TableInv, RowsMatchParams

\* A page that begins before the last row has a row, unless the handler's pages
\* are longer than what was asked for.
LEMMA PagesWithRows ==
    ASSUME TableInv, NEW p \in Params, p.filter = pg.filter, p.size = pg.size,
           table.perPage[pg.size] <= pg.size, p.index * p.size < rowCount[Heard(pg)]
    PROVE  RowsAt(p) # {}
<1> DEFINE s == table.perPage[p.size]
           n == rowCount[Heard(p)]
           k == p.index * s + 1
<1>1. s \in Nat \ {0} /\ p.size \in Nat /\ s <= p.size /\ n \in Nat /\ p.index \in Nat
      /\ p.index * p.size < n
  <2>1. Heard(p) = Heard(pg)
    BY DEF Heard
  <2>2. p.index \in Nat
    BY MaxRowsAssumption DEF Params
  <2>3. n \in Nat
    BY <2>1, TableFacts
  <2>4. QED
    BY <2>1, <2>2, <2>3, TableFacts
<1> HIDE DEF s, n
<1>2. p.index * s <= p.index * p.size /\ p.index * s \in Nat
  <2>1. \A i, x, y \in Nat : x <= y => i * x <= i * y
    BY SMTT(30)
  <2>2. QED
    BY <1>1, <2>1
<1>3. (p.index + 1) * s = p.index * s + s
  BY <1>1
<1>4. k \in 1 .. n /\ p.index * s < k /\ k <= (p.index + 1) * s
  BY <1>1, <1>2, <1>3
<1>5. k \in RowsAt(p)
  BY <1>4 DEF RowsAt, s, n
<1>6. QED
  BY <1>5

\* A row is on the page its number names, and the pager has that page, unless
\* the handler's pages are shorter than what was asked for.
LEMMA RowsHavePages ==
    ASSUME TableInv, table.perPage[pg.size] >= pg.size, NEW k \in 1 .. TotalOf(pg)
    PROVE  \E i \in 0 .. PageCount(pg) - 1 : k \in RowsAt([pg EXCEPT !.index = i])
<1> DEFINE s == table.perPage[pg.size]
           n == rowCount[Heard(pg)]
           at == [i \in Nat |-> [pg EXCEPT !.index = i]]
<1>1. /\ s \in Nat \ {0} /\ pg.size \in Nat \ {0} /\ s >= pg.size /\ n \in Nat
      /\ TotalOf(pg) \in Nat /\ k \in Nat /\ k >= 1 /\ k <= TotalOf(pg) /\ TotalOf(pg) = n
  BY TotalIsRowCount, TableFacts
<1>2. \A i \in Nat : /\ at[i].index = i /\ at[i].size = pg.size /\ Heard(at[i]) = Heard(pg)
  BY TableFacts DEF Params, Heard
<1>3. PICK i \in Nat : i * s < k /\ k <= (i + 1) * s
  <2> DEFINE i == (k - 1) \div s
  <2>1. i \in Nat /\ i * s <= k - 1 /\ k - 1 < (i + 1) * s
    BY <1>1, DivParts
  <2> HIDE DEF i
  <2>2. QED
    BY <1>1, <2>1
<1>4. i < PageCount(pg)
  <2> DEFINE q == PageCount(pg)
  <2>1. q \in 0 .. TotalOf(pg) /\ TotalOf(pg) <= q * pg.size
    BY <1>1, PagesOfTable
  <2> HIDE DEF q
  <2>2. i * pg.size <= i * s
    <3>1. \A j, x, y \in Nat : x <= y => j * x <= j * y
      BY SMTT(30)
    <3>2. QED
      BY <1>1, <3>1
  <2>3. i * pg.size < q * pg.size
    BY <1>1, <1>3, <2>1, <2>2
  <2>4. \A a, b, x \in Nat : a * x < b * x => a < b
    BY SMTT(30)
  <2>5. QED
    BY <1>1, <2>1, <2>3, <2>4 DEF q
<1>5. k \in RowsAt(at[i])
  <2>1. k \in 1 .. rowCount[Heard(at[i])]
    BY <1>1, <1>2
  <2>2. at[i].index * table.perPage[at[i].size] < k
        /\ k <= (at[i].index + 1) * table.perPage[at[i].size]
    BY <1>2, <1>3
  <2> HIDE DEF at
  <2>3. QED
    BY <2>1, <2>2 DEF RowsAt
<1>6. i \in 0 .. PageCount(pg) - 1
  BY <1>4, PageCountParts, TableFacts
<1>7. QED
  BY <1>5, <1>6

\* The table on the screen is sound: whatever is shown is what was asked for,
\* it has rows when any row matches, unless a filter strayed, and all the rows
\* have a page.
LEMMA TableIsSound == TableInv => TableSound
<1> SUFFICES ASSUME TableInv
             PROVE  TableSound
  OBVIOUS
<1>1. RowsMatchParams
  BY DEF TableInv
<1>2. EveryRowListed
  BY RowsHavePages DEF EveryRowListed
<1>3. ASSUME TotalOf(pg) > 0, table.perPage[pg.size] <= pg.size
      PROVE  /\ ~strayed => RowsAt(pg) # {}
             /\ RowsAt([pg EXCEPT !.index = Clamp(pg.index - 1)]) # {}
  <2>1. TotalOf(pg) = rowCount[Heard(pg)] /\ rowCount[Heard(pg)] > 0
    BY <1>3, TotalIsRowCount, TableFacts
  <2>2. ASSUME ~strayed
        PROVE  RowsAt(pg) # {}
    <3>1. pg.index * pg.size < rowCount[Heard(pg)]
      <4>1. CASE pg.index = 0
        BY <2>1, <4>1, TableFacts
      <4>2. CASE pg.index # 0
        BY <2>2, <4>2 DEF TableInv
      <4>3. QED
        BY <4>1, <4>2
    <3>2. QED
      BY <1>3, <3>1, PagesWithRows, TableFacts
  <2>3. RowsAt([pg EXCEPT !.index = Clamp(pg.index - 1)]) # {}
    <3> DEFINE k == Clamp(pg.index - 1)
               p == [pg EXCEPT !.index = k]
    <3>1. k \in 0 .. MaxRows /\ k * pg.size < rowCount[Heard(pg)]
      BY <1>3, ClampParts, TableFacts
    <3> HIDE DEF k
    <3>2. p \in Params /\ p.index = k /\ p.size = pg.size /\ p.filter = pg.filter
      BY <3>1, TableFacts DEF Params
    <3> HIDE DEF p
    <3>3. RowsAt(p) # {}
      BY <1>3, <3>1, <3>2, PagesWithRows
    <3>4. QED
      BY <3>3 DEF p, k
  <2>4. QED
    BY <2>2, <2>3
<1>4. QED
  BY <1>1, <1>2, <1>3 DEF TableSound, PageHasRows

--------------------------------------------------------------------------------
(* Importing a file *)

\* What an import has come to.  What was counted, lost or is still to be counted
\* are the rows it added, which are on the server (Added); a row is yet to be
\* answered for, on the server, or failed (Tried); the answer on its way is about
\* the rows that were asked for (Answering).
Added(i) ==
    /\ i.success + i.lost + i.added = Cardinality(i.took)
    /\ NumbersOf(i.file, i.took) \subseteq onServer

Tried(i) ==
    \A k \in FileRows \ importer.blank :
        k \in i.todo \/ <<i.file, k>> \in onServer \/ k \in i.failed

Answering(i) ==
    /\ i.at # "none" => i.todo # {}
    /\ i.at # "taken" => i.added = 0
    /\ i.at = "taken" => NumbersOf(i.file, Asking(i)) \subseteq onServer
    /\ i.at = "refused" => Asking(i) \subseteq i.failed

ImportOK(i) == Added(i) /\ Tried(i) /\ Answering(i)

\* An import whose CsvUpload is gone is nobody's; one that is not is the box's
\* only one, and the box is on the screen.
CsvInv ==
    /\ CsvTypeOK
    /\ \A i \in imports : ImportOK(i)
    /\ \A i \in report : NumbersOf(i.file, i.took) \subseteq onServer
    /\ ReportTrue
    /\ CountedOnce
    /\ OneImport
    /\ box.importing => box.shown

UploadFile == [name : Files \cup {NoFile}, data : Files \cup {NoFile}, errors : BOOLEAN]
Boxes == [shown : BOOLEAN, importing : BOOLEAN, file : UploadFile]
Parses == [file : Files, live : BOOLEAN]

\* The parts of the box, and of what is under way
LEMMA CsvFacts ==
    ASSUME CsvTypeOK
    PROVE  /\ importer \in Importers /\ box \in Boxes /\ parsing \subseteq Parses
           /\ imports \subseteq Imports /\ report \subseteq Imports
           /\ onServer \subseteq Files \X FileRows
           /\ Empty \in UploadFile /\ Fresh \in Boxes
           /\ Fresh.shown = FALSE /\ Fresh.importing = FALSE
<1>1. Empty \in UploadFile
  BY DEF Empty, UploadFile
<1>2. Fresh \in Boxes
  BY <1>1 DEF Fresh, Boxes
<1>3. QED
  BY <1>1, <1>2 DEF CsvTypeOK, UploadFile, Boxes, Parses, Fresh

\* Two records of one import, whoever it is for
SameImport(a, b) ==
    /\ a.file = b.file /\ a.todo = b.todo /\ a.at = b.at /\ a.added = b.added
    /\ a.success = b.success /\ a.took = b.took /\ a.failed = b.failed /\ a.lost = b.lost

LEMMA SameIsOK ==
    ASSUME NEW a, NEW b, SameImport(a, b), ImportOK(a)
    PROVE  ImportOK(b)
BY DEF SameImport, ImportOK, Added, Tried, Answering, Asking

\* Unmounting makes tasks nobody's, and leaves them tasks.
LEMMA NobodysTasks ==
    /\ \A T \in SUBSET Parses : Unmounted(T) \subseteq Parses
    /\ \A T \in SUBSET Imports :
          /\ Unmounted(T) \subseteq Imports /\ \A u \in Unmounted(T) : ~u.live
          /\ \A u \in Unmounted(T) :
                \E t \in T : u = [t EXCEPT !.live = FALSE] /\ SameImport(t, u)
<1>1. ASSUME NEW T \in SUBSET Parses
      PROVE  Unmounted(T) \subseteq Parses
  BY DEF Unmounted, Parses
<1>2. ASSUME NEW T \in SUBSET Imports, NEW u \in Unmounted(T)
      PROVE  /\ u \in Imports /\ ~u.live
             /\ \E t \in T : u = [t EXCEPT !.live = FALSE] /\ SameImport(t, u)
  <2>1. PICK t \in T : u = [t EXCEPT !.live = FALSE]
    BY DEF Unmounted
  <2>2. t \in Imports
    OBVIOUS
  <2>3. u \in Imports /\ ~u.live /\ SameImport(t, u)
    BY <2>1, <2>2 DEF Imports, SameImport
  <2>4. QED
    BY <2>1, <2>3
<1>3. QED
  BY <1>1, <1>2

\* A set of rows is finite, and has a first row if it has any.
LEMMA SomeRows ==
    ASSUME NEW rows \in SUBSET FileRows
    PROVE  /\ IsFiniteSet(rows) /\ Cardinality(rows) \in Nat
           /\ rows # {} => Min(rows) \in rows
<1>1. IsFiniteSet(FileRows) /\ FileRows \subseteq Nat
  BY FS_Interval, RowsPerFileAssumption DEF FileRows
<1>2. IsFiniteSet(rows)
  BY <1>1, FS_Subset
<1>3. QED
  BY <1>1, <1>2, FS_CardinalityType, LeastNumber

LEMMA CsvInitially ==
    ASSUME NEW importers \in SUBSET Importers, NEW stocks \in SUBSET Stocks,
           CsvInit(importers, stocks)
    PROVE  CsvInv
<1>1. /\ importer \in Importers /\ box = Fresh /\ parsing = {} /\ imports = {} /\ report = {}
      /\ onServer \in Stocks
  BY DEF CsvInit
<1>2. onServer \subseteq Files \X FileRows
  BY <1>1 DEF Stocks
<1>3. Fresh \in Boxes /\ Fresh.importing = FALSE
  BY DEF Fresh, Boxes, Empty, UploadFile
<1>4. CsvTypeOK
  BY <1>1, <1>2, <1>3 DEF CsvTypeOK, Boxes, UploadFile
<1>5. QED
  BY <1>1, <1>3, <1>4 DEF CsvInv, ReportTrue, CountedOnce, OneImport

\* What the imports have come to stays, while they and the server do.
LEMMA ImportsRest ==
    ASSUME CsvInv, UNCHANGED <<importer, imports, onServer, report>>
    PROVE  /\ (\A i \in imports : ImportOK(i))'
           /\ (\A i \in report : NumbersOf(i.file, i.took) \subseteq onServer)'
           /\ ReportTrue' /\ CountedOnce'
BY DEF CsvInv, ImportOK, Added, Tried, Answering, Asking, ReportTrue, CountedOnce

\* The imports that are unmounted come to the same.
LEMMA ImportsUnmounted ==
    ASSUME CsvInv, NEW T \in SUBSET imports, imports' = Unmounted(T),
           UNCHANGED <<importer, onServer>>
    PROVE  /\ imports' \subseteq Imports /\ \A i \in imports' : ~i.live
           /\ (\A i \in imports : ImportOK(i))'
           /\ (\A i, j \in imports : i = j \/ Apart(i, j))'
           /\ \A i \in imports' : \E t \in T : SameImport(t, i)
<1>1. T \in SUBSET Imports
  BY CsvFacts DEF CsvInv
<1>2. /\ imports' \subseteq Imports /\ \A i \in imports' : ~i.live
      /\ \A i \in imports' : \E t \in T : i = [t EXCEPT !.live = FALSE] /\ SameImport(t, i)
  BY <1>1, NobodysTasks
<1>3. ASSUME NEW i \in imports'
      PROVE  ImportOK(i)'
  <2>1. PICK t \in T : SameImport(t, i)
    BY <1>2, <1>3
  <2>2. ImportOK(i)
    BY <2>1, SameIsOK DEF CsvInv
  <2>3. QED
    BY <2>2 DEF ImportOK, Added, Tried, Answering, Asking
<1>4. ASSUME NEW i \in imports', NEW j \in imports', i # j
      PROVE  Apart(i, j)
  <2>1. PICK t \in T : i = [t EXCEPT !.live = FALSE] /\ SameImport(t, i)
    BY <1>2
  <2>2. PICK u \in T : j = [u EXCEPT !.live = FALSE] /\ SameImport(u, j)
    BY <1>2
  <2>3. t # u
    BY <1>4, <2>1, <2>2
  <2>4. QED
    BY <2>1, <2>2, <2>3 DEF CsvInv, CountedOnce, SameImport, Apart
<1>5. QED
  BY <1>2, <1>3, <1>4 DEF Apart

\* Opening, closing, choosing and resetting: the box changes, and nothing under
\* way stays its own when it goes.
LEMMA BoxKeeps ==
    ASSUME CsvInv, OpenImport \/ CloseImport \/ ResetFile \/ \E f \in Files : HandleFile(f)
    PROVE  CsvInv'
<1>1. CsvTypeOK /\ report' = report /\ importer' = importer /\ onServer' = onServer
  BY DEF CsvInv, OpenImport, CloseImport, ResetFile, HandleFile
<1>2. ReportTrue' /\ (\A i \in report : NumbersOf(i.file, i.took) \subseteq onServer)'
  BY <1>1 DEF CsvInv, ReportTrue
<1>3. CASE OpenImport
  <2>1. box' \in Boxes /\ box'.importing = FALSE
    BY <1>1, <1>3, CsvFacts DEF OpenImport, Boxes
  <2>2. imports' = imports /\ parsing' = parsing /\ \A i \in imports' : ~i.live
    BY <1>3 DEF OpenImport, CsvInv, OneImport
  <2>3. CsvTypeOK'
    BY <1>1, <2>1, <2>2 DEF CsvTypeOK, Boxes, UploadFile
  <2>4. QED
    BY <1>1, <2>1, <2>2, <2>3, ImportsRest DEF CsvInv, OneImport
<1>4. CASE CloseImport
  <2>1. box' = Fresh /\ parsing' = Unmounted(parsing) /\ imports' = Unmounted(imports)
    BY <1>4 DEF CloseImport
  <2>2. /\ imports' \subseteq Imports /\ \A i \in imports' : ~i.live
        /\ (\A i \in imports : ImportOK(i))'
        /\ (\A i, j \in imports : i = j \/ Apart(i, j))'
        /\ \A i \in imports' : \E t \in imports : SameImport(t, i)
    BY <1>1, <2>1, ImportsUnmounted
  <2>3. parsing' \subseteq Parses
    BY <1>1, <2>1, CsvFacts, NobodysTasks
  <2>4. box' \in Boxes /\ box'.importing = FALSE
    BY <1>1, <2>1, CsvFacts
  <2>5. CsvTypeOK'
    BY <1>1, <2>2, <2>3, <2>4 DEF CsvTypeOK, Boxes, UploadFile, Parses
  <2>6. CountedOnce'
    BY <1>1, <2>2 DEF CsvInv, CountedOnce, SameImport, Apart
  <2>7. QED
    BY <1>2, <2>2, <2>4, <2>5, <2>6 DEF CsvInv, OneImport
<1>5. CASE ResetFile
  <2>1. box' \in Boxes /\ box'.importing = box.importing /\ box'.shown = box.shown
    BY <1>1, <1>5, CsvFacts DEF ResetFile, Boxes
  <2>2. imports' = imports /\ parsing' = parsing
    BY <1>5 DEF ResetFile
  <2>3. CsvTypeOK'
    BY <1>1, <2>1, <2>2 DEF CsvTypeOK, Boxes, UploadFile
  <2>4. QED
    BY <1>1, <2>1, <2>2, <2>3, ImportsRest DEF CsvInv, OneImport
<1>6. CASE \E f \in Files : HandleFile(f)
  <2>1. PICK f \in Files : HandleFile(f)
    BY <1>6
  <2>2. box' \in Boxes /\ box'.importing = box.importing /\ box'.shown = box.shown
    BY <1>1, <2>1, CsvFacts DEF HandleFile, Boxes, UploadFile
  <2>3. parsing' \subseteq Parses
    <3>1. [file |-> f, live |-> TRUE] \in Parses
      BY DEF Parses
    <3>2. QED
      BY <1>1, <2>1, <3>1, CsvFacts DEF HandleFile
  <2>4. imports' = imports
    BY <2>1 DEF HandleFile
  <2>5. CsvTypeOK'
    BY <1>1, <2>2, <2>3, <2>4 DEF CsvTypeOK, Boxes, UploadFile, Parses
  <2>6. QED
    BY <1>1, <2>2, <2>4, <2>5, ImportsRest DEF CsvInv, OneImport
<1>7. QED
  BY <1>3, <1>4, <1>5, <1>6

\* A file is parsed: what it says goes to the box that chose it, if that is
\* still there.
LEMMA ParsedKeeps == ASSUME CsvInv, NEW p \in parsing, Parsed(p) PROVE CsvInv'
<1>1. CsvTypeOK /\ p \in Parses
  BY CsvFacts DEF CsvInv
<1>2. /\ parsing' \subseteq parsing /\ UNCHANGED <<importer, imports, onServer, report>>
      /\ box' = IF p.live THEN [box EXCEPT !.file.data = p.file, !.file.errors = Validate(p.file)]
                ELSE box
  BY DEF Parsed
<1>3. Validate(p.file) \in BOOLEAN /\ p.file \in Files
  BY <1>1 DEF Validate, Parses
<1>4. box' \in Boxes /\ box'.importing = box.importing /\ box'.shown = box.shown
  <2> DEFINE b == [box EXCEPT !.file.data = p.file]
             c == [b EXCEPT !.file.errors = Validate(p.file)]
  <2>1. b \in Boxes /\ b.importing = box.importing /\ b.shown = box.shown
    BY <1>1, <1>3, CsvFacts DEF Boxes, UploadFile
  <2> HIDE DEF b
  <2>2. c \in Boxes /\ c.importing = b.importing /\ c.shown = b.shown
    BY <2>1, <1>3 DEF Boxes, UploadFile
  <2>3. box' = IF p.live THEN c ELSE box
    BY <1>2 DEF b
  <2> HIDE DEF c
  <2>4. QED
    BY <1>1, <2>1, <2>2, <2>3, CsvFacts
<1>5. CsvTypeOK'
  BY <1>1, <1>2, <1>4 DEF CsvTypeOK, Boxes, UploadFile
<1>6. QED
  BY <1>2, <1>4, <1>5, ImportsRest DEF CsvInv, OneImport

\* An import starts in a box that has none, with every row that has a number
\* yet to be answered for.
LEMMA HandleImportKeeps == CsvInv /\ HandleImport => CsvInv'
<1> SUFFICES ASSUME CsvInv, HandleImport
             PROVE  CsvInv'
  OBVIOUS
<1>1. CsvTypeOK /\ box \in Boxes /\ imports \subseteq Imports
  BY CsvFacts DEF CsvInv
<1>2. PICK id \in 1 .. MaxTasks :
         imports' = imports \cup {Import(id, box.file.data, FileRows \ importer.blank)}
  BY DEF HandleImport
<1>3. /\ box.shown /\ ~box.importing /\ box.file.data # NoFile
      /\ box' = [box EXCEPT !.importing = TRUE]
      /\ UNCHANGED <<importer, parsing, onServer, report>>
  BY DEF HandleImport
<1> DEFINE new == Import(id, box.file.data, FileRows \ importer.blank)
<1>4. new \in Imports /\ new.took = {} /\ ImportOK(new)
  <2>1. box.file.data \in Files
    BY <1>1, <1>3 DEF Boxes, UploadFile
  <2>2. new \in Imports
    BY <2>1 DEF Import, Imports, Requests
  <2>3. /\ new.took = {} /\ new.success = 0 /\ new.lost = 0 /\ new.added = 0 /\ new.at = "none"
        /\ new.todo = FileRows \ importer.blank
    BY DEF Import
  <2> HIDE DEF new
  <2>4. Added(new)
    BY <2>3, FS_EmptySet DEF Added, NumbersOf
  <2>5. Tried(new) /\ Answering(new)
    BY <2>3 DEF Tried, Answering
  <2>6. QED
    BY <2>2, <2>3, <2>4, <2>5 DEF ImportOK
<1>5. imports' = imports \cup {new}
  BY <1>2
<1> HIDE DEF new
<1>6. box' \in Boxes /\ box'.importing = TRUE /\ box'.shown = box.shown
  BY <1>1, <1>3 DEF Boxes
<1>7. CsvTypeOK'
  BY <1>1, <1>3, <1>4, <1>5, <1>6 DEF CsvTypeOK, Boxes, UploadFile
<1>8. \A i \in imports : ~i.live
  BY <1>3 DEF CsvInv, OneImport
<1>9. (\A i \in imports : ImportOK(i))'
  BY <1>3, <1>4, <1>5 DEF CsvInv, ImportOK, Added, Tried, Answering, Asking
<1>10. CountedOnce'
  BY <1>3, <1>4, <1>5 DEF CsvInv, CountedOnce, Apart, NumbersOf
<1>11. ReportTrue' /\ (\A i \in report : NumbersOf(i.file, i.took) \subseteq onServer)'
  BY <1>3 DEF CsvInv, ReportTrue
<1>12. OneImport'
  BY <1>5, <1>6, <1>8 DEF OneImport
<1>13. QED
  BY <1>3, <1>6, <1>7, <1>9, <1>10, <1>11, <1>12 DEF CsvInv

\* One import goes on: what it adds to the server was not there.
LEMMA BecomesKeeps ==
    ASSUME CsvInv, NEW i \in imports, NEW j \in Imports, Becomes(i, j),
           UNCHANGED <<importer, box, parsing, report>>,
           onServer \subseteq onServer', onServer' \subseteq Files \X FileRows,
           j.file = i.file, j.live = i.live, ImportOK(j)',
           \A k \in j.took \ i.took : <<i.file, k>> \notin onServer
    PROVE  CsvInv'
<1>1. CsvTypeOK /\ imports \subseteq Imports /\ i \in Imports
  BY CsvFacts DEF CsvInv
<1>2. imports' = (imports \ {i}) \cup {j}
  BY DEF Becomes
<1>3. CsvTypeOK'
  BY <1>1, <1>2 DEF CsvTypeOK
<1>4. ASSUME NEW m \in imports, m # i
      PROVE  ImportOK(m)'
  BY <1>4 DEF CsvInv, ImportOK, Added, Tried, Answering, Asking
<1>5. (\A m \in imports : ImportOK(m))'
  BY <1>2, <1>4
<1>6. (\A m \in report : NumbersOf(m.file, m.took) \subseteq onServer)' /\ ReportTrue'
  BY DEF CsvInv, ReportTrue
<1>7. ASSUME NEW m, Apart(i, m), NumbersOf(m.file, m.took) \subseteq onServer
      PROVE  Apart(j, m) /\ Apart(m, j)
  BY <1>7 DEF Apart, NumbersOf
<1>8. CountedOnce'
  <2>1. ASSUME NEW m \in imports, m # i
        PROVE  Apart(j, m) /\ Apart(m, j)
    <3>1. Apart(i, m) /\ NumbersOf(m.file, m.took) \subseteq onServer
      BY <2>1 DEF CsvInv, CountedOnce, ImportOK, Added
    <3>2. QED
      BY <1>7, <3>1
  <2>2. ASSUME NEW m \in report
        PROVE  Apart(j, m)
    <3>1. Apart(i, m) /\ NumbersOf(m.file, m.took) \subseteq onServer
      BY DEF CsvInv, CountedOnce
    <3>2. QED
      BY <1>7, <3>1
  <2>3. \A m, n \in imports : m = n \/ Apart(m, n)
    BY DEF CsvInv, CountedOnce
  <2>4. \A m \in imports, n \in report : Apart(m, n)
    BY DEF CsvInv, CountedOnce
  <2>5. \A m, n \in imports' : m = n \/ Apart(m, n)
    BY <1>2, <2>1, <2>3
  <2>6. \A m \in imports', n \in report' : Apart(m, n)
    BY <1>2, <2>2, <2>4
  <2>7. QED
    BY <2>5, <2>6 DEF CountedOnce
<1>9. OneImport'
  BY <1>2 DEF CsvInv, OneImport
<1>10. QED
  BY <1>3, <1>5, <1>6, <1>8, <1>9 DEF CsvInv

\* The parts of an import, and of what it asks for
LEMMA ImportParts ==
    ASSUME CsvInv, NEW i \in imports
    PROVE  /\ i \in Imports /\ ImportOK(i) /\ i.file \in Files /\ i.live \in BOOLEAN
           /\ i.id \in 1 .. MaxTasks
           /\ i.at \in Requests /\ i.added \in Nat /\ i.success \in Nat /\ i.lost \in Nat
           /\ i.todo \in SUBSET FileRows /\ i.took \in SUBSET FileRows
           /\ i.failed \in SUBSET FileRows /\ Cardinality(i.took) \in Nat
           /\ i.todo # {} => Asking(i) \subseteq i.todo
           /\ onServer \subseteq Files \X FileRows
<1>1. i \in Imports /\ onServer \subseteq Files \X FileRows
  BY CsvFacts DEF CsvInv
<1>2. /\ i.file \in Files /\ i.live \in BOOLEAN /\ i.id \in 1 .. MaxTasks
      /\ i.at \in Requests /\ i.added \in Nat /\ i.success \in Nat /\ i.lost \in Nat
      /\ i.todo \in SUBSET FileRows /\ i.took \in SUBSET FileRows
      /\ i.failed \in SUBSET FileRows
  BY <1>1 DEF Imports
<1>3. i.todo # {} => Asking(i) \subseteq i.todo
  BY <1>2, SomeRows DEF Asking
<1>4. QED
  BY <1>1, <1>2, <1>3, SomeRows DEF CsvInv

\* A request is sent, or fails.
LEMMA RequestKeepsCsv ==
    ASSUME CsvInv, NEW i \in imports, SendRequest(i) \/ RequestFails(i)
    PROVE  CsvInv'
<1>1. CASE SendRequest(i)
  <2> DEFINE j == [i EXCEPT !.at = "sent"]
  <2>1. /\ j \in Imports /\ j.at = "sent" /\ j.file = i.file /\ j.live = i.live
        /\ j.todo = i.todo /\ j.added = i.added /\ j.success = i.success /\ j.lost = i.lost
        /\ j.took = i.took /\ j.failed = i.failed
    BY ImportParts DEF Imports, Requests
  <2>2. /\ i.at = "none" /\ i.todo # {} /\ Becomes(i, j)
        /\ UNCHANGED <<importer, box, parsing, onServer, report>>
    BY <1>1 DEF SendRequest
  <2> HIDE DEF j
  <2>3. ImportOK(j)'
    BY <2>1, <2>2, ImportParts DEF ImportOK, Added, Tried, Answering
  <2>4. QED
    BY <2>1, <2>2, <2>3, BecomesKeeps, ImportParts
<1>2. CASE RequestFails(i)
  <2>1. i.at = "sent" /\ i.todo # {} /\ Asking(i) \in SUBSET FileRows
    BY <1>2, ImportParts DEF RequestFails, ImportOK, Answering
  <2> PICK j : j = [i EXCEPT !.at = "refused", !.failed = @ \cup Asking(i)]
    OBVIOUS
  <2>2. /\ j \in Imports /\ j.at = "refused" /\ j.file = i.file /\ j.live = i.live
        /\ j.todo = i.todo /\ j.added = i.added /\ j.success = i.success /\ j.lost = i.lost
        /\ j.took = i.took /\ j.failed = i.failed \cup Asking(i)
    BY <2>1, ImportParts DEF Imports, Requests
  <2>3. Becomes(i, j) /\ UNCHANGED <<importer, box, parsing, onServer, report>>
    BY <1>2 DEF RequestFails
  <2>4. Asking(j) = Asking(i) /\ ImportOK(i)
    BY <2>2, ImportParts DEF Asking
  <2>5. Added(j)'
    BY <2>2, <2>3, <2>4 DEF ImportOK, Added
  <2>6. Tried(j)'
    BY <2>2, <2>3, <2>4 DEF ImportOK, Tried
  <2>7. Answering(j)'
    <3>1. Asking(j)' = Asking(i)
      BY <2>2, <2>3 DEF Asking
    <3>2. i.added = 0
      BY <2>1, <2>4 DEF ImportOK, Answering
    <3>3. QED
      BY <2>1, <2>2, <3>1, <3>2 DEF Answering
  <2>8. \A k \in j.took \ i.took : <<i.file, k>> \notin onServer
    BY <2>2
  <2>9. onServer \subseteq onServer' /\ onServer' \subseteq Files \X FileRows
    BY <2>3, ImportParts
  <2>10. QED
    BY <2>2, <2>3, <2>5, <2>6, <2>7, <2>8, <2>9, BecomesKeeps DEF ImportOK
<1>3. QED
  BY <1>1, <1>2

\* Rows that are not there are added, with no number of another import.
LEMMA InsertsKeeps ==
    ASSUME CsvInv, NEW i \in imports, i.at = "sent", importer' = importer,
           NEW rows \in SUBSET FileRows, Inserts(i, rows),
           \A k \in rows : <<i.file, k>> \notin onServer,
           NumbersOf(i.file, Asking(i)) \subseteq onServer'
    PROVE  CsvInv'
<1> DEFINE j == [i EXCEPT !.at = "taken", !.added = Cardinality(rows), !.took = @ \cup rows]
<1>0. /\ onServer' = onServer \cup NumbersOf(i.file, rows) /\ Becomes(i, j)
      /\ UNCHANGED <<importer, box, parsing, report>>
  BY DEF Inserts
<1>1. Cardinality(rows) \in Nat /\ IsFiniteSet(rows) /\ IsFiniteSet(i.took)
  BY ImportParts, SomeRows
<1>2. /\ j \in Imports /\ j.at = "taken" /\ j.file = i.file /\ j.live = i.live
      /\ j.todo = i.todo /\ j.added = Cardinality(rows) /\ j.success = i.success
      /\ j.lost = i.lost /\ j.took = i.took \cup rows /\ j.failed = i.failed
  BY <1>1, ImportParts DEF Imports, Requests
<1> HIDE DEF j
<1>3. i.took \cap rows = {}
  BY ImportParts DEF ImportOK, Added, NumbersOf
<1>4. Cardinality(j.took) = Cardinality(i.took) + Cardinality(rows)
  <2>1. Cardinality(i.took \cup rows)
            = Cardinality(i.took) + Cardinality(rows) - Cardinality(i.took \cap rows)
    BY <1>1, FS_Union
  <2>2. Cardinality(i.took \cap rows) = 0
    BY <1>3, FS_EmptySet
  <2>3. Cardinality(i.took) \in Nat
    BY ImportParts
  <2>4. QED
    BY <1>1, <1>2, <2>1, <2>2, <2>3
<1>5. Added(j)'
  <2>1. j.success + j.lost + j.added = Cardinality(j.took)
    BY <1>1, <1>2, <1>4, ImportParts DEF ImportOK, Added, Answering
  <2>2. NumbersOf(j.file, j.took) \subseteq onServer'
    BY <1>0, <1>2, ImportParts DEF ImportOK, Added, NumbersOf
  <2>3. QED
    BY <2>1, <2>2 DEF Added
<1>6. Tried(j)'
  <2>1. Tried(i)
    BY ImportParts DEF ImportOK
  <2>2. onServer \subseteq onServer'
    BY <1>0
  <2>3. QED
    BY <1>2, <2>1, <2>2 DEF Tried
<1>7. Answering(j)'
  BY <1>0, <1>2, ImportParts DEF ImportOK, Answering, Asking
<1>8. onServer \subseteq onServer' /\ onServer' \subseteq Files \X FileRows
  BY <1>0, ImportParts DEF NumbersOf
<1>9. \A k \in j.took \ i.took : <<i.file, k>> \notin onServer
  BY <1>2
<1>10. QED
  BY <1>0, <1>2, <1>5, <1>6, <1>7, <1>8, <1>9, BecomesKeeps DEF ImportOK

\* The server adds what it does not have.
LEMMA ServerKeeps ==
    ASSUME CsvInv, NEW i \in imports, ImportDIDs(i) \/ AddBlacklist(i)
    PROVE  CsvInv'
<1>1. CASE ImportDIDs(i)
  <2> DEFINE rows == {k \in i.todo : <<i.file, k>> \notin onServer}
  <2>1. i.at = "sent" /\ importer.page = "did" /\ Inserts(i, rows) /\ importer' = importer
    BY <1>1 DEF ImportDIDs, Inserts
  <2>2. rows \in SUBSET FileRows /\ \A k \in rows : <<i.file, k>> \notin onServer
    BY ImportParts
  <2>3. onServer' = onServer \cup NumbersOf(i.file, rows)
    BY <2>1 DEF Inserts
  <2>4. NumbersOf(i.file, Asking(i)) \subseteq onServer'
    BY <2>1, <2>3 DEF Asking, NumbersOf
  <2> HIDE DEF rows
  <2>5. QED
    BY <2>1, <2>2, <2>4, InsertsKeeps
<1>2. CASE AddBlacklist(i)
  <2>1. /\ i.at = "sent" /\ Inserts(i, Asking(i)) /\ importer' = importer
        /\ NumbersOf(i.file, Asking(i)) \cap onServer = {}
    BY <1>2 DEF AddBlacklist, Inserts
  <2>2. Asking(i) \in SUBSET FileRows
    BY <2>1, ImportParts DEF ImportOK, Answering
  <2>3. \A k \in Asking(i) : <<i.file, k>> \notin onServer
    BY <2>1 DEF NumbersOf
  <2>4. NumbersOf(i.file, Asking(i)) \subseteq onServer'
    BY <2>1 DEF Inserts
  <2>5. QED
    BY <2>1, <2>2, <2>3, <2>4, InsertsKeeps
<1>3. QED
  BY <1>1, <1>2

\* An import that ends and closes the dialog leaves no import that is the box's;
\* its toast is true.
LEMMA ClosedKeeps ==
    ASSUME CsvInv, NEW i \in imports, ClosedAndReturned(i), UNCHANGED <<importer, onServer>>,
           NEW r \in Imports, report' = {r}, r.file = i.file, r.took = i.took,
           r.success + r.lost = Cardinality(r.took),
           \A k \in FileRows \ importer.blank : <<r.file, k>> \in onServer \/ k \in r.failed
    PROVE  CsvInv'
<1> DEFINE T == imports \ {i}
<1>1. CsvTypeOK /\ T \in SUBSET imports /\ parsing \in SUBSET Parses
  BY CsvFacts DEF CsvInv
<1>2. box' = Fresh /\ parsing' = Unmounted(parsing) /\ imports' = Unmounted(T)
  BY DEF ClosedAndReturned
<1> HIDE DEF T
<1>3. /\ imports' \subseteq Imports /\ \A j \in imports' : ~j.live
      /\ (\A j \in imports : ImportOK(j))'
      /\ (\A j, m \in imports : j = m \/ Apart(j, m))'
      /\ \A j \in imports' : \E t \in T : SameImport(t, j)
  BY <1>1, <1>2, ImportsUnmounted
<1>4. parsing' \subseteq Parses
  BY <1>1, <1>2, NobodysTasks
<1>5. box' \in Boxes /\ box'.importing = FALSE
  BY <1>1, <1>2, CsvFacts
<1>6. CsvTypeOK'
  BY <1>1, <1>3, <1>4, <1>5 DEF CsvTypeOK, Boxes, UploadFile, Parses
<1>7. ReportTrue'
  BY DEF ReportTrue
<1>8. (\A j \in report : NumbersOf(j.file, j.took) \subseteq onServer)'
  BY ImportParts DEF ImportOK, Added
<1>9. CountedOnce'
  <2>1. ASSUME NEW j \in imports'
        PROVE  Apart(j, r)
    <3>1. PICK t \in T : SameImport(t, j)
      BY <1>3
    <3>2. t \in imports /\ t # i
      BY DEF T
    <3>3. Apart(t, i)
      BY <3>2 DEF CsvInv, CountedOnce
    <3>4. QED
      BY <3>1, <3>3 DEF SameImport, Apart
  <2>2. QED
    BY <1>3, <2>1 DEF CountedOnce
<1>10. OneImport'
  BY <1>3 DEF OneImport
<1>11. QED
  BY <1>3, <1>5, <1>6, <1>7, <1>8, <1>9, <1>10 DEF CsvInv

\* An answer that is counted, or lost, leaves what was added in one of the two.
LEMMA CountedParts ==
    ASSUME CsvInv, NEW i \in imports
    PROVE  /\ \A c \in {Counted(i), Uncounted(i)} :
                 /\ c \in Imports /\ c.file = i.file /\ c.live = i.live /\ c.todo = i.todo
                 /\ c.took = i.took /\ c.failed = i.failed /\ c.added = 0
                 /\ c.success + c.lost = Cardinality(c.took)
<1>1. i.success + i.lost + i.added = Cardinality(i.took)
  BY ImportParts DEF ImportOK, Added
<1>2. /\ Counted(i) \in Imports /\ Counted(i).file = i.file /\ Counted(i).live = i.live
      /\ Counted(i).todo = i.todo /\ Counted(i).took = i.took /\ Counted(i).failed = i.failed
      /\ Counted(i).added = 0 /\ Counted(i).success + Counted(i).lost = Cardinality(i.took)
  <2> DEFINE n == i.success + i.added
             c == [i EXCEPT !.success = n]
             d == [c EXCEPT !.added = 0]
  <2>1. n \in Nat /\ i \in Imports
    BY ImportParts
  <2>2. Counted(i) = d
    BY <2>1 DEF Counted, Imports
  <2> HIDE DEF d
  <2>3. /\ c \in Imports /\ c.file = i.file /\ c.live = i.live /\ c.todo = i.todo
        /\ c.took = i.took /\ c.failed = i.failed /\ c.lost = i.lost /\ c.success = n
    <3> HIDE DEF n
    <3>1. QED
      BY <2>1 DEF Imports
  <2>4. d = [c EXCEPT !.added = 0]
    BY DEF d
  <2> HIDE DEF c
  <2>5. /\ d \in Imports /\ d.file = c.file /\ d.live = c.live /\ d.todo = c.todo
        /\ d.took = c.took /\ d.failed = c.failed /\ d.lost = c.lost /\ d.success = c.success
        /\ d.added = 0
    BY <2>3, <2>4 DEF Imports
  <2>6. d.success + d.lost = Cardinality(i.took)
    BY <1>1, <2>3, <2>5, ImportParts
  <2>7. QED
    BY <2>2, <2>3, <2>5, <2>6
<1>3. /\ Uncounted(i) \in Imports /\ Uncounted(i).file = i.file /\ Uncounted(i).live = i.live
      /\ Uncounted(i).todo = i.todo /\ Uncounted(i).took = i.took
      /\ Uncounted(i).failed = i.failed
      /\ Uncounted(i).added = 0 /\ Uncounted(i).success + Uncounted(i).lost = Cardinality(i.took)
  <2> DEFINE n == i.lost + i.added
             c == [i EXCEPT !.lost = n]
             d == [c EXCEPT !.added = 0]
  <2>1. n \in Nat /\ i \in Imports
    BY ImportParts
  <2>2. Uncounted(i) = d
    BY <2>1 DEF Uncounted, Imports
  <2> HIDE DEF d
  <2>3. /\ c \in Imports /\ c.file = i.file /\ c.live = i.live /\ c.todo = i.todo
        /\ c.took = i.took /\ c.failed = i.failed /\ c.success = i.success /\ c.lost = n
    <3> HIDE DEF n
    <3>1. QED
      BY <2>1 DEF Imports
  <2>4. d = [c EXCEPT !.added = 0]
    BY DEF d
  <2> HIDE DEF c
  <2>5. /\ d \in Imports /\ d.file = c.file /\ d.live = c.live /\ d.todo = c.todo
        /\ d.took = c.took /\ d.failed = c.failed /\ d.lost = c.lost /\ d.success = c.success
        /\ d.added = 0
    BY <2>3, <2>4 DEF Imports
  <2>6. d.success + d.lost = Cardinality(i.took)
    BY <1>1, <2>3, <2>5, ImportParts
  <2>7. QED
    BY <2>2, <2>3, <2>5, <2>6
<1>4. QED
  BY <1>2, <1>3

\* One request for the whole file: it is answered, or the box is free again.
LEMMA DidImportedKeeps == ASSUME CsvInv, NEW i \in imports, DidImported(i) PROVE CsvInv'
<1>1. CsvTypeOK /\ UNCHANGED <<importer, onServer>> /\ importer.page = "did"
  BY DEF CsvInv, DidImported
<1>2. CASE /\ i.at = "taken"
           /\ report' = {[Counted(i) EXCEPT !.todo = {}]}
           /\ ClosedAndReturned(i)
  <2> DEFINE c == Counted(i)
             r == [c EXCEPT !.todo = {}]
  <2>1. /\ c \in Imports /\ c.file = i.file /\ c.took = i.took /\ c.failed = i.failed
        /\ c.success + c.lost = Cardinality(c.took)
    BY CountedParts
  <2> HIDE DEF c
  <2>2. /\ r \in Imports /\ r.file = i.file /\ r.took = i.took /\ r.failed = i.failed
        /\ r.success + r.lost = Cardinality(r.took)
    BY <2>1 DEF Imports
  <2>3. report' = {r}
    BY <1>2 DEF c
  <2> HIDE DEF r
  <2>4. \A k \in FileRows \ importer.blank : <<i.file, k>> \in onServer \/ k \in i.failed
    BY <1>1, <1>2, ImportParts DEF ImportOK, Tried, Answering, Asking, NumbersOf
  <2>5. QED
    BY <1>1, <1>2, <2>2, <2>3, <2>4, ClosedKeeps
<1>3. CASE /\ imports' = imports \ {i}
           /\ box' = Returned(i)
           /\ UNCHANGED <<parsing, report>>
  <2>1. box' = IF i.live THEN [box EXCEPT !.file = Empty, !.importing = FALSE] ELSE box
    BY <1>3 DEF Returned
  <2>2. /\ (\A j \in imports : ImportOK(j))' /\ ReportTrue' /\ CountedOnce'
        /\ (\A j \in report : NumbersOf(j.file, j.took) \subseteq onServer)'
    BY <1>1, <1>3 DEF CsvInv, ImportOK, Added, Tried, Answering, Asking, ReportTrue, CountedOnce
  <2>3. CASE i.live
    <3>1. box' \in Boxes /\ box'.importing = FALSE
      <4> DEFINE b == [box EXCEPT !.file = Empty]
      <4>1. b \in Boxes
        BY <1>1, CsvFacts DEF Boxes
      <4> HIDE DEF b
      <4>2. [b EXCEPT !.importing = FALSE] \in Boxes /\ [b EXCEPT !.importing = FALSE].importing = FALSE
        BY <4>1 DEF Boxes
      <4>3. box' = [b EXCEPT !.importing = FALSE]
        BY <2>1, <2>3 DEF b
      <4>4. QED
        BY <4>2, <4>3
    <3>2. \A j \in imports' : ~j.live
      BY <1>3, <2>3 DEF CsvInv, OneImport
    <3>3. CsvTypeOK'
      BY <1>1, <1>3, <3>1 DEF CsvTypeOK, Boxes, UploadFile
    <3>4. QED
      BY <2>2, <3>1, <3>2, <3>3 DEF CsvInv, OneImport
  <2>4. CASE ~i.live
    <3>1. box' = box
      BY <2>1, <2>4
    <3>2. CsvTypeOK'
      BY <1>1, <1>3, <3>1 DEF CsvTypeOK
    <3>3. QED
      BY <1>3, <2>2, <3>1, <3>2 DEF CsvInv, OneImport
  <2>5. QED
    BY <2>3, <2>4
<1>4. QED
  BY <1>2, <1>3 DEF DidImported

\* The loop leaves a row behind that was answered for.
LEMMA NextRowKeeps ==
    ASSUME CsvInv, NEW i \in imports, UNCHANGED <<importer, box, parsing, onServer, report>>,
           NEW c \in Imports, Becomes(i, NextRow(c)),
           c.file = i.file, c.live = i.live, c.todo = i.todo, c.took = i.took,
           c.failed = i.failed, c.added = 0, c.success + c.lost = Cardinality(c.took),
           \A k \in Asking(i) : <<i.file, k>> \in onServer \/ k \in i.failed
    PROVE  CsvInv'
<1> PICK j, t : j = NextRow(c) /\ t = c.todo \ Asking(c)
  OBVIOUS
<1>1. Asking(c) = Asking(i) /\ t \in SUBSET FileRows
  BY ImportParts DEF Asking
<1>2. j = [c EXCEPT !.todo = t, !.at = "none"] /\ Becomes(i, j)
  BY DEF NextRow
<1>3. /\ j \in Imports /\ j.file = i.file /\ j.live = i.live /\ j.todo = t /\ j.at = "none"
      /\ j.took = i.took /\ j.failed = i.failed /\ j.added = 0
      /\ j.success = c.success /\ j.lost = c.lost
  <2> DEFINE a == [c EXCEPT !.todo = t]
             b == [a EXCEPT !.at = "none"]
  <2>1. /\ a \in Imports /\ a.file = i.file /\ a.live = i.live /\ a.todo = t
        /\ a.took = i.took /\ a.failed = i.failed /\ a.added = 0
        /\ a.success = c.success /\ a.lost = c.lost
    BY <1>1 DEF Imports
  <2>2. b = j
    BY <1>2 DEF Imports
  <2> HIDE DEF a
  <2>3. /\ b \in Imports /\ b.file = a.file /\ b.live = a.live /\ b.todo = a.todo
        /\ b.at = "none" /\ b.took = a.took /\ b.failed = a.failed /\ b.added = a.added
        /\ b.success = a.success /\ b.lost = a.lost
    BY <2>1 DEF Imports, Requests
  <2>4. QED
    BY <2>1, <2>2, <2>3
<1>4. Added(j)'
  <2>1. c.success \in Nat /\ c.lost \in Nat
    BY DEF Imports
  <2>2. j.success + j.lost + j.added = Cardinality(j.took)
    BY <1>3, <2>1
  <2>3. NumbersOf(i.file, i.took) \subseteq onServer
    BY ImportParts DEF ImportOK, Added
  <2>4. QED
    BY <1>3, <2>2, <2>3 DEF Added
<1>5. Tried(j)'
  <2>1. Tried(i)
    BY ImportParts DEF ImportOK
  <2>2. \A k : k \in i.todo => k \in t \/ k \in Asking(i)
    BY <1>1
  <2>3. QED
    BY <1>3, <2>1, <2>2 DEF Tried
<1>6. Answering(j)'
  BY <1>3 DEF Answering
<1>7. /\ \A k \in j.took \ i.took : <<i.file, k>> \notin onServer
      /\ onServer \subseteq onServer' /\ onServer' \subseteq Files \X FileRows
  BY <1>3, ImportParts
<1>8. QED
  BY <1>2, <1>3, <1>4, <1>5, <1>6, <1>7, BecomesKeeps DEF ImportOK

\* One request for each row: the import goes on, whosever it is, and its report
\* comes when every row was answered for.
LEMMA BulkImportKeeps == ASSUME CsvInv, NEW i \in imports, BulkImport(i) PROVE CsvInv'
<1>1. CsvTypeOK /\ UNCHANGED <<importer, onServer>> /\ importer.page = "blacklist"
  BY DEF CsvInv, BulkImport
<1>2. CASE i.at = "none" /\ i.todo = {} /\ report' = {i} /\ ClosedAndReturned(i)
  <2>1. /\ \A k \in FileRows \ importer.blank : <<i.file, k>> \in onServer \/ k \in i.failed
        /\ i.success + i.lost = Cardinality(i.took)
    BY <1>2, ImportParts DEF ImportOK, Added, Tried, Answering
  <2>2. QED
    BY <1>1, <1>2, <2>1, ClosedKeeps, ImportParts
<1>3. ASSUME i.at = "taken", NEW c \in {Counted(i), Uncounted(i)}, Becomes(i, NextRow(c)),
             UNCHANGED <<box, parsing, report>>
      PROVE  CsvInv'
  <2>1. \A k \in Asking(i) : <<i.file, k>> \in onServer
    BY <1>3, ImportParts DEF ImportOK, Answering, NumbersOf
  <2>2. /\ c \in Imports /\ c.file = i.file /\ c.live = i.live /\ c.todo = i.todo
        /\ c.took = i.took /\ c.failed = i.failed /\ c.added = 0
        /\ c.success + c.lost = Cardinality(c.took)
    BY CountedParts
  <2>3. QED
    BY <1>1, <1>3, <2>1, <2>2, NextRowKeeps
<1>4. CASE i.at = "refused" /\ Becomes(i, NextRow(i)) /\ UNCHANGED <<box, parsing, report>>
  <2>1. /\ \A k \in Asking(i) : k \in i.failed
        /\ i.added = 0 /\ i.success + i.lost = Cardinality(i.took)
    BY <1>4, ImportParts DEF ImportOK, Added, Answering
  <2>2. QED
    BY <1>1, <1>4, <2>1, NextRowKeeps, ImportParts
<1>5. QED
  BY <1>2, <1>3, <1>4 DEF BulkImport

LEMMA CsvKeeps == CsvInv /\ CsvNext => CsvInv'
BY BoxKeeps, ParsedKeeps, HandleImportKeeps, RequestKeepsCsv, ServerKeeps, DidImportedKeeps,
   BulkImportKeeps DEF CsvNext, ImportStep

--------------------------------------------------------------------------------
(* The forms that stay in the browser *)

ItemRows == [type : Types, value : Texts \cup {"zero"} \cup BOOLEAN, editing : BOOLEAN,
             draft : Texts \cup {"zero"}, checked : BOOLEAN]

ItemOK ==
    /\ item \in ItemRows
    /\ item.value \in Values(item.type)
    /\ item.type = "boolean" => item.checked = item.value /\ ~item.editing
    /\ item.type = "number" => item.draft # "broken"
    /\ item.type # "number" => item.draft # "zero"

IpsOK ==
    /\ ips \in [list : Seq(Addresses), input : Inputs]
    /\ IsInjective(ips.list)

\* A switch is never edited as a text, and a number's draft is one that a
\* number's input can hold, so that whatever is saved is a value of the type.
LocalInv == ItemOK /\ IpsOK

\* What a type's values are, one by one
LEMMA ValuesByType ==
    /\ Values("number") = {"one", "two", "zero"} /\ Values("boolean") = BOOLEAN
    /\ Values("json") = {"one", "two"} /\ Values("string") = Texts
BY DEF Values

\* The invariant gives the types.
LEMMA LocalTypes == LocalInv => LocalTypeOK
<1> SUFFICES ASSUME ItemOK, IpsOK
             PROVE  LocalTypeOK
  BY DEF LocalInv
<1>1. item.type \in Types /\ item.editing \in BOOLEAN /\ item.draft \in Texts \cup {"zero"}
      /\ item.checked \in BOOLEAN
  BY DEF ItemOK, ItemRows
<1>2. ips.list \in Seq(Addresses) /\ ips.input \in Inputs
  BY DEF IpsOK
<1>3. ips.input = <<>> \/ ips.input.text \in Addresses \cup {Malformed}
  BY <1>2 DEF Inputs
<1>4. QED
  BY <1>1, <1>2, <1>3 DEF LocalTypeOK, ItemOK, IpsOK

\* A row as it is first rendered
LEMMA FirstRenderParts ==
    ASSUME NEW type \in Types
    PROVE  LET shown == FirstRender(type)
           IN  /\ shown \in ItemRows /\ shown.type = type /\ shown.value \in Values(type)
               /\ shown.draft # "broken" /\ shown.draft # "zero"
               /\ type = "boolean" => shown.checked = shown.value /\ ~shown.editing
<1> DEFINE shown == FirstRender(type)
<1>1. shown \in ItemRows
  BY DEF FirstRender, ItemRows, Texts
<1>2. shown.type = type /\ ~shown.editing
  BY DEF FirstRender
<1>3. shown.draft # "broken" /\ shown.draft # "zero"
  BY DEF FirstRender
<1>4. CASE type = "boolean"
  <2>1. shown.value = TRUE /\ shown.checked = TRUE
    BY <1>4 DEF FirstRender
  <2>2. QED
    BY <1>1, <1>2, <1>3, <1>4, <2>1, ValuesByType
<1>5. CASE type # "boolean"
  <2>1. shown.value = "one"
    BY <1>5 DEF FirstRender
  <2>2. "one" \in Values(type)
    BY <1>5, ValuesByType DEF Types, Texts
  <2>3. QED
    BY <1>1, <1>2, <1>3, <1>5, <2>1, <2>2
<1>6. QED
  BY <1>4, <1>5

\* Editing changes the draft, to a text the input can hold.
LEMMA EditKeeps ==
    ASSUME ItemOK, FocusField \/ \E text \in Texts : ChangeField(text)
    PROVE  ItemOK'
<1>1. PICK draft \in Texts \cup {"zero"} :
         /\ item' = [item EXCEPT !.editing = TRUE, !.draft = draft]
         /\ item.type # "boolean"
         /\ item.type = "number" => draft # "broken"
         /\ item.type # "number" => draft # "zero"
  <2>1. CASE FocusField
    <3>1. item' = [item EXCEPT !.editing = TRUE, !.draft = item.value] /\ item.type # "boolean"
      BY <2>1 DEF FocusField
    <3>2. item.type \in Types /\ item.value \in Values(item.type)
      BY DEF ItemOK, ItemRows
    <3>3. /\ item.value \in Texts \cup {"zero"}
          /\ item.type = "number" => item.value # "broken"
          /\ item.type # "number" => item.value # "zero"
      <4>1. CASE item.type = "number"
        BY <3>2, <4>1, ValuesByType DEF Texts
      <4>2. CASE item.type = "json"
        BY <3>2, <4>2, ValuesByType DEF Texts
      <4>3. CASE item.type = "string"
        BY <3>2, <4>3, ValuesByType DEF Texts
      <4>4. QED
        BY <3>1, <3>2, <4>1, <4>2, <4>3 DEF Types
    <3>4. QED
      BY <3>1, <3>3
  <2>2. CASE \E text \in Texts : ChangeField(text)
    <3>1. PICK text \in Texts : ChangeField(text)
      BY <2>2
    <3>2. /\ item' = [item EXCEPT !.editing = TRUE, !.draft = text] /\ item.type # "boolean"
          /\ item.type = "number" => text # "broken"
      BY <3>1 DEF ChangeField, Typable
    <3>3. text # "zero"
      BY DEF Texts
    <3>4. QED
      BY <3>2, <3>3
  <2>3. QED
    BY <2>1, <2>2
<1>2. /\ item' \in ItemRows /\ item'.type = item.type /\ item'.value = item.value
      /\ item'.draft = draft
  <2> DEFINE r == [item EXCEPT !.editing = TRUE]
             s == [r EXCEPT !.draft = draft]
  <2>1. r \in ItemRows /\ r.type = item.type /\ r.value = item.value
    BY DEF ItemOK, ItemRows
  <2> HIDE DEF r
  <2>2. s \in ItemRows /\ s.type = r.type /\ s.value = r.value /\ s.draft = draft
    BY <2>1 DEF ItemRows
  <2>3. item' = s
    BY <1>1 DEF r
  <2>4. QED
    BY <2>1, <2>2, <2>3
<1>3. QED
  BY <1>1, <1>2 DEF ItemOK

\* What is saved is a value of the item's type.
LEMMA SaveKeeps == ItemOK /\ HandleSave => ItemOK'
<1> SUFFICES ASSUME ItemOK, HandleSave
             PROVE  ItemOK'
  OBVIOUS
<1> DEFINE v == IF item.type = "number" THEN Number(item.draft) ELSE item.draft
<1>1. /\ item.editing /\ item.type # "boolean"
      /\ item.type = "json" => item.draft \in {"one", "two"}
      /\ item' = [item EXCEPT !.editing = FALSE, !.value = v]
  BY DEF HandleSave, ItemOK, IsValidJson
<1>2. item.type \in Types /\ item.draft \in Texts \cup {"zero"}
  BY DEF ItemOK, ItemRows
<1>3. v \in Values(item.type) /\ v \in Texts \cup {"zero"} \cup BOOLEAN
  <2>1. CASE item.type = "number"
    BY <1>2, <2>1, ValuesByType DEF ItemOK, Number, Texts
  <2>2. CASE item.type = "json"
    BY <1>1, <2>2, ValuesByType DEF Texts
  <2>3. CASE item.type = "string"
    BY <1>2, <2>3, ValuesByType DEF ItemOK
  <2>4. QED
    BY <1>1, <1>2, <2>1, <2>2, <2>3 DEF Types
<1> HIDE DEF v
<1>4. /\ item' \in ItemRows /\ item'.type = item.type /\ item'.value = v
      /\ item'.draft = item.draft
  <2> DEFINE r == [item EXCEPT !.editing = FALSE]
             s == [r EXCEPT !.value = v]
  <2>1. r \in ItemRows /\ r.type = item.type /\ r.draft = item.draft
    BY DEF ItemOK, ItemRows
  <2> HIDE DEF r
  <2>2. s \in ItemRows /\ s.type = r.type /\ s.value = v /\ s.draft = r.draft
    BY <1>3, <2>1 DEF ItemRows
  <2>3. item' = s
    BY <1>1 DEF r
  <2>4. QED
    BY <2>1, <2>2, <2>3
<1>5. QED
  BY <1>1, <1>3, <1>4 DEF ItemOK

\* The switch of a boolean shows the value it saved.
LEMMA SwitchKeeps == ItemOK /\ SwitchItem => ItemOK'
<1> SUFFICES ASSUME ItemOK, SwitchItem
             PROVE  ItemOK'
  OBVIOUS
<1>1. /\ item.type = "boolean" /\ item.checked \in BOOLEAN
      /\ item' = [item EXCEPT !.checked = ~item.checked, !.value = ~item.checked]
  BY DEF SwitchItem, ItemOK, ItemRows
<1> DEFINE c == ~item.checked
<1>2. c \in BOOLEAN
  OBVIOUS
<1>3. item' = [item EXCEPT !.checked = c, !.value = c]
  BY <1>1
<1> HIDE DEF c
<1>4. /\ item' \in ItemRows /\ item'.type = item.type /\ item'.value = c /\ item'.checked = c
      /\ item'.draft = item.draft /\ item'.editing = item.editing
  <2> DEFINE r == [item EXCEPT !.checked = c]
             s == [r EXCEPT !.value = c]
  <2>1. r \in ItemRows /\ r.type = item.type /\ r.draft = item.draft /\ r.checked = c
        /\ r.editing = item.editing
    BY <1>2 DEF ItemOK, ItemRows
  <2> HIDE DEF r
  <2>2. s \in ItemRows /\ s.type = r.type /\ s.value = c /\ s.draft = r.draft
        /\ s.checked = r.checked /\ s.editing = r.editing
    BY <1>2, <2>1 DEF ItemRows
  <2>3. item' = s
    BY <1>3 DEF r
  <2>4. QED
    BY <2>1, <2>2, <2>3
<1>5. QED
  BY <1>1, <1>2, <1>4, ValuesByType DEF ItemOK

\* The address a new list starts with
LEMMA MockIpsOK == MockIps \in Seq(Addresses) /\ IsInjective(MockIps) /\ <<>> \in Inputs
<1>1. (CHOOSE ip \in Addresses : TRUE) \in Addresses
  BY AddressesAssumption
<1>2. QED
  BY <1>1 DEF MockIps, IsInjective, Inputs

\* An address that is not in a list can be appended to it.
LEMMA AppendKeepsInjective ==
    ASSUME NEW T, NEW list \in Seq(T), NEW e \in T, IsInjective(list), ~Contains(list, e)
    PROVE  Append(list, e) \in Seq(T) /\ IsInjective(Append(list, e))
<1> DEFINE n == Len(list)
           new == Append(list, e)
<1>1. /\ n \in Nat /\ DOMAIN list = 1..n /\ new \in Seq(T) /\ DOMAIN new = 1..(n + 1)
      /\ \A k \in 1..n : new[k] = list[k]
      /\ new[n + 1] = e
  OBVIOUS
<1>2. \A k \in 1..n : list[k] # e
  BY DEF Contains
<1>3. \A k \in 1..(n + 1) : k \in 1..n \/ k = n + 1
  BY <1>1
<1> HIDE DEF n, new
<1>4. IsInjective(new)
  BY <1>1, <1>2, <1>3 DEF IsInjective
<1>5. QED
  BY <1>1, <1>4 DEF new

\* No address is listed twice, whatever is added and removed.
LEMMA IpsKeep == IpsOK /\ CustomerDetail => IpsOK'
<1> SUFFICES ASSUME IpsOK, CustomerDetail
             PROVE  IpsOK'
  OBVIOUS
<1>0. ips \in [list : Seq(Addresses), input : Inputs] /\ IsInjective(ips.list)
  BY DEF IpsOK
<1>1. CASE HandleAddIp
  <2> DEFINE e == ips.input.text
             new == Append(ips.list, e)
  <2>1. e \in Addresses /\ ~Contains(ips.list, e) /\ ips' = [list |-> new, input |-> <<>>]
    <3>1. ips.input \in Inputs /\ ips.input # <<>> /\ ips.input.text # Malformed
      BY <1>0, <1>1 DEF HandleAddIp
    <3>2. ips.input \in [text : Addresses \cup {Malformed}, blanks : BOOLEAN]
      BY <3>1 DEF Inputs
    <3>3. ips.input.text \in Addresses
      BY <3>1, <3>2
    <3>4. QED
      BY <1>1, <3>3 DEF HandleAddIp
  <2>2. new \in Seq(Addresses) /\ IsInjective(new)
    <3>1. ips.list \in Seq(Addresses)
      BY <1>0
    <3> HIDE DEF e
    <3>2. QED
      BY <1>0, <2>1, <3>1, AppendKeepsInjective
  <2> HIDE DEF new
  <2>3. QED
    BY <2>1, <2>2, MockIpsOK DEF IpsOK
<1>2. CASE LeaveDetail
  BY <1>2, MockIpsOK DEF LeaveDetail, IpsOK
<1>3. CASE \E ip \in Addresses : HandleRemoveIp(ip)
  <2>1. PICK ip \in Addresses : HandleRemoveIp(ip)
    BY <1>3
  <2> DEFINE new == Among(ips.list, Addresses \ {ip})
  <2>2. new \in Seq(Addresses) /\ IsInjective(new)
    BY <1>0, AmongIsList
  <2>3. ips' = [ips EXCEPT !.list = new]
    BY <2>1 DEF HandleRemoveIp
  <2> HIDE DEF new
  <2>4. QED
    BY <1>0, <2>2, <2>3 DEF IpsOK
<1>4. CASE \E input \in Inputs : IpTyped(input)
  BY <1>0, <1>4 DEF IpTyped, IpsOK
<1>5. QED
  BY <1>1, <1>2, <1>3, <1>4 DEF CustomerDetail

LEMMA LocalKeeps == LocalInv /\ LocalNext => LocalInv'
<1> SUFFICES ASSUME ItemOK, IpsOK, LocalNext
             PROVE  ItemOK' /\ IpsOK'
  BY DEF LocalInv
<1>1. CASE ConfigRow
  <2>1. ItemOK'
    BY <1>1, EditKeeps, SaveKeeps, SwitchKeeps DEF ConfigRow
  <2>2. ips' = ips
    BY <1>1 DEF ConfigRow
  <2>3. QED
    BY <2>1, <2>2 DEF IpsOK
<1>2. CASE ConfigEditor
  <2>1. item' = FirstRender(item.type) /\ item.type \in Types /\ ips' = ips
    BY <1>2 DEF ConfigEditor, LeaveSettings, ItemOK, ItemRows
  <2>2. ItemOK'
    BY <2>1, FirstRenderParts DEF ItemOK
  <2>3. QED
    BY <2>1, <2>2 DEF IpsOK
<1>3. CASE CustomerDetail
  <2>1. item' = item
    BY <1>3 DEF CustomerDetail, HandleAddIp, LeaveDetail, HandleRemoveIp, IpTyped
  <2>2. QED
    BY <1>3, <2>1, IpsKeep DEF ItemOK
<1>4. QED
  BY <1>1, <1>2, <1>3 DEF LocalNext

LEMMA LocalInitially ==
    ASSUME NEW types \in SUBSET Types, LocalInit(types)
    PROVE  LocalInv
<1>1. PICK type \in Types : item = FirstRender(type)
  BY DEF LocalInit
<1>2. ItemOK
  BY <1>1, FirstRenderParts DEF ItemOK
<1>3. IpsOK
  BY MockIpsOK DEF LocalInit, IpsOK
<1>4. QED
  BY <1>2, <1>3 DEF LocalInv

--------------------------------------------------------------------------------
(* The frame of every page *)

ChromeInv == ChromeTypeOK /\ ClassMatchesTheme

Sidebars == [narrow : BOOLEAN, open : BOOLEAN, openMobile : BOOLEAN,
             cookie : {"none", "true", "false"}]
ThemeStates == [state : Themes, stored : Themes \cup {"none"}]

\* A chosen theme, or the system's, is a look; the other look is one.
LEMMA LooksResolve ==
    /\ \A t \in Themes, look \in Looks : Resolve(t, look) \in Looks
    /\ \A look \in Looks : Other(look) \in Looks /\ Other(look) # look
                           /\ Other(look) \in Themes /\ Other(look) # "system"
BY DEF Resolve, Other, Themes, Looks

\* What a page is when it is loaded
LEMMA LoadsParts ==
    ASSUME NEW stored \in Themes \cup {"none"}, NEW system \in Looks,
           NEW cookie \in {"none", "true", "false"}, NEW narrow \in BOOLEAN
    PROVE  LET page == Loads(stored, system, cookie, narrow)
           IN  /\ page.theme \in ThemeStates /\ page.look \in Looks
               /\ page.look = Resolve(page.theme.state, system)
               /\ page.sidebar \in Sidebars
<1> DEFINE t == IF stored = "none" THEN "system" ELSE stored
           page == Loads(stored, system, cookie, narrow)
<1>1. t \in Themes
  BY DEF Themes
<1>2. /\ page.theme = [state |-> t, stored |-> stored] /\ page.look = Resolve(t, system)
      /\ page.sidebar = [narrow |-> narrow, open |-> TRUE, openMobile |-> FALSE,
                         cookie |-> cookie]
  BY DEF Loads
<1> HIDE DEF t, page
<1>3. page.theme \in ThemeStates /\ page.theme.state = t
  BY <1>1, <1>2 DEF ThemeStates
<1>4. page.sidebar \in Sidebars
  BY <1>2 DEF Sidebars
<1>5. page.look \in Looks /\ page.look = Resolve(page.theme.state, system)
  BY <1>1, <1>2, <1>3, LooksResolve
<1>6. QED
  BY <1>3, <1>4, <1>5 DEF page

LEMMA ChromeInitially ==
    ASSUME NEW visits \in SUBSET Visits, ChromeInit(visits)
    PROVE  ChromeInv
<1>1. PICK v \in Visits :
         LET page == Loads(v.stored, v.os, "none", v.narrow)
         IN  /\ front = v.front /\ os = v.os
             /\ theme = page.theme /\ resolved = page.look /\ class = page.look
             /\ sidebar = page.sidebar
  BY DEF ChromeInit
<1>2. /\ v.front \in Fronts /\ v.os \in Looks /\ v.narrow \in BOOLEAN
      /\ v.stored \in Themes \cup {"none"}
  BY DEF Visits, Themes
<1> DEFINE page == Loads(v.stored, v.os, "none", v.narrow)
<1>3. /\ page.theme \in ThemeStates /\ page.look \in Looks
      /\ page.look = Resolve(page.theme.state, v.os)
      /\ page.sidebar \in Sidebars
  BY <1>2, LoadsParts
<1>4. /\ front = v.front /\ os = v.os
      /\ theme = page.theme /\ resolved = page.look /\ class = page.look
      /\ sidebar = page.sidebar
  BY <1>1
<1> HIDE DEF page
<1>5. QED
  BY <1>2, <1>3, <1>4 DEF ChromeInv, ChromeTypeOK, ClassMatchesTheme, ThemeStates, Sidebars

\* A reload resolves the theme that is stored.
LEMMA ReloadKeeps == ChromeInv /\ Reload => ChromeInv'
<1> SUFFICES ASSUME ChromeInv, Reload
             PROVE  ChromeInv'
  OBVIOUS
<1> DEFINE page == Loads(theme.stored, os, sidebar.cookie, sidebar.narrow)
<1>1. /\ theme' = page.theme /\ resolved' = page.look /\ class' = page.look
      /\ sidebar' = page.sidebar /\ UNCHANGED <<front, os>>
  BY DEF Reload
<1>2. /\ theme.stored \in Themes \cup {"none"} /\ os \in Looks
      /\ sidebar.cookie \in {"none", "true", "false"} /\ sidebar.narrow \in BOOLEAN
  BY DEF ChromeInv, ChromeTypeOK
<1>3. /\ page.theme \in ThemeStates /\ page.look \in Looks
      /\ page.look = Resolve(page.theme.state, os)
      /\ page.sidebar \in Sidebars
  BY <1>2, LoadsParts
<1> HIDE DEF page
<1>4. QED
  BY <1>1, <1>3 DEF ChromeInv, ChromeTypeOK, ClassMatchesTheme, ThemeStates, Sidebars

\* The toggle always asks for another look than at the last render, so its
\* effect sets the class.
LEMMA SetThemeKeeps == ChromeInv /\ SetTheme(Other(resolved)) => ChromeInv'
<1> SUFFICES ASSUME ChromeInv, SetTheme(Other(resolved))
             PROVE  ChromeInv'
  OBVIOUS
<1> DEFINE t == Other(resolved)
<1>1. resolved \in Looks /\ os \in Looks
  BY DEF ChromeInv, ChromeTypeOK
<1>2. t \in Looks /\ t # resolved /\ t \in Themes /\ t # "system"
  BY <1>1, LooksResolve
<1>3. Resolve(t, os) = t
  BY <1>2 DEF Resolve
<1>4. /\ theme' = [state |-> t, stored |-> t] /\ resolved' = t /\ class' = t
      /\ UNCHANGED <<front, os, sidebar>>
  BY <1>2, <1>3 DEF SetTheme
<1> HIDE DEF t
<1>5. theme' \in ThemeStates /\ theme'.state = t
  BY <1>2, <1>4 DEF ThemeStates
<1>6. Resolve(t, os') = t
  BY <1>2 DEF Resolve
<1>7. QED
  BY <1>2, <1>4, <1>5, <1>6 DEF ChromeInv, ChromeTypeOK, ClassMatchesTheme, ThemeStates

\* The listener sets the class when the theme is the system's.
LEMMA SystemChangesKeeps == ChromeInv /\ SystemChanges => ChromeInv'
<1> SUFFICES ASSUME ChromeInv, SystemChanges
             PROVE  ChromeInv'
  OBVIOUS
<1>1. os' \in Looks
  BY LooksResolve DEF SystemChanges, ChromeInv, ChromeTypeOK
<1>2. /\ class' = IF theme.state = "system" THEN os' ELSE class
      /\ UNCHANGED <<front, theme, resolved, sidebar>>
  BY DEF SystemChanges
<1>3. class' = Resolve(theme'.state, os')
  BY <1>2 DEF ChromeInv, ClassMatchesTheme, Resolve
<1>4. class' \in Looks
  BY <1>1, <1>2 DEF ChromeInv, ChromeTypeOK
<1>5. QED
  BY <1>1, <1>2, <1>3, <1>4 DEF ChromeInv, ChromeTypeOK, ClassMatchesTheme

\* The sidebar's flags are flags, whoever changes them; the theme is left alone.
LEMMA SidebarKeeps == ChromeInv /\ (ToggleSidebar \/ CloseSheet \/ Resize) => ChromeInv'
<1> SUFFICES ASSUME ChromeInv, ToggleSidebar \/ CloseSheet \/ Resize
             PROVE  ChromeInv'
  OBVIOUS
<1>1. UNCHANGED <<front, theme, resolved, class, os>> /\ sidebar \in Sidebars
  BY DEF ToggleSidebar, CloseSheet, Resize, ChromeInv, ChromeTypeOK, Sidebars
<1>2. sidebar' \in Sidebars
  <2>1. CASE ToggleSidebar
    <3>1. CASE sidebar.narrow
      BY <1>1, <2>1, <3>1 DEF ToggleSidebar, Sidebars
    <3>2. CASE ~sidebar.narrow
      <4> DEFINE c == IF sidebar.open THEN "false" ELSE "true"
                 r == [sidebar EXCEPT !.open = ~@]
                 s == [r EXCEPT !.cookie = c]
      <4>1. c \in {"none", "true", "false"}
        OBVIOUS
      <4>2. r \in Sidebars
        BY <1>1 DEF Sidebars
      <4>3. sidebar' = s
        BY <2>1, <3>2 DEF ToggleSidebar
      <4> HIDE DEF r, c
      <4>4. QED
        BY <4>1, <4>2, <4>3 DEF Sidebars
    <3>3. QED
      BY <3>1, <3>2
  <2>2. CASE CloseSheet
    BY <1>1, <2>2 DEF CloseSheet, Sidebars
  <2>3. CASE Resize
    BY <1>1, <2>3 DEF Resize, Sidebars
  <2>4. QED
    BY <2>1, <2>2, <2>3
<1>3. QED
  BY <1>1, <1>2 DEF ChromeInv, ChromeTypeOK, ClassMatchesTheme, Sidebars

LEMMA ChromeKeeps == ChromeInv /\ ChromeNext => ChromeInv'
BY ReloadKeeps, SetThemeKeeps, SystemChangesKeeps, SidebarKeeps
   DEF ChromeNext, AdminThemeProvider, PortalThemeProvider, ThemeProvider, AdminToggleTheme,
       PortalToggleTheme, AdminSidebarProvider, PortalSidebarProvider, AdminSidebar,
       PortalSidebar, AdminUseIsMobile, PortalUseIsMobile

\* Toggling changes the flag of the width the window has.
LEMMA ToggleIsSeen == ChromeInv /\ ToggleSidebar => Visible' # Visible
<1> SUFFICES ASSUME ChromeInv, ToggleSidebar
             PROVE  Visible' # Visible
  OBVIOUS
<1>1. sidebar \in Sidebars
  BY DEF ChromeInv, ChromeTypeOK, Sidebars
<1>2. CASE sidebar.narrow
  <2>1. sidebar' = [sidebar EXCEPT !.openMobile = ~@]
    BY <1>2 DEF ToggleSidebar
  <2>2. sidebar'.narrow = sidebar.narrow /\ sidebar'.openMobile = ~sidebar.openMobile
    BY <1>1, <2>1 DEF Sidebars
  <2>3. QED
    BY <1>1, <1>2, <2>2 DEF Visible, Sidebars
<1>3. CASE ~sidebar.narrow
  <2> DEFINE r == [sidebar EXCEPT !.open = ~@]
             s == [r EXCEPT !.cookie = IF sidebar.open THEN "false" ELSE "true"]
  <2>1. r \in Sidebars /\ r.narrow = sidebar.narrow /\ r.open = ~sidebar.open
    BY <1>1 DEF Sidebars
  <2>2. sidebar' = s
    BY <1>3 DEF ToggleSidebar
  <2> HIDE DEF r
  <2>3. sidebar'.narrow = sidebar.narrow /\ sidebar'.open = ~sidebar.open
    BY <2>1, <2>2 DEF Sidebars
  <2>4. QED
    BY <1>1, <1>3, <2>3 DEF Visible, Sidebars
<1>4. QED
  BY <1>2, <1>3

--------------------------------------------------------------------------------
(* The tables of the hooks, read once: which write refreshes which query *)

\* The methods of the services
LEMMA Methods ==
    /\ DOMAIN AdminAuthService = {"Me", "ListUsers", "GetUser", "CreateUser", "FreezeUser",
                                  "UnfreezeUser", "RegenerateApiKey"}
    /\ DOMAIN AdminBillingService = {"GetOverview", "TopUp", "Deduct", "ListTransactions",
                                     "ListRatePlans", "CreateRatePlan"}
    /\ DOMAIN AdminRoutingService = {"ListGateways", "ToggleGateway", "ListDIDs", "ImportDIDs",
                                     "HealthCheck", "CreateGateway", "UpdateGateway",
                                     "TestOriginate"}
    /\ DOMAIN AdminCallbackService = {"ListCDRs", "ListActiveCalls", "HangupCall"}
    /\ DOMAIN AdminComplianceService = {"ListBlacklist", "AddBlacklist", "RemoveBlacklist",
                                        "ListAuditLogs"}
    /\ DOMAIN PortalAuthService = {"me", "updateProfile", "changePassword", "regenerateApiKey",
                                   "addIp", "removeIp"}
    /\ DOMAIN PortalCallbackService = {"initiate", "listCDRs", "listActiveCalls", "hangupCall"}
    /\ DOMAIN PortalBillingService = {"getBalance", "listTransactions", "getUsageSummary",
                                      "queryRate"}
    /\ DOMAIN PortalWebhookService = {"getConfig", "saveConfig", "test", "listDeliveries"}
    /\ DOMAIN [mock |-> Mock] = {"mock"}
BY DEF AdminAuthService, AdminBillingService, AdminRoutingService, AdminCallbackService,
       AdminComplianceService, PortalAuthService, PortalCallbackService, PortalBillingService,
       PortalWebhookService

\* The service a method is found in: no other one has it.
LEMMA ServicesApart ==
    \A s, t \in Services : \A method \in DOMAIN s \cap DOMAIN t : s = t
<1> DEFINE Own(s) == \A t \in Services : \A method \in DOMAIN s \cap DOMAIN t : s = t
<1>1. Own(AdminAuthService)
  BY Methods DEF Services
<1>2. Own(AdminBillingService)
  BY Methods DEF Services
<1>3. Own(AdminRoutingService)
  BY Methods DEF Services
<1>4. Own(AdminCallbackService)
  BY Methods DEF Services
<1>5. Own(AdminComplianceService)
  BY Methods DEF Services
<1>6. Own(PortalAuthService)
  BY Methods DEF Services
<1>7. Own(PortalCallbackService)
  BY Methods DEF Services
<1>8. Own(PortalBillingService)
  BY Methods DEF Services
<1>9. Own(PortalWebhookService)
  BY Methods DEF Services
<1>10. Own([mock |-> Mock])
  BY Methods DEF Services
<1> HIDE DEF Own
<1>11. \A s \in Services : Own(s)
  BY <1>1, <1>2, <1>3, <1>4, <1>5, <1>6, <1>7, <1>8, <1>9, <1>10 DEF Services
<1>12. QED
  BY <1>11 DEF Own

LEMMA EndpointOf ==
    ASSUME NEW s \in Services, NEW method \in DOMAIN s
    PROVE  Endpoints[method] = s[method]
<1>1. method \in UNION {DOMAIN t : t \in Services}
  OBVIOUS
<1>2. PICK t \in Services : /\ method \in DOMAIN t
                            /\ t = (CHOOSE u \in Services : method \in DOMAIN u)
  OBVIOUS
<1>3. t = s
  BY <1>2, ServicesApart
<1>4. QED
  BY <1>1, <1>2, <1>3 DEF Endpoints

\* What the methods of the admin read and write
LEMMA AdminEndpoints ==
    /\ Endpoints["Me"] = Get({"me"}) /\ Endpoints["ListUsers"] = Get({"users"})
    /\ Endpoints["GetUser"] = Get({"users"}) /\ Endpoints["CreateUser"] = Post({"users"})
    /\ Endpoints["FreezeUser"] = Post({"users"}) /\ Endpoints["UnfreezeUser"] = Post({"users"})
    /\ Endpoints["RegenerateApiKey"] = Post({"apiKeys"})
    /\ Endpoints["GetOverview"] = Mock
    /\ Endpoints["TopUp"] = Post({"accounts", "transactions"})
    /\ Endpoints["Deduct"] = Post({"accounts", "transactions"})
    /\ Endpoints["ListTransactions"] = Get({"transactions"})
    /\ Endpoints["ListRatePlans"] = Get({"ratePlans"})
    /\ Endpoints["CreateRatePlan"] = Post({"ratePlans"})
    /\ Endpoints["ListGateways"] = Get({"gateways"})
    /\ Endpoints["ToggleGateway"] = Post({"gateways"})
    /\ Endpoints["ListDIDs"] = Get({"dids"}) /\ Endpoints["ImportDIDs"] = Post({"dids"})
    /\ Endpoints["HealthCheck"] = Get({"gateways"})
    /\ Endpoints["CreateGateway"] = Post({"gateways"})
    /\ Endpoints["UpdateGateway"] = Post({"gateways"})
    /\ Endpoints["TestOriginate"] = Mock
    /\ Endpoints["ListCDRs"] = Get({"calls"}) /\ Endpoints["ListActiveCalls"] = Get({"calls"})
    /\ Endpoints["HangupCall"] = Post({})
    /\ Endpoints["ListBlacklist"] = Get({"blacklist"})
    /\ Endpoints["AddBlacklist"] = Post({"blacklist"})
    /\ Endpoints["RemoveBlacklist"] = Post({"blacklist"})
    /\ Endpoints["ListAuditLogs"] = Get({"auditLogs"})
    /\ Endpoints["mock"] = Mock
<1>1. \A method \in DOMAIN AdminAuthService : Endpoints[method] = AdminAuthService[method]
  BY EndpointOf DEF Services
<1>2. \A method \in DOMAIN AdminBillingService : Endpoints[method] = AdminBillingService[method]
  BY EndpointOf DEF Services
<1>3. \A method \in DOMAIN AdminRoutingService : Endpoints[method] = AdminRoutingService[method]
  BY EndpointOf DEF Services
<1>4. \A method \in DOMAIN AdminCallbackService : Endpoints[method] = AdminCallbackService[method]
  BY EndpointOf DEF Services
<1>5. \A method \in DOMAIN AdminComplianceService :
         Endpoints[method] = AdminComplianceService[method]
  BY EndpointOf DEF Services
<1>6. \A method \in DOMAIN [mock |-> Mock] : Endpoints[method] = [mock |-> Mock][method]
  BY EndpointOf DEF Services
<1>7. /\ Endpoints["Me"] = Get({"me"}) /\ Endpoints["ListUsers"] = Get({"users"})
      /\ Endpoints["GetUser"] = Get({"users"}) /\ Endpoints["CreateUser"] = Post({"users"})
      /\ Endpoints["FreezeUser"] = Post({"users"}) /\ Endpoints["UnfreezeUser"] = Post({"users"})
      /\ Endpoints["RegenerateApiKey"] = Post({"apiKeys"})
  BY <1>1 DEF AdminAuthService
<1>8. /\ Endpoints["GetOverview"] = Mock
      /\ Endpoints["TopUp"] = Post({"accounts", "transactions"})
      /\ Endpoints["Deduct"] = Post({"accounts", "transactions"})
      /\ Endpoints["ListTransactions"] = Get({"transactions"})
      /\ Endpoints["ListRatePlans"] = Get({"ratePlans"})
      /\ Endpoints["CreateRatePlan"] = Post({"ratePlans"})
  BY <1>2 DEF AdminBillingService
<1>9. /\ Endpoints["ListGateways"] = Get({"gateways"})
      /\ Endpoints["ToggleGateway"] = Post({"gateways"})
      /\ Endpoints["ListDIDs"] = Get({"dids"}) /\ Endpoints["ImportDIDs"] = Post({"dids"})
      /\ Endpoints["HealthCheck"] = Get({"gateways"})
      /\ Endpoints["CreateGateway"] = Post({"gateways"})
      /\ Endpoints["UpdateGateway"] = Post({"gateways"})
      /\ Endpoints["TestOriginate"] = Mock
  BY <1>3 DEF AdminRoutingService
<1>10. /\ Endpoints["ListCDRs"] = Get({"calls"}) /\ Endpoints["ListActiveCalls"] = Get({"calls"})
       /\ Endpoints["HangupCall"] = Post({})
  BY <1>4 DEF AdminCallbackService
<1>11. /\ Endpoints["ListBlacklist"] = Get({"blacklist"})
       /\ Endpoints["AddBlacklist"] = Post({"blacklist"})
       /\ Endpoints["RemoveBlacklist"] = Post({"blacklist"})
       /\ Endpoints["ListAuditLogs"] = Get({"auditLogs"})
  BY <1>5 DEF AdminComplianceService
<1>12. Endpoints["mock"] = Mock
  BY <1>6
<1>13. QED
  BY <1>7, <1>8, <1>9, <1>10, <1>11, <1>12

\* What the methods of the portal read and write
LEMMA PortalEndpoints ==
    /\ Endpoints["me"] = Get({"me"}) /\ Endpoints["updateProfile"] = Post({"me"})
    /\ Endpoints["changePassword"] = Post({}) /\ Endpoints["regenerateApiKey"] = Post({"apiKeys"})
    /\ Endpoints["initiate"] = Post({"calls", "accounts", "transactions"})
    /\ Endpoints["listCDRs"] = Get({"calls"}) /\ Endpoints["listActiveCalls"] = Get({"calls"})
    /\ Endpoints["hangupCall"] = Post({})
    /\ Endpoints["getBalance"] = Get({"accounts"})
    /\ Endpoints["listTransactions"] = Get({"transactions"})
    /\ Endpoints["getUsageSummary"] = Mock
    /\ Endpoints["mock"] = Mock
<1>1. \A method \in DOMAIN PortalAuthService : Endpoints[method] = PortalAuthService[method]
  BY EndpointOf DEF Services
<1>2. \A method \in DOMAIN PortalCallbackService :
         Endpoints[method] = PortalCallbackService[method]
  BY EndpointOf DEF Services
<1>3. \A method \in DOMAIN PortalBillingService : Endpoints[method] = PortalBillingService[method]
  BY EndpointOf DEF Services
<1>4. /\ Endpoints["me"] = Get({"me"}) /\ Endpoints["updateProfile"] = Post({"me"})
      /\ Endpoints["changePassword"] = Post({})
      /\ Endpoints["regenerateApiKey"] = Post({"apiKeys"})
  BY <1>1 DEF PortalAuthService
<1>5. /\ Endpoints["initiate"] = Post({"calls", "accounts", "transactions"})
      /\ Endpoints["listCDRs"] = Get({"calls"}) /\ Endpoints["listActiveCalls"] = Get({"calls"})
      /\ Endpoints["hangupCall"] = Post({})
  BY <1>2 DEF PortalCallbackService
<1>6. /\ Endpoints["getBalance"] = Get({"accounts"})
      /\ Endpoints["listTransactions"] = Get({"transactions"})
      /\ Endpoints["getUsageSummary"] = Mock
  BY <1>3 DEF PortalBillingService
<1>7. QED
  BY <1>4, <1>5, <1>6, AdminEndpoints

\* A query of the admin: what it calls, and how its key begins when a mutation
\* writes what it reads
AdminAsk(v) ==
    /\ v.polls \in BOOLEAN /\ v.retries \in 0 .. 1
    /\ \/ v.calls \in {"Me", "GetOverview", "ListTransactions", "ListCDRs", "ListActiveCalls",
                       "ListAuditLogs", "HealthCheck", "mock"}
       \/ v.calls \in {"ListUsers", "GetUser"} /\ IsPrefix(<<"customers">>, v.key)
       \/ v.calls = "ListGateways" /\ IsPrefix(<<"gateways">>, v.key)
       \/ v.calls = "ListRatePlans" /\ IsPrefix(<<"rate-plans">>, v.key)
       \/ v.calls = "ListDIDs" /\ IsPrefix(<<"dids">>, v.key)
       \/ v.calls = "ListBlacklist" /\ IsPrefix(<<"blacklist">>, v.key)

\* A mutation of the admin: what it calls, and which keys it names
AdminAct(a) ==
    \/ a.calls \in {"TopUp", "Deduct", "RegenerateApiKey", "TestOriginate", "HangupCall", "mock"}
    \/ a.calls \in {"CreateUser", "FreezeUser", "UnfreezeUser"} /\ <<"customers">> \in a.stales
    \/ /\ a.calls \in {"ToggleGateway", "CreateGateway", "UpdateGateway"}
       /\ <<"gateways">> \in a.stales
    \/ a.calls = "CreateRatePlan" /\ <<"rate-plans">> \in a.stales
    \/ a.calls = "ImportDIDs" /\ <<"dids">> \in a.stales
    \/ a.calls \in {"AddBlacklist", "RemoveBlacklist"} /\ <<"blacklist">> \in a.stales

PortalAsk(v) ==
    /\ v.polls \in BOOLEAN /\ v.retries \in 0 .. 1
    /\ \/ v.calls \in {"getUsageSummary", "mock", "listCDRs", "getBalance", "listTransactions"}
       \/ v.calls = "me" /\ IsPrefix(<<"portal", "auth">>, v.key)
       \/ v.calls = "listActiveCalls" /\ IsPrefix(<<"portal", "active-calls">>, v.key)

PortalAct(a) ==
    \/ a.calls \in {"hangupCall", "changePassword", "regenerateApiKey", "mock"}
    \/ a.calls = "initiate" /\ <<"portal", "active-calls">> \in a.stales
    \/ a.calls = "updateProfile" /\ <<"portal", "auth">> \in a.stales

\* A key begins with a key it was built from.
LEMMA KeysBegin ==
    /\ \A x, y : IsPrefix(<<x>>, <<x, y>>)
    /\ \A x : IsPrefix(<<x>>, <<x>>)
    /\ \A x, y : IsPrefix(<<x, y>>, <<x, y>>)
    /\ \A x, y, z : IsPrefix(<<x, y>>, <<x, y, z>>)
<1>1. \A x, y : IsPrefix(<<x>>, <<x, y>>)
  BY DEF IsPrefix
<1>2. \A x : IsPrefix(<<x>>, <<x>>)
  BY DEF IsPrefix
<1>3. \A x, y : IsPrefix(<<x, y>>, <<x, y>>)
  BY DEF IsPrefix
<1>4. \A x, y, z : IsPrefix(<<x, y>>, <<x, y, z>>)
  BY DEF IsPrefix
<1>5. QED
  BY <1>1, <1>2, <1>3, <1>4

\* The parts of a query, however it is made
LEMMA QueryParts ==
    ASSUME NEW key, NEW method
    PROVE  /\ Query(key, method).key = key /\ Query(key, method).calls = method
           /\ Query(key, method).polls \in BOOLEAN /\ Query(key, method).retries \in 0 .. 1
           /\ Polled(key, method).key = key /\ Polled(key, method).calls = method
           /\ Polled(key, method).polls \in BOOLEAN /\ Polled(key, method).retries \in 0 .. 1
           /\ Once(key, method).key = key /\ Once(key, method).calls = method
           /\ Once(key, method).polls \in BOOLEAN /\ Once(key, method).retries \in 0 .. 1
BY DEF Query, Polled, Once

LEMMA MutationParts ==
    ASSUME NEW method, NEW keys
    PROVE  Mutation(method, keys).calls = method /\ Mutation(method, keys).stales = keys
BY DEF Mutation

\* Every hook of the admin is of these kinds.
LEMMA AdminTables ==
    \A s \in AdminHooks : /\ \A q \in DOMAIN s.queries : AdminAsk(s.queries[q])
                          /\ \A a \in DOMAIN s.mutations : AdminAct(s.mutations[a])
<1> DEFINE Asks(s) == \A q \in DOMAIN s.queries : AdminAsk(s.queries[q])
           Acts(s) == \A a \in DOMAIN s.mutations : AdminAct(s.mutations[a])
<1>1. Asks(AdminDashboard) /\ Acts(AdminDashboard)
  BY QueryParts DEF AdminDashboard, AdminAsk, None
<1>2. Asks(AdminCustomers) /\ Acts(AdminCustomers)
  <2>1. Asks(AdminCustomers)
    BY QueryParts, KeysBegin DEF AdminCustomers, AdminAsk
  <2>2. Acts(AdminCustomers)
    BY MutationParts DEF AdminCustomers, AdminAct
  <2>3. QED
    BY <2>1, <2>2
<1>3. Asks(AdminGateways) /\ Acts(AdminGateways)
  <2>1. Asks(AdminGateways)
    BY QueryParts, KeysBegin DEF AdminGateways, AdminAsk
  <2>2. Acts(AdminGateways)
    BY MutationParts DEF AdminGateways, AdminAct
  <2>3. QED
    BY <2>1, <2>2
<1>4. Asks(AdminCdr) /\ Acts(AdminCdr)
  BY QueryParts, MutationParts DEF AdminCdr, AdminAsk, AdminAct
<1>5. Asks(AdminFinance) /\ Acts(AdminFinance)
  <2>1. Asks(AdminFinance)
    BY QueryParts, KeysBegin DEF AdminFinance, AdminAsk
  <2>2. Acts(AdminFinance)
    BY MutationParts DEF AdminFinance, AdminAct
  <2>3. QED
    BY <2>1, <2>2
<1>6. Asks(AdminDids) /\ Acts(AdminDids)
  BY QueryParts, MutationParts, KeysBegin DEF AdminDids, AdminAsk, AdminAct
<1>7. Asks(AdminCompliance) /\ Acts(AdminCompliance)
  BY QueryParts, MutationParts, KeysBegin DEF AdminCompliance, AdminAsk, AdminAct
<1>8. Asks(AdminWastage) /\ Acts(AdminWastage)
  BY QueryParts DEF AdminWastage, AdminAsk, None
<1>9. Asks(AdminOps) /\ Acts(AdminOps)
  BY QueryParts, MutationParts DEF AdminOps, AdminAsk, AdminAct
<1> HIDE DEF Asks, Acts
<1>10. \A s \in AdminHooks : Asks(s) /\ Acts(s)
  BY <1>1, <1>2, <1>3, <1>4, <1>5, <1>6, <1>7, <1>8, <1>9 DEF AdminHooks
<1>11. QED
  BY <1>10 DEF Asks, Acts

\* And every hook of the portal is of its kinds.
LEMMA PortalTables ==
    \A s \in PortalHooks : /\ \A q \in DOMAIN s.queries : PortalAsk(s.queries[q])
                           /\ \A a \in DOMAIN s.mutations : PortalAct(s.mutations[a])
<1> DEFINE Asks(s) == \A q \in DOMAIN s.queries : PortalAsk(s.queries[q])
           Acts(s) == \A a \in DOMAIN s.mutations : PortalAct(s.mutations[a])
<1>1. Asks(PortalDashboard) /\ Acts(PortalDashboard)
  BY QueryParts, KeysBegin DEF PortalDashboard, PortalAsk, None
<1>2. Asks(PortalCallback) /\ Acts(PortalCallback)
  BY QueryParts, MutationParts, KeysBegin DEF PortalCallback, PortalAsk, PortalAct
<1>3. Asks(PortalCdr) /\ Acts(PortalCdr)
  BY QueryParts DEF PortalCdr, PortalAsk, None
<1>4. Asks(PortalFinance) /\ Acts(PortalFinance)
  BY QueryParts DEF PortalFinance, PortalAsk, None
<1>5. Asks(PortalWastage) /\ Acts(PortalWastage)
  BY QueryParts DEF PortalWastage, PortalAsk, None
<1>6. Asks(PortalSettings) /\ Acts(PortalSettings)
  BY MutationParts DEF PortalSettings, PortalAct, None
<1>7. Asks(PortalIps) /\ Acts(PortalIps)
  BY MutationParts DEF PortalIps, PortalAct, None
<1>8. Asks(PortalRate) /\ Acts(PortalRate)
  BY QueryParts DEF PortalRate, PortalAsk, None
<1>9. Asks(PortalWebhook) /\ Acts(PortalWebhook)
  BY QueryParts, MutationParts DEF PortalWebhook, PortalAsk, PortalAct
<1> HIDE DEF Asks, Acts
<1>10. \A s \in PortalHooks : Asks(s) /\ Acts(s)
  BY <1>1, <1>2, <1>3, <1>4, <1>5, <1>6, <1>7, <1>8, <1>9 DEF PortalHooks
<1>11. QED
  BY <1>10 DEF Asks, Acts

\* An admin's query that a mutation changes is refreshed, or excused.
LEMMA AdminRefreshes ==
    ASSUME NEW v, AdminAsk(v), NEW a, AdminAct(a), Affects(a, v)
    PROVE  Stales(a, v) \/ <<a.calls, v.calls>> \in Unrefreshed
<1> DEFINE Reads == Endpoints[v.calls].reads
           Wrote == Endpoints[a.calls].writes
<1>1. Wrote \cap Reads # {}
  BY DEF Affects
<1>2. /\ v.calls \in {"Me"} => Reads = {"me"}
      /\ v.calls \in {"GetOverview", "mock"} => Reads = {}
      /\ v.calls = "ListTransactions" => Reads = {"transactions"}
      /\ v.calls \in {"ListCDRs", "ListActiveCalls"} => Reads = {"calls"}
      /\ v.calls = "ListAuditLogs" => Reads = {"auditLogs"}
      /\ v.calls \in {"HealthCheck", "ListGateways"} => Reads = {"gateways"}
      /\ v.calls \in {"ListUsers", "GetUser"} => Reads = {"users"}
      /\ v.calls = "ListRatePlans" => Reads = {"ratePlans"}
      /\ v.calls = "ListDIDs" => Reads = {"dids"}
      /\ v.calls = "ListBlacklist" => Reads = {"blacklist"}
  BY AdminEndpoints DEF Get, Mock
<1>3. /\ a.calls \in {"TopUp", "Deduct"} => Wrote = {"accounts", "transactions"}
      /\ a.calls = "RegenerateApiKey" => Wrote = {"apiKeys"}
      /\ a.calls \in {"TestOriginate", "HangupCall", "mock"} => Wrote = {}
      /\ a.calls \in {"CreateUser", "FreezeUser", "UnfreezeUser"} => Wrote = {"users"}
      /\ a.calls \in {"ToggleGateway", "CreateGateway", "UpdateGateway"} => Wrote = {"gateways"}
      /\ a.calls = "CreateRatePlan" => Wrote = {"ratePlans"}
      /\ a.calls = "ImportDIDs" => Wrote = {"dids"}
      /\ a.calls \in {"AddBlacklist", "RemoveBlacklist"} => Wrote = {"blacklist"}
  BY AdminEndpoints DEF Get, Post, Mock
<1> HIDE DEF Reads, Wrote
<1>4. CASE a.calls \in {"TopUp", "Deduct"}
  <2>1. v.calls = "ListTransactions"
    BY <1>1, <1>2, <1>3, <1>4 DEF AdminAsk
  <2>2. QED
    BY <1>4, <2>1 DEF Unrefreshed
<1>5. CASE a.calls \in {"RegenerateApiKey", "TestOriginate", "HangupCall", "mock"}
  BY <1>1, <1>2, <1>3, <1>5 DEF AdminAsk
<1>6. CASE a.calls \in {"CreateUser", "FreezeUser", "UnfreezeUser"}
  <2>1. IsPrefix(<<"customers">>, v.key)
    BY <1>1, <1>2, <1>3, <1>6 DEF AdminAsk
  <2>2. <<"customers">> \in a.stales
    BY <1>6 DEF AdminAct
  <2>3. QED
    BY <2>1, <2>2 DEF Stales
<1>7. CASE a.calls \in {"ToggleGateway", "CreateGateway", "UpdateGateway"}
  <2>1. v.calls = "HealthCheck" \/ IsPrefix(<<"gateways">>, v.key)
    BY <1>1, <1>2, <1>3, <1>7 DEF AdminAsk
  <2>2. <<"gateways">> \in a.stales
    BY <1>7 DEF AdminAct
  <2>3. v.calls = "HealthCheck" => <<a.calls, v.calls>> \in Unrefreshed
    BY <1>7 DEF Unrefreshed
  <2>4. QED
    BY <2>1, <2>2, <2>3 DEF Stales
<1>8. CASE a.calls = "CreateRatePlan"
  <2>1. IsPrefix(<<"rate-plans">>, v.key)
    BY <1>1, <1>2, <1>3, <1>8 DEF AdminAsk
  <2>2. <<"rate-plans">> \in a.stales
    BY <1>8 DEF AdminAct
  <2>3. QED
    BY <2>1, <2>2 DEF Stales
<1>9. CASE a.calls = "ImportDIDs"
  <2>1. IsPrefix(<<"dids">>, v.key)
    BY <1>1, <1>2, <1>3, <1>9 DEF AdminAsk
  <2>2. <<"dids">> \in a.stales
    BY <1>9 DEF AdminAct
  <2>3. QED
    BY <2>1, <2>2 DEF Stales
<1>10. CASE a.calls \in {"AddBlacklist", "RemoveBlacklist"}
  <2>1. IsPrefix(<<"blacklist">>, v.key)
    BY <1>1, <1>2, <1>3, <1>10 DEF AdminAsk
  <2>2. <<"blacklist">> \in a.stales
    BY <1>10 DEF AdminAct
  <2>3. QED
    BY <2>1, <2>2 DEF Stales
<1>11. QED
  BY <1>4, <1>5, <1>6, <1>7, <1>8, <1>9, <1>10 DEF AdminAct

\* And so is the portal's.
LEMMA PortalRefreshes ==
    ASSUME NEW v, PortalAsk(v), NEW a, PortalAct(a), Affects(a, v)
    PROVE  Stales(a, v) \/ <<a.calls, v.calls>> \in Unrefreshed
<1> DEFINE Reads == Endpoints[v.calls].reads
           Wrote == Endpoints[a.calls].writes
<1>1. Wrote \cap Reads # {}
  BY DEF Affects
<1>2. /\ v.calls \in {"getUsageSummary", "mock"} => Reads = {}
      /\ v.calls \in {"listCDRs", "listActiveCalls"} => Reads = {"calls"}
      /\ v.calls = "getBalance" => Reads = {"accounts"}
      /\ v.calls = "listTransactions" => Reads = {"transactions"}
      /\ v.calls = "me" => Reads = {"me"}
  BY PortalEndpoints DEF Get, Mock
<1>3. /\ a.calls \in {"hangupCall", "changePassword", "mock"} => Wrote = {}
      /\ a.calls = "regenerateApiKey" => Wrote = {"apiKeys"}
      /\ a.calls = "updateProfile" => Wrote = {"me"}
  BY PortalEndpoints DEF Get, Post, Mock
<1> HIDE DEF Reads, Wrote
<1>4. CASE a.calls \in {"hangupCall", "changePassword", "regenerateApiKey", "mock"}
  BY <1>1, <1>2, <1>3, <1>4 DEF PortalAsk
<1>5. CASE a.calls = "updateProfile"
  <2>1. IsPrefix(<<"portal", "auth">>, v.key)
    BY <1>1, <1>2, <1>3, <1>5 DEF PortalAsk
  <2>2. <<"portal", "auth">> \in a.stales
    BY <1>5 DEF PortalAct
  <2>3. QED
    BY <2>1, <2>2 DEF Stales
<1>6. CASE a.calls = "initiate"
  <2>1. v.calls \notin {"getUsageSummary", "mock", "me"}
    <3>1. Wrote = {"calls", "accounts", "transactions"}
      BY <1>6, PortalEndpoints DEF Post, Wrote
    <3>2. QED
      BY <1>1, <1>2, <3>1
  <2>2. v.calls \in {"listCDRs", "getBalance", "listTransactions"}
            => <<a.calls, v.calls>> \in Unrefreshed
    BY <1>6 DEF Unrefreshed
  <2>3. v.calls = "listActiveCalls" => IsPrefix(<<"portal", "active-calls">>, v.key)
    BY DEF PortalAsk
  <2>4. <<"portal", "active-calls">> \in a.stales
    BY <1>6 DEF PortalAct
  <2>5. QED
    BY <2>1, <2>2, <2>3, <2>4 DEF PortalAsk, Stales
<1>7. QED
  BY <1>4, <1>5, <1>6 DEF PortalAct

\* A row of a front end, taken apart
LEMMA RowParts ==
    ASSUME NEW f, NEW r \in RowsOf(f)
    PROVE  \E s \in f.hooks, t \in f.hooks :
              \E q \in DOMAIN s.queries, a \in DOMAIN t.mutations :
                 r = RowOf(s.queries[q], t.mutations[a], Together(f, q, a, s = t))
BY DEF RowsOf

\* What a row says of its query and its mutation
LEMMA RowSays ==
    ASSUME NEW v, v.polls \in BOOLEAN, v.retries \in 0 .. 1, NEW a, NEW together,
           Affects(a, v) => Stales(a, v) \/ <<a.calls, v.calls>> \in Unrefreshed
    PROVE  LET r == RowOf(v, a, together)
           IN  r \in RowType /\ (r.affects => r.stales \/ r.excused)
<1>1. /\ Affects(a, v) \in BOOLEAN /\ Stales(a, v) \in BOOLEAN
      /\ (~together) \in BOOLEAN /\ (<<a.calls, v.calls>> \in Unrefreshed) \in BOOLEAN
  BY DEF Affects, Stales
<1>2. QED
  BY <1>1 DEF RowOf, RowType

\* Every write of either front end refreshes what it changes, but for the pairs
\* that are named.
LEMMA WritesRefresh ==
    Rows \subseteq RowType /\ \A r \in Rows : r.affects => r.stales \/ r.excused
<1> SUFFICES ASSUME NEW r \in Rows
             PROVE  r \in RowType /\ (r.affects => r.stales \/ r.excused)
  OBVIOUS
<1>1. CASE r \in RowsOf(Admin)
  <2>1. PICK s \in AdminHooks, t \in AdminHooks :
           \E q \in DOMAIN s.queries, a \in DOMAIN t.mutations :
              r = RowOf(s.queries[q], t.mutations[a], Together(Admin, q, a, s = t))
    BY <1>1, RowParts DEF Admin
  <2>2. PICK q \in DOMAIN s.queries, b \in DOMAIN t.mutations :
           r = RowOf(s.queries[q], t.mutations[b], Together(Admin, q, b, s = t))
    BY <2>1
  <2>3. AdminAsk(s.queries[q]) /\ AdminAct(t.mutations[b])
    BY AdminTables
  <2>4. s.queries[q].polls \in BOOLEAN /\ s.queries[q].retries \in 0 .. 1
    BY <2>3 DEF AdminAsk
  <2> DEFINE v == s.queries[q]
             a == t.mutations[b]
             together == Together(Admin, q, b, s = t)
  <2>5. r = RowOf(v, a, together)
    BY <2>2
  <2>6. Affects(a, v) => Stales(a, v) \/ <<a.calls, v.calls>> \in Unrefreshed
    BY <2>3, AdminRefreshes
  <2> HIDE DEF v, a, together
  <2>7. v.polls \in BOOLEAN /\ v.retries \in 0 .. 1
    BY <2>4 DEF v
  <2>8. QED
    BY <2>5, <2>6, <2>7, RowSays
<1>2. CASE r \in RowsOf(Portal)
  <2>1. PICK s \in PortalHooks, t \in PortalHooks :
           \E q \in DOMAIN s.queries, a \in DOMAIN t.mutations :
              r = RowOf(s.queries[q], t.mutations[a], Together(Portal, q, a, s = t))
    BY <1>2, RowParts DEF Portal
  <2>2. PICK q \in DOMAIN s.queries, b \in DOMAIN t.mutations :
           r = RowOf(s.queries[q], t.mutations[b], Together(Portal, q, b, s = t))
    BY <2>1
  <2>3. PortalAsk(s.queries[q]) /\ PortalAct(t.mutations[b])
    BY PortalTables
  <2>4. s.queries[q].polls \in BOOLEAN /\ s.queries[q].retries \in 0 .. 1
    BY <2>3 DEF PortalAsk
  <2> DEFINE v == s.queries[q]
             a == t.mutations[b]
             together == Together(Portal, q, b, s = t)
  <2>5. r = RowOf(v, a, together)
    BY <2>2
  <2>6. Affects(a, v) => Stales(a, v) \/ <<a.calls, v.calls>> \in Unrefreshed
    BY <2>3, PortalRefreshes
  <2> HIDE DEF v, a, together
  <2>7. v.polls \in BOOLEAN /\ v.retries \in 0 .. 1
    BY <2>4 DEF v
  <2>8. QED
    BY <2>5, <2>6, <2>7, RowSays
<1>3. QED
  BY <1>1, <1>2 DEF Rows

\* There are rows: freezing a customer changes the list of customers.
LEMMA RowsAreThere == Rows # {}
<1> DEFINE v == AdminCustomers.queries["useCustomers"]
           a == AdminCustomers.mutations["useFreezeUser"]
           together == Together(Admin, "useCustomers", "useFreezeUser",
                                AdminCustomers = AdminCustomers)
           r == RowOf(v, a, together)
<1>1. v.calls = "ListUsers" /\ a.calls = "FreezeUser"
  BY QueryParts, MutationParts DEF AdminCustomers
<1>2. Affects(a, v)
  BY <1>1, AdminEndpoints DEF Affects, Get, Post
<1>3. r.affects
  BY <1>2 DEF RowOf
<1>4. AdminCustomers \in Admin.hooks
  BY DEF Admin, AdminHooks
<1>5. /\ "useCustomers" \in DOMAIN AdminCustomers.queries
      /\ "useFreezeUser" \in DOMAIN AdminCustomers.mutations
  BY DEF AdminCustomers
<1>6. r \in RowsOf(Admin)
  <2> HIDE DEF v, a, together, r
  <2>1. \A s, t \in Admin.hooks : \A q \in DOMAIN s.queries, b \in DOMAIN t.mutations :
           RowOf(s.queries[q], t.mutations[b], Together(Admin, q, b, s = t)) \in RowsOf(Admin)
    <3> DEFINE From(s, t) == {RowOf(s.queries[q], t.mutations[b], Together(Admin, q, b, s = t)) :
                                 q \in DOMAIN s.queries, b \in DOMAIN t.mutations}
    <3>1. RowsOf(Admin) = UNION {From(s, t) : s \in Admin.hooks, t \in Admin.hooks}
      BY DEF RowsOf
    <3>2. SUFFICES ASSUME NEW s \in Admin.hooks, NEW t \in Admin.hooks,
                          NEW q \in DOMAIN s.queries, NEW b \in DOMAIN t.mutations
                   PROVE  RowOf(s.queries[q], t.mutations[b], Together(Admin, q, b, s = t))
                              \in RowsOf(Admin)
      OBVIOUS
    <3>3. RowOf(s.queries[q], t.mutations[b], Together(Admin, q, b, s = t)) \in From(s, t)
      OBVIOUS
    <3> HIDE DEF From
    <3>4. QED
      BY <3>1, <3>3
  <2>2. RowOf(AdminCustomers.queries["useCustomers"], AdminCustomers.mutations["useFreezeUser"],
              Together(Admin, "useCustomers", "useFreezeUser", AdminCustomers = AdminCustomers))
            \in RowsOf(Admin)
    <3>1. \A q \in DOMAIN AdminCustomers.queries, b \in DOMAIN AdminCustomers.mutations :
             RowOf(AdminCustomers.queries[q], AdminCustomers.mutations[b],
                   Together(Admin, q, b, AdminCustomers = AdminCustomers)) \in RowsOf(Admin)
      BY <1>4, <2>1
    <3>2. QED
      BY <1>5, <3>1
  <2>3. QED
    BY <2>2 DEF v, a, together, r
<1>7. QED
  BY <1>3, <1>6 DEF Rows

--------------------------------------------------------------------------------
(* The pages, put together *)

ConsoleInv ==
    /\ part \in PartNames
    /\ QueryInv /\ DialogInv /\ TableInv /\ CsvInv /\ LocalInv /\ ChromeInv

\* A part starts in some of the ways it can.
LEMMA StartsAmong ==
    ASSUME NEW p, NEW ways, ways # {}
    PROVE  Starts(p, ways) \in SUBSET ways
<1>1. (CHOOSE w \in ways : TRUE) \in ways
  OBVIOUS
<1>2. QED
  BY <1>1 DEF Starts

\* There are dialogs, tables, row counts, importers, types and visits.
LEMMA WaysToStart ==
    /\ AllDialogs # {} /\ Tables # {} /\ RowCounts # {}
    /\ Importers # {} /\ Stocks # {} /\ Types # {} /\ Visits # {}
<1>1. AllDialogs # {} /\ Tables # {} /\ Stocks # {} /\ Types # {}
  BY DEF AllDialogs, Tables, Stocks, Types
<1>0. Importers # {}
  <2>1. [page |-> "blacklist", blank |-> {}] \in [page : {"blacklist"}, blank : {{}}]
    OBVIOUS
  <2>2. QED
    BY <2>1 DEF Importers
<1>2. RowCounts # {}
  <2> DEFINE none == [f \in BOOLEAN |-> 0]
  <2>1. none \in [BOOLEAN -> 0 .. MaxRows] /\ none[TRUE] <= none[FALSE]
    BY MaxRowsAssumption
  <2> HIDE DEF none
  <2>2. QED
    BY <2>1 DEF RowCounts
<1>3. Visits # {}
  <2> DEFINE v == [front |-> "admin", os |-> "light", stored |-> "none", narrow |-> FALSE]
  <2>1. v \in Visits
    BY DEF Visits, Fronts, Looks
  <2>2. QED
    BY <2>1
<1>4. QED
  BY <1>0, <1>1, <1>2, <1>3

LEMMA ConsoleInitially == ConsoleInit => ConsoleInv
<1> SUFFICES ASSUME ConsoleInit
             PROVE  ConsoleInv
  OBVIOUS
<1>1. part \in PartNames
  BY PartsAssumption DEF ConsoleInit
<1>2. QueryInv
  <2>1. PageQueryInit(Starts("query", Rows)) /\ Starts("query", Rows) \in SUBSET Rows
    BY RowsAreThere, StartsAmong DEF ConsoleInit
  <2>2. /\ Starts("query", Rows) \in SUBSET RowType
        /\ \A r \in Starts("query", Rows) : r.affects => r.stales \/ r.excused
    BY <2>1, WritesRefresh
  <2>3. QED
    BY <2>1, <2>2, QueryInitially
<1>3. DialogInv
  BY StartsAmong, WaysToStart, DialogInitially DEF ConsoleInit
<1>4. TableInv
  <2>1. TableInit(Starts("table", Tables), Starts("table", RowCounts))
    BY DEF ConsoleInit
  <2>2. /\ Starts("table", Tables) \in SUBSET Tables
        /\ Starts("table", RowCounts) \in SUBSET RowCounts
    BY StartsAmong, WaysToStart
  <2>3. QED
    BY <2>1, <2>2, TableInitially
<1>5. CsvInv
  <2>1. CsvInit(Starts("import", Importers), Starts("import", Stocks))
    BY DEF ConsoleInit
  <2>2. /\ Starts("import", Importers) \in SUBSET Importers
        /\ Starts("import", Stocks) \in SUBSET Stocks
    BY StartsAmong, WaysToStart
  <2>3. QED
    BY <2>1, <2>2, CsvInitially
<1>6. LocalInv
  BY StartsAmong, WaysToStart, LocalInitially DEF ConsoleInit
<1>7. ChromeInv
  BY StartsAmong, WaysToStart, ChromeInitially DEF ConsoleInit
<1>8. QED
  BY <1>1, <1>2, <1>3, <1>4, <1>5, <1>6, <1>7 DEF ConsoleInv

\* A part that rests keeps its invariant.
LEMMA QueryRests == QueryInv /\ UNCHANGED pageQueryVars => QueryInv'
BY DEF pageQueryVars, QueryInv, QueryTypes, PageQueryTypeOK, Sent, Refreshed, Answers, Fetching

LEMMA DialogRests == DialogInv /\ UNCHANGED dialogVars => DialogInv'
BY DEF dialogVars, DialogInv, DialogTypes, DialogTypeOK, Guarded, OwnForm, NoDoubleSubmit,
       BusyMeansWaiting

LEMMA TableRests == TableInv /\ UNCHANGED tableVars => TableInv'
BY DEF tableVars, TableInv, TableTypeOK, RowsMatchParams, Key

LEMMA CsvRests == CsvInv /\ UNCHANGED csvVars => CsvInv'
<1> SUFFICES ASSUME CsvInv, UNCHANGED csvVars
             PROVE  CsvInv'
  OBVIOUS
<1>1. UNCHANGED <<importer, box, parsing, imports, onServer, report>>
  BY DEF csvVars
<1>2. CsvTypeOK' /\ OneImport' /\ (box.importing => box.shown)'
  BY <1>1 DEF CsvInv, CsvTypeOK, OneImport
<1>3. QED
  BY <1>1, <1>2, ImportsRest DEF CsvInv

LEMMA LocalRests == LocalInv /\ UNCHANGED localVars => LocalInv'
BY DEF localVars, LocalInv, ItemOK, IpsOK

LEMMA ChromeRests == ChromeInv /\ UNCHANGED chromeVars => ChromeInv'
BY DEF chromeVars, ChromeInv, ChromeTypeOK, ClassMatchesTheme

LEMMA ConsoleKeeps == ConsoleInv /\ [ConsoleNext]_consoleVars => ConsoleInv'
<1> SUFFICES ASSUME ConsoleInv, [ConsoleNext]_consoleVars
             PROVE  ConsoleInv'
  OBVIOUS
<1>1. part' = part
  BY DEF ConsoleNext, consoleVars, PageQueryPart, DialogPart, TablePart, CsvPart, LocalPart,
         ChromePart
<1>2. QueryInv'
  <2>1. PageQueryNext \/ UNCHANGED pageQueryVars
    BY DEF ConsoleNext, consoleVars, PageQueryPart, DialogPart, TablePart, CsvPart,
           LocalPart, ChromePart
  <2>2. QED
    BY <2>1, QueryKeeps, QueryRests DEF ConsoleInv
<1>3. DialogInv'
  <2>1. DialogNext \/ UNCHANGED dialogVars
    BY DEF ConsoleNext, consoleVars, PageQueryPart, DialogPart, TablePart, CsvPart,
           LocalPart, ChromePart
  <2>2. QED
    BY <2>1, DialogKeeps, DialogRests DEF ConsoleInv
<1>4. TableInv'
  <2>1. TableNext \/ UNCHANGED tableVars
    BY DEF ConsoleNext, consoleVars, PageQueryPart, DialogPart, TablePart, CsvPart,
           LocalPart, ChromePart
  <2>2. QED
    BY <2>1, TableKeeps, TableRests DEF ConsoleInv
<1>5. CsvInv'
  <2>1. CsvNext \/ UNCHANGED csvVars
    BY DEF ConsoleNext, consoleVars, PageQueryPart, DialogPart, TablePart, CsvPart,
           LocalPart, ChromePart
  <2>2. QED
    BY <2>1, CsvKeeps, CsvRests DEF ConsoleInv
<1>6. LocalInv'
  <2>1. LocalNext \/ UNCHANGED localVars
    BY DEF ConsoleNext, consoleVars, PageQueryPart, DialogPart, TablePart, CsvPart,
           LocalPart, ChromePart
  <2>2. QED
    BY <2>1, LocalKeeps, LocalRests DEF ConsoleInv
<1>7. ChromeInv'
  <2>1. ChromeNext \/ UNCHANGED chromeVars
    BY DEF ConsoleNext, consoleVars, PageQueryPart, DialogPart, TablePart, CsvPart,
           LocalPart, ChromePart
  <2>2. QED
    BY <2>1, ChromeKeeps, ChromeRests DEF ConsoleInv
<1>8. QED
  BY <1>1, <1>2, <1>3, <1>4, <1>5, <1>6, <1>7 DEF ConsoleInv

LEMMA ConsoleInvHolds == ConsoleSpec => []ConsoleInv
<1>1. QED
  BY ConsoleInitially, ConsoleKeeps, PTL DEF ConsoleSpec

\* The dialog on the screen has nothing of another row in it.
LEMMA DialogIsSound == DialogInv => DialogSound
BY DEF DialogInv, DialogTypes, DialogTypeOK, OwnForm, DialogSound, NothingLeftOver

\* The list of an idle page has what was acknowledged.
LEMMA AckedIsSeen == QueryInv => AckedIsShown
<1> SUFFICES ASSUME QueryInv, onPage, ~Fetching, entry.status = "success", ~raced, ~row.excused
             PROVE  entry.ver >= acked
  BY DEF AckedIsShown
<1>1. /\ entry \in Entries /\ acked \in 0 .. MaxWrites /\ MaxWrites \in Nat
  BY QueryFacts
<1>2. QED
  BY <1>1 DEF QueryInv, Answers, Refreshed, Entries, Fetching

--------------------------------------------------------------------------------

\* The state of every part stays of its type, with the assumptions on the bounds
\* alone: a page's index is never negative, a configuration item keeps a value
\* of its type, an address is listed once.
THEOREM ConsoleTypeCorrect == ConsoleSpec => []ConsoleTypeOK
<1>1. ConsoleInv => ConsoleTypeOK
  BY LocalTypes DEF ConsoleInv, ConsoleTypeOK, QueryInv, QueryTypes, DialogInv, DialogTypes,
                    TableInv, CsvInv, ChromeInv
<1>2. QED
  BY <1>1, ConsoleInvHolds, PTL

\* Once a page is idle, its list has every write whose mutation was
\* acknowledged, wherever the page was when the answer came and in whatever
\* order requests and answers were: for every pair of hooks of either front end
\* but those named in Unrefreshed.
THEOREM AckedIsShownHolds == ConsoleSpec => []AckedIsShown
<1>1. ConsoleInv => AckedIsShown
  BY AckedIsSeen DEF ConsoleInv
<1>2. QED
  BY <1>1, ConsoleInvHolds, PTL

\* A dialog acts once for each opening, with nothing typed for another row, and
\* is busy only while an answer to its own form is awaited.
THEOREM DialogSoundHolds == ConsoleSpec => []DialogSound
<1>1. ConsoleInv => DialogSound
  BY DialogIsSound DEF ConsoleInv
<1>2. QED
  BY <1>1, ConsoleInvHolds, PTL

\* Whatever pages, sizes and filters are asked for, and in whatever order their
\* answers come, the table shows the rows of its own request.  Where the handler
\* puts as many rows on a page as it is asked for, or all of them, no page the
\* user turns to is empty while any row matches, and no row is left out; where it
\* has a page size of its own, the first holds if that is not the larger, the
\* second if it is not the smaller.
THEOREM TableSoundHolds == ConsoleSpec => []TableSound
<1>1. ConsoleInv => TableSound
  BY TableIsSound DEF ConsoleInv
<1>2. QED
  BY <1>1, ConsoleInvHolds, PTL

\* The safety part of ImportSound: a toast gives the number of rows its import
\* added to the server, short of those whose answer was lost, and leaves no row
\* of the file out; no number is counted in two imports, also when they run side
\* by side; and a box has one import at a time.
THEOREM ImportsAccountedFor == ConsoleSpec => [](ReportTrue /\ CountedOnce /\ OneImport)
<1>1. ConsoleInv => ReportTrue /\ CountedOnce /\ OneImport
  BY DEF ConsoleInv, CsvInv
<1>2. QED
  BY <1>1, ConsoleInvHolds, PTL

\* The page has the look of the theme that is chosen, or of the system's, and
\* toggling the sidebar shows or hides it at every width.
THEOREM FrameSoundHolds == ConsoleSpec => FrameSound
<1>1. ConsoleInv => ClassMatchesTheme
  BY DEF ConsoleInv, ChromeInv
<1>2. ConsoleInv /\ [ConsoleNext]_consoleVars => [ToggleSidebar => Visible' # Visible]_chromeVars
  BY ToggleIsSeen DEF ConsoleInv
<1>3. QED
  BY <1>1, <1>2, ConsoleInvHolds, PTL DEF ConsoleSpec, FrameSound, ToggleTakesEffect

================================================================================
