--------------------------------- MODULE Dialogs ---------------------------------
(***************************************************************************)
(* The admin's dialogs and sheets that act on a row or create one.  Each is *)
(* mounted once with its page and shown for one target after another, so     *)
(* what was typed, the busy flag and a late answer can outlive the target    *)
(* they belong to.  A dialog is a record of when it closes, when its form is *)
(* reset and what keeps its button from being pressed twice.                 *)
(***************************************************************************)
EXTENDS Integers, FiniteSets

CONSTANTS
    Targets,   \* rows of the page's table
    NoTarget,
    MaxCalls   \* bound: requests under way at a time

ASSUME TargetsAssumption == NoTarget \notin Targets
ASSUME MaxCallsAssumption == MaxCalls \in Nat \ {0}

VARIABLES
    dialog,  \* which dialog this is
    dlg,     \* its state: shown, for whom, what was typed or answered for whom,
             \* and if an earlier mount's answer closed it with the form filled
    busy,    \* isSubmitting of its form
    calls    \* its requests under way

dialogVars == <<dialog, dlg, busy, calls>>

--------------------------------------------------------------------------------
(* The dialogs.                                                              *)
(*   target   it is opened for a row (else for a new one)                    *)
(*   input    nothing to type, may type, or must type before it submits      *)
(*   guard    the submit button is disabled by isSubmitting ("form"), by the *)
(*            mutation's isPending, of the page or of the row, or never      *)
(*   sends    submitting makes a request                                     *)
(*   closes   on the click, on an answer that succeeds, on one that fails    *)
(*   resets   the form is reset on opening, cancelling, success, failure     *)
(*   detail   its page shows the detail view of a row in its place           *)

Plain == [target |-> TRUE, input |-> "none", guard |-> "none", sends |-> TRUE,
          closes |-> {"click"}, resets |-> {}, result |-> FALSE, detail |-> FALSE,
          toggles |-> FALSE]

\* Mutant: the button is not disabled while submitting.
CreateCustomerSheetUnguarded ==
    [Plain EXCEPT !.target = FALSE, !.input = "must", !.detail = TRUE,
                  !.closes = {"success", "failure"}, !.resets = {"success", "failure"}]

\* handleOpenChange resets; so does onFormSubmit once onSubmit is through, which
\* it is after an error, too: handleBalanceSubmit catches it.
BalanceDialog ==
    [Plain EXCEPT !.input = "must", !.guard = "form", !.detail = TRUE,
                  !.closes = {"success", "failure"},
                  !.resets = {"cancel", "success", "failure"}]

\* Cancelling keeps the draft, and the busy flag with it.
CreateCustomerSheet ==
    [Plain EXCEPT !.target = FALSE, !.input = "must", !.guard = "form", !.detail = TRUE,
                  !.closes = {"success", "failure"}, !.resets = {"success", "failure"}]

\* The effect on open fills the form, from the plan that is edited or empty.
RatePlanSheet ==
    [Plain EXCEPT !.input = "may", !.guard = "form", !.closes = {"success", "failure"},
                  !.resets = {"open", "success", "failure"}]

\* handleAdd: a failure leaves the dialog as it is.
BlacklistAdd ==
    [Plain EXCEPT !.target = FALSE, !.input = "must", !.guard = "mutation",
                  !.closes = {"success"}, !.resets = {"success"}]

\* The action closes the dialog before confirmToggle's request is out; the
\* answer sets toggleTarget to null once more.
ToggleDialog ==
    [Plain EXCEPT !.closes = {"click", "success", "failure"}, !.toggles = TRUE]

\* One ConfirmDialog for every row; its action closes it.
ConfirmDialog(guard) == [Plain EXCEPT !.guard = guard]
RemoveBlacklisted == ConfirmDialog("none")
HangupAction == ConfirmDialog("row")

\* Nothing is sent: the handlers of the page only raise a toast.
GatewayConfigSheet ==
    [Plain EXCEPT !.input = "may", !.guard = "form", !.sends = FALSE, !.resets = {"open"}]
DidAssignDialog == [Plain EXCEPT !.input = "must", !.sends = FALSE, !.resets = {"open"}]

\* The result is made up at once and stays until the dialog is closed.
TestOriginateDialog ==
    [Plain EXCEPT !.input = "must", !.guard = "form", !.sends = FALSE, !.closes = {},
                  !.resets = {"cancel"}, !.result = TRUE]

AllDialogs ==
    {BalanceDialog, CreateCustomerSheet, RatePlanSheet, BlacklistAdd, ToggleDialog,
     RemoveBlacklisted, HangupAction, GatewayConfigSheet, DidAssignDialog, TestOriginateDialog}

--------------------------------------------------------------------------------
(* What the toggle of a gateway says and does.  Gateway has no field status: *)
(* the row's status is undefined, whatever the gateway's state is.           *)

GatewayStatus == "undefined"
ConfirmsOnline(status) == status # "up"
Enabling(status) == status \in {"disabled", "down"}

--------------------------------------------------------------------------------

Openings == 1 .. MaxCalls + 1
Call == [opening : Openings, nth : Openings, target : Targets \cup {NoTarget},
         page : BOOLEAN, form : BOOLEAN, said : BOOLEAN, enabled : BOOLEAN]
Closed == [shown |-> FALSE, target |-> NoTarget, opening |-> 1, typed |-> FALSE,
           typedFor |-> NoTarget, cut |-> FALSE, resultOf |-> NoTarget]

DialogTypeOK ==
    /\ dialog \in AllDialogs
    /\ dlg \in [shown : BOOLEAN, target : Targets \cup {NoTarget}, opening : Openings,
                typed : BOOLEAN, typedFor : Targets \cup {NoTarget}, cut : BOOLEAN,
                resultOf : Targets \cup {NoTarget}]
    /\ busy \in BOOLEAN
    /\ calls \subseteq Call

DialogInit(dialogs) ==
    /\ dialog \in dialogs
    /\ dlg = Closed
    /\ busy = FALSE
    /\ calls = {}

\* The form after reset(), which also takes isSubmitting back.
Reset(d) == [d EXCEPT !.typed = FALSE, !.typedFor = NoTarget, !.cut = FALSE,
                      !.resultOf = NoTarget]
ResetOn(event, d) == IF event \in dialog.resets THEN Reset(d) ELSE d
BusyAfter(event) == busy /\ event \notin dialog.resets

IsPending == \E c \in calls : c.form
IsPendingFor(t) == \E c \in calls : c.form /\ c.target = t

ButtonDisabled ==
    \/ dialog.guard = "form" /\ busy
    \/ dialog.guard = "mutation" /\ IsPending
    \/ dialog.guard = "row" /\ IsPendingFor(dlg.target)

OpenDialog(t) ==
    /\ ~dlg.shown
    /\ t \in (IF dialog.target THEN Targets ELSE {NoTarget})
    /\ \E o \in Openings :
          /\ \A c \in calls : c.opening # o
          /\ \A p \in Openings : p < o => \E c \in calls : c.opening = p
          /\ dlg' = ResetOn("open", [dlg EXCEPT !.shown = TRUE, !.target = t, !.opening = o])
    /\ busy' = BusyAfter("open")
    /\ UNCHANGED <<dialog, calls>>

TypeInput ==
    /\ dlg.shown
    /\ dialog.input # "none"
    /\ dlg' = [dlg EXCEPT !.typed = TRUE, !.typedFor = dlg.target]
    /\ UNCHANGED <<dialog, busy, calls>>

Cancel ==
    /\ dlg.shown
    /\ dlg' = ResetOn("cancel", [dlg EXCEPT !.shown = FALSE])
    /\ busy' = BusyAfter("cancel")
    /\ UNCHANGED <<dialog, calls>>

NewCall ==
    [opening |-> dlg.opening,
     nth |-> 1 + Cardinality({c \in calls : c.opening = dlg.opening}),
     target |-> dlg.target,
     page |-> TRUE, form |-> TRUE,
     said |-> dialog.toggles /\ ConfirmsOnline(GatewayStatus),
     enabled |-> dialog.toggles /\ Enabling(GatewayStatus)]

Submit ==
    /\ dlg.shown
    /\ ~ButtonDisabled
    /\ dialog.input = "must" => dlg.typed
    /\ dialog.sends => Cardinality(calls) < MaxCalls
    /\ calls' = IF dialog.sends THEN calls \cup {NewCall} ELSE calls
    /\ busy' = (dialog.sends /\ dialog.guard = "form")
    /\ dlg' = [dlg EXCEPT !.shown = "click" \notin dialog.closes,
                          !.resultOf = IF dialog.result THEN dlg.target ELSE @]
    /\ UNCHANGED dialog

\* What follows the await.  It acts on the dialog and the form as they are by
\* now, unless the component they belong to is gone.
Answered(c, event) ==
    /\ calls' = calls \ {c}
    /\ LET closes == c.page /\ event \in dialog.closes
           shut == [dlg EXCEPT !.shown = @ /\ ~closes]
       IN  dlg' = IF c.form THEN ResetOn(event, shut)
                  ELSE [shut EXCEPT !.cut = @ \/ (closes /\ dlg.typed)]
    /\ busy' = (busy /\ ~c.form)
    /\ UNCHANGED dialog

\* The page is left and opened again: every state of its components is new.
LeavePage ==
    /\ dlg' = [Closed EXCEPT !.opening = dlg.opening]
    /\ busy' = FALSE
    /\ calls' = {[c EXCEPT !.page = FALSE, !.form = FALSE] : c \in calls}
    /\ UNCHANGED dialog

\* Customers shows CustomerDetail instead: the page's state stays, the dialogs
\* are mounted anew when it is back.
VisitDetail ==
    /\ dialog.detail
    /\ ~dlg.shown
    /\ dlg' = Reset(dlg)
    /\ busy' = FALSE
    /\ calls' = {[c EXCEPT !.form = FALSE] : c \in calls}
    /\ UNCHANGED dialog

DialogNext ==
    \/ \E t \in Targets \cup {NoTarget} : OpenDialog(t)
    \/ TypeInput \/ Cancel \/ Submit \/ LeavePage \/ VisitDetail
    \/ \E c \in calls, event \in {"success", "failure"} : Answered(c, event)

--------------------------------------------------------------------------------
(* Properties *)

\* One opening of a dialog never has two requests under way, however its
\* answers, cancels and visits of other pages interleave with the clicks.
NoDoubleSubmit == \A c \in calls : c.nth = 1

\* Nothing typed for one row is there to be sent, or shown as a result, for
\* another: the amount of a top-up goes to the customer it was typed for.  The
\* exception is a dialog that was cut short: the answer to a request made
\* before the detail view was visited closes it and resets the form of then.
NothingLeftOver ==
    /\ dlg.shown /\ dlg.typed /\ ~dlg.cut => dlg.typedFor = dlg.target
    /\ dlg.shown => dlg.resultOf \in {NoTarget, dlg.target}

\* A form that says it is submitting is waiting for an answer of its own.
BusyMeansWaiting == busy => \E c \in calls : c.form

\* A dialog acts for the row it was opened for, once, and says when it does.
DialogSound == NoDoubleSubmit /\ NothingLeftOver /\ BusyMeansWaiting

\* The plan says: "Admin can toggle gateways online/offline".  The request the
\* confirmed dialog makes asks for what the dialog announced.
ToggleAsAnnounced == \A c \in calls : c.enabled = c.said
================================================================================
