-------------------------------- MODULE Callback --------------------------------
(***************************************************************************)
(* The callback service: the goroutine runCall that drives a launched call *)
(* through its A leg, its B leg and the bridge, finalizeCall with its      *)
(* sync.Once, ForceHangup, the sweep that finalizes the active calls when  *)
(* the FreeSWITCH connection drops, Shutdown, and the recording worker     *)
(* that writes to the same row.  The "running" phase of module Admission   *)
(* is refined here; finalizeCall takes Admission's settling steps.         *)
(*                                                                         *)
(* FreeSWITCH and the ESL library are the environment.  Commands are       *)
(* written even when the caller's context is cancelled; only the reply is  *)
(* then not waited for.  Event listeners run in goroutines of their own.   *)
(***************************************************************************)
EXTENDS Admission, SequencesExt

CONSTANTS
    ChanCap,     \* capacity of activeCall.eventCh (10 in the code)
    InOrder,     \* events reach the handlers in the order FreeSWITCH sent them
    MergeTries,  \* deliveries of a merge event before Pub/Sub gives up
    Chances      \* how often each event outside a call's own flow may happen

EventKinds == {"hangup", "disconnect", "shutdown", "refused", "pubsub", "rowdb", "merge"}

ASSUME CallbackAssumption ==
    /\ ChanCap \in Nat \ {0}
    /\ InOrder \in BOOLEAN
    /\ MergeTries \in Nat \ {0}
    /\ Chances \in [EventKinds -> Nat]

VARIABLES
    run,      \* program counter of the call's runCall goroutine
    want,     \* status runCall passes to finalizeCall
    fin,      \* progress of the body of finalized.Do
    active,   \* the call is in activeCalls
    ctxDone,  \* callCtx is cancelled
    mem,      \* the CallbackCall in memory, shared by every goroutine
    row,      \* the callback_calls row
    hooks,    \* statuses handed to the webhook service, oldest first
    merge,    \* deliveries left of the call's RecordingMergeEvent
    leg,      \* the call's channels in FreeSWITCH
    joined,   \* calls whose legs FreeSWITCH has bridged
    wire,     \* events sent by FreeSWITCH, not yet handled
    ch,       \* activeCall.eventCh
    conn,     \* the connection behind svc.fsClient is up
    sweep,    \* active calls the disconnect callback has still to visit
    chance    \* what is left of Chances

flowVars == <<run, want, fin, active, ctxDone, mem, row, hooks, merge, leg, joined,
              wire, ch, conn, sweep, chance>>
vars == <<admissionVars, flowVars>>

Legs == {"A", "B"}
Ended == {"finished", "failed"}
Statuses == {"none", "initiating", "a_dialing", "a_connected", "b_dialing",
             "b_connected", "bridged"} \cup Ended
RecStatuses == {"none", "recording", "merging", "ready", "failed"}
RunStates == {"none", "start", "origA", "ringA", "waitA", "origB", "ringB", "waitB",
              "finalize", "returned", "lost"}
FinStates == {"none", "bill", "slot", "publish", "persist", "notify", "done", "lost"}
Event == [name : {"ANSWER", "BRIDGE", "HANGUP"}, leg : Legs]

CallbackTypeOK ==
    /\ AdmissionTypeOK
    /\ run \in [Calls -> RunStates]
    /\ want \in [Calls -> Ended]
    /\ fin \in [Calls -> FinStates]
    /\ active \in [Calls -> BOOLEAN]
    /\ ctxDone \in [Calls -> BOOLEAN]
    /\ mem \in [Calls -> [status : Statuses, answered : SUBSET Legs, bridged : BOOLEAN,
                          rec : RecStatuses, cost : Nat, uuids : SUBSET Legs]]
    /\ row \in [Calls -> [status : Statuses, rec : RecStatuses, cost : Nat,
                          uuids : SUBSET Legs]]
    /\ hooks \in [Calls -> Seq(Statuses)]
    /\ merge \in [Calls -> 0..MergeTries]
    /\ leg \in [Calls -> [Legs -> {"none", "dialing", "up", "down"}]]
    /\ joined \subseteq Calls
    /\ wire \in [Calls -> Seq(Event)]
    /\ ch \in [Calls -> Seq(Event)]
    /\ \A c \in Calls : Len(ch[c]) <= ChanCap
    /\ conn \in BOOLEAN
    /\ sweep \in Seq(Calls)
    /\ chance \in [EventKinds -> Nat]

NewCall == [status |-> "initiating", answered |-> {}, bridged |-> FALSE,
            rec |-> "none", cost |-> 0, uuids |-> {}]
NoRow == [status |-> "none", rec |-> "none", cost |-> 0, uuids |-> {}]

CallbackInit ==
    /\ AdmissionInit
    /\ run = [c \in Calls |-> "none"]
    /\ want = [c \in Calls |-> "failed"]
    /\ fin = [c \in Calls |-> "none"]
    /\ active = [c \in Calls |-> FALSE]
    /\ ctxDone = [c \in Calls |-> FALSE]
    /\ mem = [c \in Calls |-> NewCall]
    /\ row = [c \in Calls |-> NoRow]
    /\ hooks = [c \in Calls |-> <<>>]
    /\ merge = [c \in Calls |-> 0]
    /\ leg = [c \in Calls |-> [l \in Legs |-> "none"]]
    /\ joined = {}
    /\ wire = [c \in Calls |-> <<>>]
    /\ ch = [c \in Calls |-> <<>>]
    /\ conn = TRUE
    /\ sweep = <<>>
    /\ chance = Chances

Chance(kind) ==
    /\ chance[kind] > 0
    /\ chance' = [chance EXCEPT ![kind] = @ - 1]

RunTo(c, p) == run' = [run EXCEPT ![c] = p]

\* runCall calls finalizeCall(ctx, call, status) and then returns.
Finish(c, status) ==
    /\ RunTo(c, "finalize")
    /\ want' = [want EXCEPT ![c] = status]

--------------------------------------------------------------------------------
(* What runCall writes *)

\* publishWebhook with the call's context: its first query fails when that
\* is cancelled.
Notified(c, status) ==
    hooks' = [hooks EXCEPT ![c] = IF ctxDone[c] THEN @ ELSE Append(@, status)]

\* call.Status = status, updateCallStatus, publishWebhook
SetStatus(c, status, call) ==
    /\ mem' = [mem EXCEPT ![c] = [call EXCEPT !.status = status]]
    /\ Notified(c, status)

RowStatus(c, status) ==
    row' = [row EXCEPT ![c].status = IF ctxDone[c] THEN @ ELSE status]

\* HangupCall on some legs of the call, or on none.  FreeSWITCH drops both
\* legs of a bridged pair when it is told to drop one.  The HANGUP events that
\* follow are left out: runCall never reads its channel again after it hangs up.
Hangup(c, legs) ==
    LET dead == IF c \in joined THEN Legs ELSE legs IN
    IF conn /\ legs # {}
    THEN /\ leg' = [leg EXCEPT ![c] = [l \in Legs |->
                     IF l \in dead /\ @[l] # "none" THEN "down" ELSE @[l]]]
         /\ joined' = joined \ {c}
    ELSE UNCHANGED <<leg, joined>>

--------------------------------------------------------------------------------
(* Launching and driving a call *)

\* The tail of InitiateCallback: insertCall, activeCalls.Store, go runCall.
LaunchCall(c) ==
    /\ Launch(c)
    /\ active' = [active EXCEPT ![c] = TRUE]
    /\ row' = [row EXCEPT ![c].status = "initiating"]
    /\ RunTo(c, "start")
    /\ UNCHANGED <<want, fin, ctxDone, mem, hooks, merge, leg, joined, wire, ch, conn,
                   sweep, chance>>

\* runCall returns at once if the disconnect sweep was faster.
Start(c) ==
    /\ run[c] = "start"
    /\ \/ active[c] /\ RunTo(c, "origA") /\ Notified(c, mem[c].status)
       \/ ~active[c] /\ RunTo(c, "returned") /\ UNCHANGED hooks
    /\ UNCHANGED <<admissionVars, want, fin, active, ctxDone, mem, row, merge, leg, joined,
                   wire, ch, conn, sweep, chance>>

\* The originate command is sent; FreeSWITCH works on it.
Originate(c, l, at, ringing) ==
    /\ run[c] = at
    /\ conn
    /\ leg' = [leg EXCEPT ![c][l] = "dialing"]
    /\ RunTo(c, ringing)
    /\ UNCHANGED <<admissionVars, want, fin, active, ctxDone, mem, row, hooks, merge, joined,
                   wire, ch, conn, sweep, chance>>

OriginateALeg(c) == Originate(c, "A", "origA", "ringA")
OriginateBLeg(c) == Originate(c, "B", "origB", "ringB")

\* The originate returns a uuid.  The leg may still ring, or may already be
\* answered or gone: its events are on their way.
Originated(c, l, ringing, status, next) ==
    /\ run[c] = ringing
    /\ conn
    /\ SetStatus(c, status, [mem[c] EXCEPT !.uuids = @ \cup {l}])
    /\ RowStatus(c, status)
    /\ RunTo(c, next)
    /\ UNCHANGED <<admissionVars, want, fin, active, ctxDone, merge, leg, joined, wire, ch,
                   conn, sweep, chance>>

ALegOriginated(c) == Originated(c, "A", "ringA", "a_dialing", "waitA")
BLegOriginated(c) == Originated(c, "B", "ringB", "b_dialing", "waitB")

\* Whether an originate of leg l may return an error: the command cannot be
\* sent or FreeSWITCH refuses it, or the leg failed, or the wait for the
\* reply ended because the context or the connection did.
OriginateError(c, l, at, ringing) ==
    \/ run[c] = at /\ ~conn /\ UNCHANGED chance
    \/ run[c] = at /\ conn /\ Chance("refused")
    \/ run[c] = ringing /\ (leg[c][l] = "down" \/ ctxDone[c] \/ ~conn) /\ UNCHANGED chance

ALegFails(c) ==
    /\ OriginateError(c, "A", "origA", "ringA")
    /\ Finish(c, "failed")
    /\ UNCHANGED <<admissionVars, fin, active, ctxDone, mem, row, hooks, merge, leg, joined,
                   wire, ch, conn, sweep>>

\* The A leg is hung up; a B leg that was placed is not.
BLegFails(c) ==
    /\ OriginateError(c, "B", "origB", "ringB")
    /\ Hangup(c, {"A"})
    /\ Finish(c, "failed")
    /\ UNCHANGED <<admissionVars, fin, active, ctxDone, mem, row, hooks, merge, wire, ch, conn,
                   sweep>>

--------------------------------------------------------------------------------
(* The select statements of runCall *)

\* Mutant: any event of the first select leads on to the B leg.
WaitAEventAny(c) ==
    /\ run[c] = "waitA"
    /\ ch[c] # <<>>
    /\ ch' = [ch EXCEPT ![c] = Tail(@)]
    /\ RunTo(c, "origB")
    /\ UNCHANGED <<admissionVars, want, fin, active, ctxDone, mem, row, hooks, merge, leg,
                   joined, wire, conn, sweep, chance>>

\* First select.  An event that is neither A's answer nor a hangup falls
\* through to the B leg, as in the code.
WaitAEvent(c) ==
    LET e == Head(ch[c])
        answered == e = [name |-> "ANSWER", leg |-> "A"]
    IN
    /\ run[c] = "waitA"
    /\ ch[c] # <<>>
    /\ ch' = [ch EXCEPT ![c] = Tail(@)]
    /\ IF e.name = "HANGUP"
       THEN /\ Finish(c, "failed")
            /\ UNCHANGED <<mem, row, hooks>>
       ELSE /\ RunTo(c, "origB")
            /\ UNCHANGED want
            /\ IF answered
               THEN /\ SetStatus(c, "a_connected", [mem[c] EXCEPT !.answered = @ \cup {"A"}])
                    /\ RowStatus(c, "a_connected")
               ELSE UNCHANGED <<mem, row, hooks>>
    /\ UNCHANGED <<admissionVars, fin, active, ctxDone, merge, leg, joined, wire, conn, sweep, chance>>

\* parkTimer.C, or ctx.Done(): hang up A, fail
WaitAEnds(c) ==
    /\ run[c] = "waitA"
    /\ Hangup(c, {"A"})
    /\ Finish(c, "failed")
    /\ UNCHANGED <<admissionVars, fin, active, ctxDone, mem, row, hooks, merge, wire, ch, conn,
                   sweep, chance>>

\* Mutant: the park timer fires and nobody listens.
ParkTimeoutIgnored(c) == run[c] = "waitA" /\ UNCHANGED vars

ParkTimeout(c) == WaitAEnds(c)
CancelledA(c) == ctxDone[c] /\ WaitAEnds(c)

\* The event the second select reads next.  Its switch ignores a second
\* answer of A, which FreeSWITCH does not send.
TakeEvent(c, name, legs) ==
    /\ run[c] = "waitB"
    /\ ch[c] # <<>>
    /\ Head(ch[c]).name = name /\ Head(ch[c]).leg \in legs
    /\ ch' = [ch EXCEPT ![c] = Tail(@)]

BothUp(c) == \A l \in Legs : leg[c][l] = "up"

\* Second select, B answers: the row and the webhook say b_connected, then
\* BridgeCall.  It fails when a leg is gone, and may report an error for a
\* bridge that was made when the context is cancelled.
BAnswered(c) ==
    /\ TakeEvent(c, "ANSWER", {"B"})
    /\ SetStatus(c, "b_connected", [mem[c] EXCEPT !.answered = @ \cup {"B"}])
    /\ RowStatus(c, "b_connected")
    /\ \/ /\ conn /\ BothUp(c)
          /\ joined' = joined \cup {c}
          /\ wire' = [wire EXCEPT ![c] = Append(@, [name |-> "BRIDGE", leg |-> "A"])]
          /\ UNCHANGED <<run, want, leg>>
       \/ /\ ~conn \/ ~BothUp(c) \/ ctxDone[c]
          /\ Hangup(c, Legs)
          /\ Finish(c, "failed")
          /\ UNCHANGED wire
    /\ UNCHANGED <<admissionVars, fin, active, ctxDone, merge, conn, sweep, chance>>

\* CHANNEL_BRIDGE: status, row, startRecording, webhook
Bridged(c) ==
    /\ TakeEvent(c, "BRIDGE", Legs)
    /\ SetStatus(c, "bridged", [mem[c] EXCEPT !.bridged = TRUE, !.rec = "recording"])
    /\ row' = [row EXCEPT ![c] = IF ctxDone[c] THEN @
                                 ELSE [@ EXCEPT !.status = "bridged", !.rec = "recording"]]
    /\ UNCHANGED <<admissionVars, run, want, fin, active, ctxDone, merge, leg, joined, wire,
                   conn, sweep, chance>>

\* Mutant: before the bridge nobody is hung up.
LegHungUpOnly(c) ==
    /\ TakeEvent(c, "HANGUP", Legs)
    /\ Finish(c, IF mem[c].bridged THEN "finished" ELSE "failed")
    /\ UNCHANGED <<admissionVars, fin, active, ctxDone, mem, row, hooks, merge, leg, joined,
                   wire, conn, sweep, chance>>

\* CHANNEL_HANGUP of either leg.  Before the bridge only A is hung up.
LegHungUp(c) ==
    /\ TakeEvent(c, "HANGUP", Legs)
    /\ IF mem[c].bridged
       THEN Finish(c, "finished") /\ UNCHANGED <<leg, joined>>
       ELSE Finish(c, "failed") /\ Hangup(c, {"A"})
    /\ UNCHANGED <<admissionVars, fin, active, ctxDone, mem, row, hooks, merge, wire, conn,
                   sweep, chance>>

\* maxDurationTimer.C, or ctx.Done(): hang up both legs
WaitBEnds(c, status) ==
    /\ run[c] = "waitB"
    /\ Hangup(c, Legs)
    /\ Finish(c, status)
    /\ UNCHANGED <<admissionVars, fin, active, ctxDone, mem, row, hooks, merge, wire, ch, conn,
                   sweep, chance>>

MaxDuration(c) == WaitBEnds(c, "finished")
CancelledB(c) == ctxDone[c] /\ WaitBEnds(c, "failed")

--------------------------------------------------------------------------------
(* finalizeCall *)

\* Mutant: the row shows the end before the money is settled.
EnterFinalizeReported(c, status) ==
    /\ active[c]
    /\ fin[c] = "none"
    /\ fin' = [fin EXCEPT ![c] = "bill"]
    /\ mem' = [mem EXCEPT ![c].status = status]
    /\ row' = [row EXCEPT ![c].status = status]
    /\ UNCHANGED <<admissionVars, run, want, active, ctxDone, hooks, merge, leg, joined,
                   wire, ch, conn, sweep, chance>>

\* Mutant: without finalized.Do every caller runs the body.
EnterFinalizeAgain(c, status) ==
    /\ active[c]
    /\ fin' = [fin EXCEPT ![c] = "bill"]
    /\ mem' = [mem EXCEPT ![c].status = status]
    /\ UNCHANGED <<admissionVars, run, want, active, ctxDone, row, hooks, merge, leg, joined,
                   wire, ch, conn, sweep, chance>>

\* finalized.Do lets the first caller in; status is that caller's.
EnterFinalize(c, status) ==
    /\ active[c]
    /\ fin[c] = "none"
    /\ fin' = [fin EXCEPT ![c] = "bill"]
    /\ mem' = [mem EXCEPT ![c].status = status]
    /\ UNCHANGED <<admissionVars, run, want, active, ctxDone, row, hooks, merge, leg, joined,
                   wire, ch, conn, sweep, chance>>

RunFinalizes(c) == run[c] = "finalize" /\ EnterFinalize(c, want[c])
SweepFinalizes(c) == sweep # <<>> /\ Head(sweep) = c /\ EnterFinalize(c, "failed")

\* finalizeCall returns: activeCalls no longer has the call.  A second
\* caller waits in finalized.Do until the first is through.  runCall then
\* returns, and nobody reads its channel any more.
RunReturns(c) ==
    /\ run[c] = "finalize"
    /\ ~active[c]
    /\ RunTo(c, "returned")
    /\ ch' = [ch EXCEPT ![c] = <<>>]
    /\ UNCHANGED <<admissionVars, want, fin, active, ctxDone, mem, row, hooks, merge, leg,
                   joined, wire, conn, sweep, chance>>

SweepMovesOn(c) ==
    /\ sweep # <<>> /\ Head(sweep) = c
    /\ ~active[c]
    /\ sweep' = Tail(sweep)
    /\ UNCHANGED <<admissionVars, run, want, fin, active, ctxDone, mem, row, hooks, merge, leg,
                   joined, wire, ch, conn, chance>>

\* A leg is charged from its answer; without one its duration is 0.
DurationsOf(c, l) == IF l \in mem[c].answered THEN Durations ELSE {0}

FinalizeBilling(c) ==
    /\ fin[c] = "bill"
    /\ \/ \E aDur \in DurationsOf(c, "A"), bDur \in DurationsOf(c, "B") :
            /\ Settle(c, aDur, bDur)
            /\ mem' = [mem EXCEPT ![c].cost = CallCost(aDur, bDur)]
       \/ SettleFails(c) /\ UNCHANGED mem
    /\ fin' = [fin EXCEPT ![c] = "slot"]
    /\ UNCHANGED <<run, want, active, ctxDone, row, hooks, merge, leg, joined, wire, ch, conn,
                   sweep, chance>>

FinalizeSlot(c) ==
    /\ fin[c] = "slot"
    /\ Unslot(c) \/ Unfloor(c)
    /\ fin' = [fin EXCEPT ![c] = IF phase'[c] = "settled" THEN "publish" ELSE "slot"]
    /\ UNCHANGED <<run, want, active, ctxDone, mem, row, hooks, merge, leg, joined, wire, ch,
                   conn, sweep, chance>>

\* The merge event goes out before the row is written.
FinalizePublish(c) ==
    /\ fin[c] = "publish"
    /\ IF mem[c].bridged /\ mem[c].rec = "recording"
       THEN \/ /\ mem' = [mem EXCEPT ![c].rec = "merging"]
               /\ merge' = [merge EXCEPT ![c] = MergeTries]
               /\ UNCHANGED chance
            \/ /\ Chance("pubsub")
               /\ mem' = [mem EXCEPT ![c].rec = "failed"]
               /\ UNCHANGED merge
       ELSE UNCHANGED <<mem, merge, chance>>
    /\ fin' = [fin EXCEPT ![c] = "persist"]
    /\ UNCHANGED <<admissionVars, run, want, active, ctxDone, row, hooks, leg, joined, wire, ch,
                   conn, sweep>>

\* updateCallFinal writes what the shared record holds now.
FinalizePersist(c) ==
    /\ fin[c] = "persist"
    /\ \/ /\ row' = [row EXCEPT ![c] = [status |-> mem[c].status, rec |-> mem[c].rec,
                                        cost |-> mem[c].cost, uuids |-> mem[c].uuids]]
          /\ UNCHANGED chance
       \/ Chance("rowdb") /\ UNCHANGED row
    /\ fin' = [fin EXCEPT ![c] = "notify"]
    /\ UNCHANGED <<admissionVars, run, want, active, ctxDone, mem,
                   hooks, merge, leg, joined, wire, ch, conn, sweep>>

\* Mutant: the last webhook goes out under the call's own context.
FinalizeNotifyCancelled(c) ==
    /\ fin[c] = "notify"
    /\ Notified(c, mem[c].status)
    /\ active' = [active EXCEPT ![c] = FALSE]
    /\ fin' = [fin EXCEPT ![c] = "done"]
    /\ UNCHANGED <<admissionVars, run, want, ctxDone, mem, row, merge, leg, joined, wire, ch,
                   conn, sweep, chance>>

\* The last webhook, under the background context, and activeCalls.Delete
FinalizeNotify(c) ==
    /\ fin[c] = "notify"
    /\ hooks' = [hooks EXCEPT ![c] = Append(@, mem[c].status)]
    /\ active' = [active EXCEPT ![c] = FALSE]
    /\ fin' = [fin EXCEPT ![c] = "done"]
    /\ UNCHANGED <<admissionVars, run, want, ctxDone, mem, row, merge, leg, joined, wire, ch,
                   conn, sweep, chance>>

--------------------------------------------------------------------------------
(* The other ways into a call *)

\* Mutant: the row is given the status the endpoint answers with.
ForceHangupMarksRow(c) ==
    /\ row[c].status \notin Ended \cup {"none"}
    /\ Chance("hangup")
    /\ ctxDone' = [ctxDone EXCEPT ![c] = @ \/ active[c]]
    /\ row' = [row EXCEPT ![c].status = "finished"]
    /\ UNCHANGED <<admissionVars, run, want, fin, active, mem, hooks, merge, leg, joined, wire,
                   ch, conn, sweep>>

\* ForceHangup goes by the row, cancels the call if it is active and hangs
\* up the legs whose uuids the row holds.  Only updateCallFinal writes uuids,
\* so the row of a call under way has none: what ForceHangup does to such a
\* call is to cancel its context.
ForceHangup(c) ==
    /\ row[c].status \notin Ended \cup {"none"}
    /\ Chance("hangup")
    /\ ctxDone' = [ctxDone EXCEPT ![c] = @ \/ active[c]]
    /\ Hangup(c, row[c].uuids)
    /\ UNCHANGED <<admissionVars, run, want, fin, active, mem, row, hooks, merge, wire, ch,
                   conn, sweep>>

ActiveCalls == {c \in Calls : active[c]}

\* The ESL connection drops.  The manager's callback starts to range over
\* activeCalls; it does not cancel the goroutines.  svc.fsClient keeps the
\* dead client for the rest of the process's life.
Disconnect ==
    /\ conn
    /\ Chance("disconnect")
    /\ conn' = FALSE
    /\ sweep' \in SetToSeqs(ActiveCalls)
    /\ UNCHANGED <<admissionVars, run, want, fin, active, ctxDone, mem, row, hooks, merge, leg,
                   joined, wire, ch>>

\* Mutant: the counters are reset on the way out.
ShutdownResets ==
    /\ Chance("shutdown")
    /\ ctxDone' = [c \in Calls |-> ctxDone[c] \/ active[c]]
    /\ slots' = [u \in Users |-> 0]
    /\ UNCHANGED <<moneyVars, phase, gone, left, run, want, fin, active, mem, row, hooks, merge,
                   leg, joined, wire, ch, conn, sweep>>

\* Shutdown cancels the active calls and gives them five seconds.
Shutdown ==
    /\ Chance("shutdown")
    /\ ctxDone' = [c \in Calls |-> ctxDone[c] \/ active[c]]
    /\ UNCHANGED <<admissionVars, run, want, fin, active, mem, row, hooks, merge, leg, joined,
                   wire, ch, conn, sweep>>

\* The process ends, by a crash or when Shutdown's grace period is over, and
\* starts again with an empty activeCalls and a new connection.
Restart ==
    /\ Crash
    /\ run' = [c \in Calls |-> IF run[c] \in {"none", "returned"} THEN run[c] ELSE "lost"]
    /\ fin' = [c \in Calls |-> IF fin[c] \in {"none", "done"} THEN fin[c] ELSE "lost"]
    /\ active' = [c \in Calls |-> FALSE]
    /\ wire' = [c \in Calls |-> <<>>]
    /\ ch' = [c \in Calls |-> <<>>]
    /\ conn' = TRUE
    /\ sweep' = <<>>
    /\ UNCHANGED <<want, ctxDone, mem, row, hooks, merge, leg, joined, chance>>

--------------------------------------------------------------------------------
(* FreeSWITCH and the event path *)

\* Events of a call nobody tracks any more are dropped by the handler, so
\* they are not put on the wire.
Emit(c, events) ==
    wire' = [wire EXCEPT ![c] = IF active[c] /\ conn THEN @ \o events ELSE @]

LegAnswers(c, l) ==
    /\ leg[c][l] = "dialing"
    /\ leg' = [leg EXCEPT ![c][l] = "up"]
    /\ Emit(c, <<[name |-> "ANSWER", leg |-> l]>>)
    /\ UNCHANGED <<admissionVars, run, want, fin, active, ctxDone, mem, row, hooks, merge,
                   joined, ch, conn, sweep, chance>>

\* Mutant: CHANNEL_DESTROY is passed on as a hangup too.
HangupEventsThrice(l) == [i \in 1..3 |-> [name |-> "HANGUP", leg |-> l]]

\* CHANNEL_HANGUP and CHANNEL_HANGUP_COMPLETE: dispatchEvent passes on both
\* as CHANNEL_HANGUP.
HangupEvents(l) == <<[name |-> "HANGUP", leg |-> l], [name |-> "HANGUP", leg |-> l]>>

LegHangsUp(c, l) ==
    /\ leg[c][l] \in {"dialing", "up"}
    /\ IF c \in joined
       THEN /\ leg' = [leg EXCEPT ![c] = [m \in Legs |-> "down"]]
            /\ Emit(c, HangupEvents(l) \o HangupEvents(CHOOSE m \in Legs : m # l))
       ELSE /\ leg' = [leg EXCEPT ![c][l] = "down"]
            /\ Emit(c, HangupEvents(l))
    /\ joined' = joined \ {c}
    /\ UNCHANGED <<admissionVars, run, want, fin, active, ctxDone, mem, row, hooks, merge, ch,
                   conn, sweep, chance>>

\* Mutant: the send is not bounded by the channel's capacity.
DispatchUnbounded(c) ==
    /\ wire[c] # <<>>
    /\ wire' = [wire EXCEPT ![c] = Tail(@)]
    /\ ch' = [ch EXCEPT ![c] = IF active[c] THEN Append(@, wire[c][1]) ELSE @]
    /\ UNCHANGED <<admissionVars, run, want, fin, active, ctxDone, mem, row, hooks, merge, leg,
                   joined, conn, sweep, chance>>

\* One listener goroutine runs the handler of registerEventHandlers: a
\* non-blocking send to the channel of an active call.
Dispatch(c) ==
    \E i \in DOMAIN wire[c] :
        /\ InOrder => i = 1
        /\ wire' = [wire EXCEPT ![c] = RemoveAt(@, i)]
        /\ ch' = [ch EXCEPT ![c] = IF active[c] /\ Len(@) < ChanCap
                                   THEN Append(@, wire[c][i]) ELSE @]
        /\ UNCHANGED <<admissionVars, run, want, fin, active, ctxDone, mem, row, hooks, merge,
                       leg, joined, conn, sweep, chance>>

--------------------------------------------------------------------------------
(* The recording worker *)

\* HandleMerge succeeds: the row says ready.
MergeDone(c) ==
    /\ merge[c] > 0
    /\ merge' = [merge EXCEPT ![c] = 0]
    /\ row' = [row EXCEPT ![c].rec = "ready"]
    /\ UNCHANGED <<admissionVars, run, want, fin, active, ctxDone, mem, hooks, leg, joined,
                   wire, ch, conn, sweep, chance>>

\* ffmpeg fails: the row says failed and the event comes again.  An upload
\* that fails leaves the row as it is.
MergeFails(c) ==
    /\ merge[c] > 0
    /\ Chance("merge")
    /\ merge' = [merge EXCEPT ![c] = @ - 1]
    /\ \/ row' = [row EXCEPT ![c].rec = "failed"]
       \/ UNCHANGED row
    /\ UNCHANGED <<admissionVars, run, want, fin, active, ctxDone, mem, hooks, leg, joined,
                   wire, ch, conn, sweep>>

--------------------------------------------------------------------------------
\* A request comes in, or its client hangs up on it.
Arrive(c) == (Refuse(c) \/ PreDeduct(c) \/ ClientGone(c)) /\ UNCHANGED flowVars

\* Steps of InitiateCallback up to the launch.
Request(c) ==
    \/ /\ \/ AcquireSlot(c)
          \/ AcquireSlotFails(c)
          \/ RollbackSlot(c)
          \/ RouteFails(c)
          \/ ReleaseSlot(c)
          \/ FloorSlot(c)
          \/ Refund(c)
       /\ UNCHANGED flowVars
    \/ LaunchCall(c)

Account(u) == AccountStep(u) /\ UNCHANGED flowVars

RunCall(c) ==
    \/ Start(c)
    \/ OriginateALeg(c) \/ ALegOriginated(c) \/ ALegFails(c)
    \/ WaitAEvent(c) \/ ParkTimeout(c) \/ CancelledA(c)
    \/ OriginateBLeg(c) \/ BLegOriginated(c) \/ BLegFails(c)
    \/ BAnswered(c) \/ Bridged(c) \/ LegHungUp(c) \/ MaxDuration(c) \/ CancelledB(c)
    \/ RunFinalizes(c) \/ RunReturns(c)

FinalizeCall(c) ==
    \/ FinalizeBilling(c)
    \/ FinalizeSlot(c)
    \/ FinalizePublish(c)
    \/ FinalizePersist(c)
    \/ FinalizeNotify(c)

Sweep(c) == SweepFinalizes(c) \/ SweepMovesOn(c)

FreeSwitch(c) == \E l \in Legs : LegAnswers(c, l) \/ LegHangsUp(c, l)

Worker(c) == MergeDone(c) \/ MergeFails(c)

\* Nothing is left to do: every request is answered, every goroutine is gone.
Quiet ==
    /\ \A c \in Calls : phase[c] \in Terminal /\ run[c] \in {"none", "returned", "lost"}
    /\ UNCHANGED vars

CallbackNext ==
    \/ \E c \in Calls :
          \/ Arrive(c) \/ Request(c) \/ RunCall(c) \/ FinalizeCall(c) \/ Sweep(c)
          \/ FreeSwitch(c) \/ Dispatch(c) \/ Worker(c) \/ ForceHangup(c)
    \/ \E u \in Users : Account(u)
    \/ Disconnect
    \/ Shutdown
    \/ Restart
    \/ Quiet

CallbackSpec == CallbackInit /\ [][CallbackNext]_vars

\* Goroutines run on, the timers of runCall fire, and FreeSWITCH answers the
\* commands it is sent while the connection is up.  Nothing obliges a client
\* to call, a phone to be answered, or the merge worker to succeed.
Fairness ==
    \A c \in Calls :
        /\ WF_vars(Request(c))
        /\ WF_vars(RunCall(c))
        /\ WF_vars(FinalizeCall(c))
        /\ WF_vars(Sweep(c))

FairCallbackSpec == CallbackSpec /\ Fairness

--------------------------------------------------------------------------------
(* Properties *)

\* The point of a callback: FreeSWITCH is asked for the B leg only when the
\* service has seen the A leg answered, however events are ordered.
BLegAfterAAnswer ==
    \A c \in Calls : leg[c]["B"] # "none" => "A" \in mem[c].answered

\* finalizeCall settles before it reports: once the row shows a call as
\* ended, its hold has been settled and its concurrency slot given back, so a
\* client that polls the status can call again.
SettledBeforeReported ==
    \A c \in Calls : row[c].status \in Ended => phase[c] \in {"settled", "lost"}

\* finalizeCall does nothing for a call that activeCalls does not hold, and
\* finalized.Do runs its body once, for runCall or for the disconnect sweep.
\* So until the process is lost a hold that is open is in reach of both (the
\* call is in activeCalls and no body has been through billing), and a body
\* that comes to billing, or to ReleaseSlot, finds what it is about to give
\* back not given back yet.
OpenHoldInReach ==
    \A c \in Calls :
        /\ phase[c] = "running" <=> active[c] /\ fin[c] \in {"none", "bill"}
        /\ fin[c] = "bill" => phase[c] = "running" /\ HoldOf(c) = "held"
        /\ fin[c] = "slot" <=> phase[c] \in {"unslot", "unfloor"}

\* An ended call stays ended: the row never leaves finished or failed, and no
\* webhook follows the one that reports the end (sync.Once and the order of
\* runCall's updates against finalizeCall's).
EndIsFinal ==
    [][\A c \in Calls :
          /\ row[c].status \in Ended => row'[c].status = row[c].status
          /\ (\E i \in DOMAIN hooks[c] : hooks[c][i] \in Ended) => hooks'[c] = hooks[c]]_vars

\* Everything that tells of the end tells the same: the total_cost that
\* updateCallFinal writes is what the call's transactions took from the
\* account, and finalizeCall ends with the row and the last webhook agreeing,
\* wherever ForceHangup cancelled the statements of runCall.
ReportsAgree ==
    \A c \in Calls :
        /\ fin[c] \in {"notify", "done"} =>
              /\ Len(txs[c]) = 2
              /\ Signed(txs[c][1]) + Signed(txs[c][2]) = -row[c].cost
        /\ fin[c] = "done" => row[c].status \in Ended /\ Last(hooks[c]) = row[c].status

\* runCall never leaves the A leg up: when it returns, was not cancelled and
\* has FreeSWITCH in reach, the caller's channel is gone.
NoOrphanALeg ==
    \A c \in Calls :
        run[c] = "returned" /\ conn /\ ~ctxDone[c] => leg[c]["A"] \in {"none", "down"}

\* The same of both legs.
NoOrphanLegs ==
    \A c \in Calls :
        run[c] = "returned" /\ conn => \A l \in Legs : leg[c][l] \in {"none", "down"}

\* The buffered channel of a call is large enough: the handler's default
\* branch, which drops the event, is never taken.
NoEventDropped ==
    \A c \in Calls : active[c] /\ wire[c] # <<>> => Len(ch[c]) < ChanCap

\* Every call that was let in is refunded or settled and its goroutine
\* returns: park and duration timers, cancelled contexts, lost connections,
\* dropped events and failed billing calls all lead through finalizeCall.
EveryCallEnds ==
    \A c \in Calls :
        phase[c] \notin Terminal \cup {"idle"} ~>
            phase[c] \in {"rejected", "settled"} /\ run[c] \in {"none", "returned"}
=================================================================================
