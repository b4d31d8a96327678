----------------------------- MODULE CallbackProofs -----------------------------
(***************************************************************************)
(* What holds of Callback for every set of calls and users and every value *)
(* of its constants: it implements Admission, so that what is proved of    *)
(* Admission holds of the whole service, and finalizeCall settles a call   *)
(* before the row says that it has ended.                                  *)
(***************************************************************************)
EXTENDS Callback, AdmissionProofs

--------------------------------------------------------------------------------
(* Callback implements Admission *)

\* runCall, the sweep and the event path do not touch the account, the
\* counter or the phase of a call.
LEMMA RunCallLeavesAdmission ==
    ASSUME NEW c \in Calls, RunCall(c) \/ Sweep(c) \/ FreeSwitch(c) \/ Dispatch(c) \/ Worker(c)
                            \/ ForceHangup(c)
    PROVE  UNCHANGED admissionVars
<1>1. CASE RunCall(c)
  BY <1>1 DEF RunCall, Start, OriginateALeg, OriginateBLeg, Originate, ALegOriginated,
     BLegOriginated, Originated, ALegFails, BLegFails, WaitAEvent, ParkTimeout, CancelledA,
     WaitAEnds, BAnswered, Bridged, LegHungUp, MaxDuration, CancelledB, WaitBEnds,
     RunFinalizes, EnterFinalize, RunReturns
<1>2. CASE Sweep(c)
  BY <1>2 DEF Sweep, SweepFinalizes, EnterFinalize, SweepMovesOn
<1>3. CASE FreeSwitch(c) \/ Dispatch(c)
  BY <1>3 DEF FreeSwitch, LegAnswers, LegHangsUp, Dispatch
<1>4. CASE Worker(c) \/ ForceHangup(c)
  BY <1>4 DEF Worker, MergeDone, MergeFails, ForceHangup
<1>5. QED
  BY <1>1, <1>2, <1>3, <1>4

\* The durations finalizeCall bills are durations Admission allows for: a leg
\* without an answer counts as 0 seconds.
LEMMA BilledDurations ==
    ASSUME NEW c \in Calls, NEW l \in Legs
    PROVE  DurationsOf(c, l) \subseteq Durations
BY AdmissionAssumption DEF DurationsOf

\* The body of finalized.Do takes Admission's settling steps, in the part
\* that talks to billing, and none of its steps in the part that reports.
LEMMA FinalizeImplementsAdmission ==
    ASSUME NEW c \in Calls, FinalizeCall(c)
    PROVE  FinalizeStep(c) \/ UNCHANGED admissionVars
<1>1. CASE FinalizeBilling(c)
  BY <1>1, BilledDurations DEF FinalizeBilling, FinalizeStep, Legs
<1>2. CASE FinalizeSlot(c)
  BY <1>2 DEF FinalizeSlot, FinalizeStep
<1>3. CASE FinalizePublish(c) \/ FinalizePersist(c) \/ FinalizeNotify(c)
  BY <1>3 DEF FinalizePublish, FinalizePersist, FinalizeNotify
<1>4. QED
  BY <1>1, <1>2, <1>3 DEF FinalizeCall

\* Every step of the service is a step of Admission or does not concern it.
LEMMA CallbackStepImplementsAdmission ==
    ASSUME [CallbackNext]_vars
    PROVE  [AdmissionNext]_admissionVars
<1>1. ASSUME NEW c \in Calls, Arrive(c) \/ Request(c)
      PROVE  RequestStep(c)
  BY <1>1 DEF Arrive, Request, LaunchCall, RequestStep
<1>2. ASSUME NEW c \in Calls, FinalizeCall(c)
      PROVE  [AdmissionNext]_admissionVars
  BY <1>2, FinalizeImplementsAdmission DEF AdmissionNext
<1>3. ASSUME NEW c \in Calls, RunCall(c) \/ Sweep(c) \/ FreeSwitch(c) \/ Dispatch(c) \/ Worker(c)
                              \/ ForceHangup(c)
      PROVE  UNCHANGED admissionVars
  BY <1>3, RunCallLeavesAdmission
<1>4. ASSUME NEW u \in Users, Account(u)
      PROVE  AccountStep(u)
  BY <1>4 DEF Account
<1>5. ASSUME Disconnect \/ Shutdown \/ Quiet \/ UNCHANGED vars
      PROVE  UNCHANGED admissionVars
  BY <1>5 DEF Disconnect, Shutdown, Quiet, vars
<1>6. ASSUME Restart
      PROVE  Crash
  BY <1>6 DEF Restart
<1>7. QED
  BY <1>1, <1>2, <1>3, <1>4, <1>5, <1>6 DEF CallbackNext, AdmissionNext

\* The state machine implements the admission protocol: whatever goroutine
\* takes it, every step of the service is, for the account, the concurrency
\* counter and the phase of the request, one of Admission's steps or none.
THEOREM CallbackImplementsAdmission == CallbackSpec => AdmissionSpec
<1>1. CallbackInit => AdmissionInit
  BY DEF CallbackInit
<1>2. [CallbackNext]_vars => [AdmissionNext]_admissionVars
  BY CallbackStepImplementsAdmission
<1>3. QED
  BY <1>1, <1>2, PTL DEF CallbackSpec, AdmissionSpec

\* What is proved of Admission holds of the service with every goroutine in
\* it: the concurrency limit and a counter that never undercounts while Redis
\* keeps the key, calls settled at most once, balances that are the sum of
\* their rows, and an account that sees only the atomic steps of an escrow.
THEOREM ServiceKeepsAdmission ==
    CallbackSpec => /\ [](ConcurrencyLimit /\ SlotsCoverHolders)
                    /\ [](SettledOnce /\ BalanceMatchesLedger)
                    /\ EscrowSpec
BY CallbackImplementsAdmission, ConcurrencyLimitHolds, SlotsCovered, SettledOnceHolds,
   BalanceMatchesLedgerHolds, AdmissionImplementsEscrow, PTL

\* PreDeduct's check guards the credit line whatever the goroutines of a call
\* do with the hold: if no call outlasts the 30 minutes paid in advance, no
\* admin deducts and no account starts below its line, none ever falls below.
THEOREM ServiceKeepsCreditLine ==
    ASSUME PrepaidOnly
    PROVE  CallbackSpec => []CreditRespected
BY CallbackImplementsAdmission, CreditLineHolds, PTL

\* The Redis counter of a user is the number of his calls that hold a slot,
\* through every path by which a call can end, where no fault touches the
\* counter and clients wait for their answers.
THEOREM ServiceKeepsSlotsExact ==
    ASSUME \A kind \in CounterFaults : Budget[kind] = 0
    PROVE  CallbackSpec => []SlotsExact
BY CallbackImplementsAdmission, SlotsExactHolds, PTL

--------------------------------------------------------------------------------
(* Sequences *)

\* Appending adds one element.
LEMMA AppendFacts ==
    ASSUME NEW S, NEW s \in Seq(S), NEW e \in S
    PROVE  /\ Append(s, e) \in Seq(S)
           /\ Len(Append(s, e)) = Len(s) + 1
           /\ Range(Append(s, e)) = Range(s) \cup {e}
           /\ Last(Append(s, e)) = e
<1> DEFINE t == Append(s, e)
<1>1. /\ Len(s) \in Nat /\ DOMAIN s = 1..Len(s)
      /\ t \in Seq(S) /\ Len(t) = Len(s) + 1 /\ DOMAIN t = 1..(Len(s) + 1)
      /\ \A i \in 1..Len(s) : t[i] = s[i]
      /\ t[Len(s) + 1] = e
  BY AppendProperties, LenProperties
<1> HIDE DEF t
<1>2. 1..(Len(s) + 1) = 1..Len(s) \cup {Len(s) + 1}
  BY <1>1
<1>3. Range(t) \subseteq Range(s) \cup {e}
  BY <1>1, <1>2 DEF Range
<1>4. Range(s) \cup {e} \subseteq Range(t)
  BY <1>1, <1>2 DEF Range
<1>5. QED
  BY <1>1, <1>3, <1>4 DEF t, Last

\* The head is an element, and the tail has only elements of the sequence.
LEMMA TailFacts ==
    ASSUME NEW S, NEW s \in Seq(S), s # <<>>
    PROVE  /\ Tail(s) \in Seq(S)
           /\ Len(Tail(s)) = Len(s) - 1
           /\ Head(s) \in Range(s)
           /\ Range(Tail(s)) \subseteq Range(s)
<1> DEFINE t == Tail(s)
<1>1. /\ Len(s) \in Nat \ {0} /\ DOMAIN s = 1..Len(s)
      /\ t \in Seq(S) /\ Len(t) = Len(s) - 1 /\ DOMAIN t = 1..(Len(s) - 1)
      /\ \A i \in 1..(Len(s) - 1) : t[i] = s[i + 1]
      /\ Head(s) = s[1]
  BY HeadTailProperties, LenProperties, EmptySeq
<1> HIDE DEF t
<1>2. 1 \in 1..Len(s) /\ \A i \in 1..(Len(s) - 1) : i + 1 \in 1..Len(s)
  BY <1>1
<1>3. Head(s) \in Range(s) /\ Range(t) \subseteq Range(s)
  BY <1>1, <1>2, Zenon DEF Range
<1>4. QED
  BY <1>1, <1>3 DEF t

\* A concatenation has the elements of both sequences.
LEMMA ConcatFacts ==
    ASSUME NEW S, NEW s \in Seq(S), NEW t \in Seq(S)
    PROVE  /\ s \o t \in Seq(S)
           /\ Len(s \o t) = Len(s) + Len(t)
           /\ Range(s \o t) \subseteq Range(s) \cup Range(t)
<1> DEFINE u == s \o t
<1>1. /\ Len(s) \in Nat /\ DOMAIN s = 1..Len(s) /\ Len(t) \in Nat /\ DOMAIN t = 1..Len(t)
      /\ u \in Seq(S) /\ Len(u) = Len(s) + Len(t) /\ DOMAIN u = 1..(Len(s) + Len(t))
      /\ \A i \in 1..(Len(s) + Len(t)) : u[i] = IF i <= Len(s) THEN s[i] ELSE t[i - Len(s)]
  BY ConcatProperties, LenProperties
<1> HIDE DEF u
<1>2. ASSUME NEW i \in DOMAIN u
      PROVE  u[i] \in Range(s) \cup Range(t)
  <2>1. CASE i <= Len(s)
    BY <1>1, <2>1 DEF Range
  <2>2. CASE ~(i <= Len(s))
    <3>1. i - Len(s) \in DOMAIN t
      BY <1>1, <2>2
    <3>2. QED
      BY <1>1, <2>2, <3>1 DEF Range
  <2>3. QED
    BY <2>1, <2>2
<1>3. Range(u) \subseteq Range(s) \cup Range(t)
  BY <1>2, Zenon DEF Range
<1>4. QED
  BY <1>1, <1>3 DEF u

\* RemoveAt drops one element of a sequence and keeps the others.
LEMMA RemoveAtFacts ==
    ASSUME NEW S, NEW s \in Seq(S), NEW i \in DOMAIN s
    PROVE  /\ RemoveAt(s, i) \in Seq(S)
           /\ Len(RemoveAt(s, i)) = Len(s) - 1
           /\ Range(RemoveAt(s, i)) \subseteq Range(s)
<1> DEFINE f == SubSeq(s, 1, i - 1)
           g == SubSeq(s, i + 1, Len(s))
<1>1. /\ i \in 1..Len(s) /\ Len(s) \in Nat /\ DOMAIN s = 1..Len(s)
      /\ \A j \in 1..Len(s) : s[j] \in S
  BY LenProperties, ElementOfSeq
<1>2. /\ f \in Seq(S) /\ Len(f) = i - 1 /\ DOMAIN f = 1..(i - 1)
      /\ \A j \in 1..(i - 1) : f[j] = s[j]
  BY <1>1
<1>3. /\ g \in Seq(S) /\ Len(g) = Len(s) - i /\ DOMAIN g = 1..(Len(s) - i)
      /\ \A j \in 1..(Len(s) - i) : g[j] = s[i + j]
  BY <1>1
<1> HIDE DEF f, g
<1>4. Range(f) \subseteq Range(s)
  BY <1>1, <1>2 DEF Range
<1>5. Range(g) \subseteq Range(s)
  <2>1. \A j \in 1..(Len(s) - i) : i + j \in DOMAIN s
    BY <1>1
  <2>2. QED
    BY <1>3, <2>1 DEF Range
<1>6. RemoveAt(s, i) = f \o g
  BY DEF RemoveAt, f, g
<1>7. /\ f \o g \in Seq(S)
      /\ Len(f \o g) = (i - 1) + (Len(s) - i)
      /\ Range(f \o g) \subseteq Range(f) \cup Range(g)
  BY <1>2, <1>3, ConcatFacts
<1>8. QED
  BY <1>1, <1>4, <1>5, <1>6, <1>7

--------------------------------------------------------------------------------
(* Type correctness *)

CallRecord == [status : Statuses, answered : SUBSET Legs, bridged : BOOLEAN,
               rec : RecStatuses, cost : Nat, uuids : SUBSET Legs]
CallRow == [status : Statuses, rec : RecStatuses, cost : Nat, uuids : SUBSET Legs]
LegMap == [Legs -> {"none", "dialing", "up", "down"}]

\* The type invariant in three parts: what the goroutines keep, what is
\* written about a call, and FreeSWITCH with the event path.
ControlOK ==
    /\ run \in [Calls -> RunStates]
    /\ want \in [Calls -> Ended]
    /\ fin \in [Calls -> FinStates]
    /\ active \in [Calls -> BOOLEAN]
    /\ ctxDone \in [Calls -> BOOLEAN]
    /\ merge \in [Calls -> 0..MergeTries]
    /\ conn \in BOOLEAN
    /\ sweep \in Seq(Calls)
    /\ chance \in [EventKinds -> Nat]

RecordsOK ==
    /\ mem \in [Calls -> CallRecord]
    /\ row \in [Calls -> CallRow]
    /\ hooks \in [Calls -> Seq(Statuses)]

LegsOK ==
    /\ leg \in [Calls -> LegMap]
    /\ joined \subseteq Calls
    /\ wire \in [Calls -> Seq(Event)]
    /\ ch \in [Calls -> Seq(Event)]
    /\ \A c \in Calls : Len(ch[c]) <= ChanCap

FlowOK == ControlOK /\ RecordsOK /\ LegsOK

LEMMA CallbackTypeParts == CallbackTypeOK <=> AdmissionTypeOK /\ FlowOK
BY DEF CallbackTypeOK, FlowOK, ControlOK, RecordsOK, LegsOK, CallRecord, CallRow, LegMap

\* The operators that several actions share keep the types.
LEMMA NotifiedType ==
    ASSUME RecordsOK, NEW c \in Calls, NEW status \in Statuses, Notified(c, status)
    PROVE  hooks' \in [Calls -> Seq(Statuses)]
<1>1. hooks[c] \in Seq(Statuses)
  BY DEF RecordsOK
<1>2. Append(hooks[c], status) \in Seq(Statuses)
  BY <1>1, AppendFacts
<1>3. QED
  BY <1>1, <1>2 DEF RecordsOK, Notified

LEMMA SetStatusType ==
    ASSUME RecordsOK, NEW c \in Calls, NEW status \in Statuses, NEW call \in CallRecord,
           SetStatus(c, status, call)
    PROVE  mem' \in [Calls -> CallRecord] /\ hooks' \in [Calls -> Seq(Statuses)]
<1>1. [call EXCEPT !.status = status] \in CallRecord
  BY DEF CallRecord
<1>2. mem' \in [Calls -> CallRecord]
  BY <1>1 DEF RecordsOK, SetStatus
<1>3. QED
  BY <1>2, NotifiedType DEF SetStatus

LEMMA RowStatusType ==
    ASSUME RecordsOK, NEW c \in Calls, NEW status \in Statuses, RowStatus(c, status)
    PROVE  row' \in [Calls -> CallRow]
<1>1. row[c] \in CallRow
  BY DEF RecordsOK
<1>2. ASSUME NEW s \in Statuses PROVE [row[c] EXCEPT !.status = s] \in CallRow
  BY <1>1, <1>2 DEF CallRow
<1>3. row[c].status \in Statuses
  BY <1>1 DEF CallRow
<1>4. QED
  BY <1>2, <1>3 DEF RecordsOK, RowStatus

LEMMA HangupType ==
    ASSUME LegsOK, NEW c \in Calls, NEW legs, Hangup(c, legs)
    PROVE  leg' \in [Calls -> LegMap] /\ joined' \subseteq Calls
<1> DEFINE dead == IF c \in joined THEN Legs ELSE legs
           m == [l \in Legs |-> IF l \in dead /\ leg[c][l] # "none" THEN "down" ELSE leg[c][l]]
<1>1. leg[c] \in LegMap
  BY DEF LegsOK
<1>2. m \in LegMap
  BY <1>1 DEF LegMap
<1>3. leg' = leg \/ leg' = [leg EXCEPT ![c] = m]
  BY DEF Hangup
<1> HIDE DEF m
<1>4. leg' \in [Calls -> LegMap]
  BY <1>2, <1>3 DEF LegsOK
<1>5. joined' \subseteq Calls
  BY DEF Hangup, LegsOK
<1>6. QED
  BY <1>4, <1>5

\* Reading an event takes it out of the channel.
LEMMA TakeType ==
    ASSUME LegsOK, NEW c \in Calls, ch[c] # <<>>, ch' = [ch EXCEPT ![c] = Tail(@)]
    PROVE  /\ ch' \in [Calls -> Seq(Event)]
           /\ \A d \in Calls : Len(ch'[d]) <= ChanCap
<1>1. ch \in [Calls -> Seq(Event)] /\ ch[c] \in Seq(Event) /\ \A d \in Calls : Len(ch[d]) <= ChanCap
  BY DEF LegsOK
<1>2. Tail(ch[c]) \in Seq(Event) /\ Len(Tail(ch[c])) = Len(ch[c]) - 1 /\ Len(ch[c]) \in Nat
  BY <1>1, TailFacts, LenProperties
<1>3. \A d \in Calls : ch'[d] = IF d = c THEN Tail(ch[c]) ELSE ch[d]
  BY <1>1
<1>4. QED
  BY <1>1, <1>2, <1>3, CallbackAssumption

LEMMA ChanceType ==
    ASSUME ControlOK, NEW kind \in EventKinds, Chance(kind)
    PROVE  chance' \in [EventKinds -> Nat]
BY DEF ControlOK, Chance

\* runCall up to its selects
LEMMA DialType ==
    ASSUME FlowOK, NEW c \in Calls,
           Start(c) \/ OriginateALeg(c) \/ OriginateBLeg(c) \/ ALegOriginated(c) \/ BLegOriginated(c)
           \/ ALegFails(c) \/ BLegFails(c)
    PROVE  FlowOK'
<1> USE DEF FlowOK
<1>0. mem[c] \in CallRecord
  BY DEF RecordsOK
<1>1. CASE Start(c)
  <2>1. ControlOK'
    BY <1>1 DEF Start, RunTo, ControlOK, RunStates
  <2>2. hooks' \in [Calls -> Seq(Statuses)]
    <3>1. mem[c].status \in Statuses
      BY <1>0 DEF CallRecord
    <3>2. QED
      BY <1>1, <3>1, NotifiedType DEF Start, RecordsOK
  <2>3. QED
    BY <1>1, <2>1, <2>2 DEF Start, RecordsOK, LegsOK
<1>2. ASSUME NEW l \in Legs, NEW at, NEW ringing \in RunStates, Originate(c, l, at, ringing)
      PROVE  FlowOK'
  <2>1. ControlOK'
    BY <1>2 DEF Originate, RunTo, ControlOK
  <2>2. leg' \in [Calls -> LegMap]
    <3>1. leg[c] \in LegMap
      BY DEF LegsOK
    <3>2. [leg[c] EXCEPT ![l] = "dialing"] \in LegMap
      BY <3>1 DEF LegMap
    <3>3. QED
      BY <1>2, <3>2 DEF Originate, LegsOK
  <2>3. QED
    BY <1>2, <2>1, <2>2 DEF Originate, RecordsOK, LegsOK
<1>3. ASSUME NEW l \in Legs, NEW ringing, NEW status \in Statuses, NEW next \in RunStates,
             Originated(c, l, ringing, status, next)
      PROVE  FlowOK'
  <2>1. ControlOK'
    BY <1>3 DEF Originated, RunTo, ControlOK
  <2>2. [mem[c] EXCEPT !.uuids = @ \cup {l}] \in CallRecord
    BY <1>0 DEF CallRecord
  <2>3. RecordsOK'
    BY <1>3, <2>2, SetStatusType, RowStatusType DEF Originated, RecordsOK
  <2>4. QED
    BY <1>3, <2>1, <2>3 DEF Originated, LegsOK
<1>4. ASSUME NEW l, NEW at, NEW ringing, OriginateError(c, l, at, ringing), Finish(c, "failed"),
             UNCHANGED <<fin, active, ctxDone, merge, conn, sweep>>
      PROVE  ControlOK'
  <2>1. chance' \in [EventKinds -> Nat]
    <3>1. "refused" \in EventKinds
      BY DEF EventKinds
    <3>2. QED
      BY <1>4, <3>1, ChanceType DEF OriginateError, ControlOK
  <2>2. QED
    BY <1>4, <2>1 DEF Finish, RunTo, ControlOK, RunStates, Ended
<1>5. CASE ALegFails(c)
  BY <1>4, <1>5 DEF ALegFails, RecordsOK, LegsOK
<1>6. CASE BLegFails(c)
  BY <1>4, <1>6, HangupType DEF BLegFails, RecordsOK, LegsOK
<1>7. /\ {"ringA", "ringB", "waitA", "waitB"} \subseteq RunStates
      /\ {"a_dialing", "b_dialing"} \subseteq Statuses
      /\ "A" \in Legs /\ "B" \in Legs
  BY DEF RunStates, Statuses, Legs
<1>8. QED
  BY <1>1, <1>2, <1>3, <1>5, <1>6, <1>7
     DEF OriginateALeg, OriginateBLeg, ALegOriginated, BLegOriginated

\* The selects of runCall
LEMMA SelectType ==
    ASSUME FlowOK, NEW c \in Calls,
           WaitAEvent(c) \/ ParkTimeout(c) \/ CancelledA(c) \/ BAnswered(c) \/ Bridged(c)
           \/ LegHungUp(c) \/ MaxDuration(c) \/ CancelledB(c)
    PROVE  FlowOK'
<1> USE DEF FlowOK
<1>0. /\ mem[c] \in CallRecord /\ row[c] \in CallRow
      /\ {"a_connected", "b_connected", "bridged"} \subseteq Statuses
  BY DEF RecordsOK, Statuses
<1>1. CASE WaitAEvent(c)
  <2>1. ControlOK'
    BY <1>1 DEF WaitAEvent, RunTo, Finish, ControlOK, RunStates, Ended
  <2>2. [mem[c] EXCEPT !.answered = @ \cup {"A"}] \in CallRecord
    BY <1>0 DEF CallRecord, Legs
  <2>3. RecordsOK'
    <3>1. CASE UNCHANGED <<mem, row, hooks>>
      BY <3>1 DEF RecordsOK
    <3>2. CASE /\ SetStatus(c, "a_connected", [mem[c] EXCEPT !.answered = @ \cup {"A"}])
               /\ RowStatus(c, "a_connected")
      BY <1>0, <2>2, <3>2, SetStatusType, RowStatusType DEF RecordsOK
    <3>3. QED
      BY <1>1, <3>1, <3>2 DEF WaitAEvent
  <2>4. LegsOK'
    BY <1>1, TakeType DEF WaitAEvent, LegsOK
  <2>5. QED
    BY <2>1, <2>3, <2>4
<1>2. CASE WaitAEnds(c)
  <2>1. ControlOK'
    BY <1>2 DEF WaitAEnds, RunTo, Finish, ControlOK, RunStates, Ended
  <2>2. QED
    BY <1>2, <2>1, HangupType DEF WaitAEnds, RecordsOK, LegsOK
<1>3. CASE BAnswered(c)
  <2>1. ControlOK'
    BY <1>3 DEF BAnswered, RunTo, Finish, ControlOK, RunStates, Ended
  <2>2. [mem[c] EXCEPT !.answered = @ \cup {"B"}] \in CallRecord
    BY <1>0 DEF CallRecord, Legs
  <2>3. RecordsOK'
    BY <1>0, <1>3, <2>2, SetStatusType, RowStatusType DEF BAnswered, RecordsOK
  <2>4. LegsOK'
    <3>1. /\ ch' \in [Calls -> Seq(Event)]
          /\ \A d \in Calls : Len(ch'[d]) <= ChanCap
      BY <1>3, TakeType DEF BAnswered, TakeEvent
    <3>2. leg' \in [Calls -> LegMap] /\ joined' \subseteq Calls
      BY <1>3, HangupType DEF BAnswered, LegsOK
    <3>3. wire' \in [Calls -> Seq(Event)]
      <4>1. wire[c] \in Seq(Event) /\ [name |-> "BRIDGE", leg |-> "A"] \in Event
        BY DEF LegsOK, Event, Legs
      <4>2. Append(wire[c], [name |-> "BRIDGE", leg |-> "A"]) \in Seq(Event)
        BY <4>1, AppendFacts
      <4>3. QED
        BY <1>3, <4>2 DEF BAnswered, LegsOK
    <3>4. QED
      BY <3>1, <3>2, <3>3 DEF LegsOK
  <2>5. QED
    BY <2>1, <2>3, <2>4
<1>4. CASE Bridged(c)
  <2>1. ControlOK'
    BY <1>4 DEF Bridged, ControlOK
  <2>2. [mem[c] EXCEPT !.bridged = TRUE, !.rec = "recording"] \in CallRecord
    BY <1>0 DEF CallRecord, RecStatuses
  <2>3. row' \in [Calls -> CallRow]
    <3>1. [row[c] EXCEPT !.status = "bridged", !.rec = "recording"] \in CallRow
      BY <1>0 DEF CallRow, RecStatuses
    <3>2. QED
      BY <1>4, <3>1 DEF Bridged, RecordsOK
  <2>4. RecordsOK'
    BY <1>0, <1>4, <2>2, <2>3, SetStatusType DEF Bridged, RecordsOK
  <2>5. QED
    BY <1>4, <2>1, <2>4, TakeType DEF Bridged, TakeEvent, LegsOK
<1>5. CASE LegHungUp(c)
  <2>1. ControlOK'
    BY <1>5 DEF LegHungUp, RunTo, Finish, ControlOK, RunStates, Ended
  <2>2. leg' \in [Calls -> LegMap] /\ joined' \subseteq Calls
    BY <1>5, HangupType DEF LegHungUp, LegsOK
  <2>3. QED
    BY <1>5, <2>1, <2>2, TakeType DEF LegHungUp, TakeEvent, RecordsOK, LegsOK
<1>6. ASSUME NEW status \in Ended, WaitBEnds(c, status)
      PROVE  FlowOK'
  <2>1. ControlOK'
    BY <1>6 DEF WaitBEnds, RunTo, Finish, ControlOK, RunStates
  <2>2. QED
    BY <1>6, <2>1, HangupType DEF WaitBEnds, RecordsOK, LegsOK
<1>7. QED
  BY <1>1, <1>2, <1>3, <1>4, <1>5, <1>6
     DEF ParkTimeout, CancelledA, MaxDuration, CancelledB, Ended

\* finalizeCall, and the two goroutines that call it
LEMMA FinalizeType ==
    ASSUME AdmissionTypeOK, FlowOK, NEW c \in Calls,
           RunFinalizes(c) \/ RunReturns(c) \/ Sweep(c) \/ FinalizeCall(c)
    PROVE  FlowOK'
<1> USE DEF FlowOK
<1>0. mem[c] \in CallRecord /\ row[c] \in CallRow
  BY DEF RecordsOK
<1>1. ASSUME NEW status \in Ended, EnterFinalize(c, status)
      PROVE  FlowOK'
  <2>1. ControlOK'
    BY <1>1 DEF EnterFinalize, ControlOK, FinStates
  <2>2. [mem[c] EXCEPT !.status = status] \in CallRecord
    BY <1>0 DEF CallRecord, Statuses
  <2>3. QED
    BY <1>1, <2>1, <2>2 DEF EnterFinalize, RecordsOK, LegsOK
<1>2. CASE RunReturns(c)
  <2>1. <<>> \in Seq(Event) /\ Len(<<>>) = 0
    OBVIOUS
  <2>2. LegsOK'
    BY <1>2, <2>1, CallbackAssumption DEF RunReturns, LegsOK
  <2>3. QED
    BY <1>2, <2>2 DEF RunReturns, RunTo, ControlOK, RunStates, RecordsOK
<1>3. CASE SweepMovesOn(c)
  <2>1. Tail(sweep) \in Seq(Calls)
    BY <1>3, TailFacts DEF SweepMovesOn, ControlOK
  <2>2. QED
    BY <1>3, <2>1 DEF SweepMovesOn, ControlOK, RecordsOK, LegsOK
<1>4. CASE FinalizeBilling(c)
  <2>1. ControlOK'
    BY <1>4 DEF FinalizeBilling, ControlOK, FinStates
  <2>2. ASSUME NEW a \in DurationsOf(c, "A"), NEW b \in DurationsOf(c, "B")
        PROVE  [mem[c] EXCEPT !.cost = CallCost(a, b)] \in CallRecord
    <3>1. a \in Nat /\ b \in Nat
      BY <2>2, BilledDurations, AdmissionAssumption DEF Legs
    <3>2. CallCost(a, b) \in Nat
      BY <3>1, PreDeductionCovers
    <3>3. QED
      BY <1>0, <3>2 DEF CallRecord
  <2>3. mem' \in [Calls -> CallRecord]
    BY <1>4, <2>2 DEF FinalizeBilling, RecordsOK
  <2>4. QED
    BY <1>4, <2>1, <2>3 DEF FinalizeBilling, RecordsOK, LegsOK
<1>5. CASE FinalizeSlot(c)
  BY <1>5 DEF FinalizeSlot, ControlOK, FinStates, RecordsOK, LegsOK
<1>6. CASE FinalizePublish(c)
  <2>1. "pubsub" \in EventKinds /\ MergeTries \in 0..MergeTries
    BY CallbackAssumption DEF EventKinds
  <2>2. ControlOK'
    BY <1>6, <2>1, ChanceType DEF FinalizePublish, ControlOK, FinStates
  <2>3. ASSUME NEW r \in RecStatuses
        PROVE  [mem[c] EXCEPT !.rec = r] \in CallRecord
    BY <1>0, <2>3 DEF CallRecord
  <2>4. mem' \in [Calls -> CallRecord]
    <3>1. "merging" \in RecStatuses /\ "failed" \in RecStatuses
      BY DEF RecStatuses
    <3>2. QED
      BY <1>6, <2>3, <3>1 DEF FinalizePublish, RecordsOK
  <2>5. QED
    BY <1>6, <2>2, <2>4 DEF FinalizePublish, RecordsOK, LegsOK
<1>7. CASE FinalizePersist(c)
  <2>1. "rowdb" \in EventKinds
    BY DEF EventKinds
  <2>2. ControlOK'
    BY <1>7, <2>1, ChanceType DEF FinalizePersist, ControlOK, FinStates
  <2>3. [status |-> mem[c].status, rec |-> mem[c].rec, cost |-> mem[c].cost,
         uuids |-> mem[c].uuids] \in CallRow
    BY <1>0 DEF CallRecord, CallRow
  <2>4. QED
    BY <1>7, <2>2, <2>3 DEF FinalizePersist, RecordsOK, LegsOK
<1>8. CASE FinalizeNotify(c)
  <2>1. hooks[c] \in Seq(Statuses) /\ mem[c].status \in Statuses
    BY <1>0 DEF RecordsOK, CallRecord
  <2>2. Append(hooks[c], mem[c].status) \in Seq(Statuses)
    BY <2>1, AppendFacts
  <2>3. QED
    BY <1>8, <2>2 DEF FinalizeNotify, ControlOK, FinStates, RecordsOK, LegsOK
<1>9. QED
  <2>1. want[c] \in Ended /\ "failed" \in Ended
    BY DEF ControlOK, Ended
  <2>2. QED
    BY <2>1, <1>1, <1>2, <1>3, <1>4, <1>5, <1>6, <1>7, <1>8
       DEF RunFinalizes, Sweep, SweepFinalizes, FinalizeCall

\* ForceHangup, the connection, Shutdown and the end of the process
LEMMA DisturbanceType ==
    ASSUME FlowOK, (\E c \in Calls : ForceHangup(c)) \/ Disconnect \/ Shutdown \/ Restart
    PROVE  FlowOK'
<1> USE DEF FlowOK
<1>1. ASSUME NEW c \in Calls, ForceHangup(c)
      PROVE  FlowOK'
  <2>1. "hangup" \in EventKinds
    BY DEF EventKinds
  <2>2. ctxDone' \in [Calls -> BOOLEAN]
    BY <1>1 DEF ForceHangup, ControlOK
  <2>3. QED
    BY <1>1, <2>1, <2>2, ChanceType, HangupType DEF ForceHangup, ControlOK, RecordsOK, LegsOK
<1>2. CASE Disconnect
  <2>1. "disconnect" \in EventKinds
    BY DEF EventKinds
  <2>2. sweep' \in Seq(Calls)
    <3>1. ActiveCalls \subseteq Calls /\ IsFiniteSet(ActiveCalls)
      BY AdmissionAssumption, FS_Subset DEF ActiveCalls
    <3>2. Cardinality(ActiveCalls) \in Nat
      BY <3>1, FS_CardinalityType
    <3>3. sweep' \in [1..Cardinality(ActiveCalls) -> Calls]
      BY <1>2, <3>1 DEF Disconnect, SetToSeqs
    <3>4. QED
      BY <3>2, <3>3, IsASeq
  <2>3. QED
    BY <1>2, <2>1, <2>2, ChanceType DEF Disconnect, ControlOK, RecordsOK, LegsOK
<1>3. CASE Shutdown
  <2>1. "shutdown" \in EventKinds
    BY DEF EventKinds
  <2>2. ctxDone' \in [Calls -> BOOLEAN]
    BY <1>3 DEF Shutdown, ControlOK
  <2>3. QED
    BY <1>3, <2>1, <2>2, ChanceType DEF Shutdown, ControlOK, RecordsOK, LegsOK
<1>4. CASE Restart
  <2>1. <<>> \in Seq(Event) /\ Len(<<>>) = 0 /\ <<>> \in Seq(Calls)
    OBVIOUS
  <2>2. run' \in [Calls -> RunStates] /\ fin' \in [Calls -> FinStates]
    BY <1>4 DEF Restart, ControlOK, RunStates, FinStates
  <2>3. ControlOK'
    BY <1>4, <2>1, <2>2 DEF Restart, ControlOK
  <2>4. LegsOK'
    BY <1>4, <2>1, CallbackAssumption DEF Restart, LegsOK
  <2>5. QED
    BY <1>4, <2>3, <2>4 DEF Restart, RecordsOK
<1>5. QED
  BY <1>1, <1>2, <1>3, <1>4

\* What FreeSWITCH sends is a sequence of events.
LEMMA EmitType ==
    ASSUME LegsOK, NEW c \in Calls, NEW events \in Seq(Event), Emit(c, events)
    PROVE  wire' \in [Calls -> Seq(Event)]
<1>1. wire[c] \in Seq(Event)
  BY DEF LegsOK
<1>2. wire[c] \o events \in Seq(Event)
  BY <1>1, ConcatFacts
<1>3. QED
  BY <1>2 DEF Emit, LegsOK

\* The two hangup events of a leg
LEMMA HangupEventsFacts ==
    ASSUME NEW l \in Legs
    PROVE  /\ HangupEvents(l) \in Seq(Event)
           /\ Len(HangupEvents(l)) = 2
           /\ \A e \in Range(HangupEvents(l)) : e = [name |-> "HANGUP", leg |-> l]
<1> DEFINE e == [name |-> "HANGUP", leg |-> l]
<1>1. e \in Event
  BY DEF Event
<1> HIDE DEF e
<1>2. <<e, e>> \in Seq(Event) /\ Len(<<e, e>>) = 2
  BY <1>1
<1>3. \A i \in DOMAIN <<e, e>> : <<e, e>>[i] = e
  OBVIOUS
<1>4. QED
  BY <1>2, <1>3 DEF HangupEvents, e, Range

\* FreeSWITCH, the event path and the recording worker
LEMMA EventType ==
    ASSUME FlowOK, NEW c \in Calls, FreeSwitch(c) \/ Dispatch(c) \/ Worker(c)
    PROVE  FlowOK'
<1> USE DEF FlowOK
<1>0. leg[c] \in LegMap /\ wire[c] \in Seq(Event) /\ ch[c] \in Seq(Event) /\ row[c] \in CallRow
  BY DEF LegsOK, RecordsOK
<1>1. ASSUME NEW l \in Legs, LegAnswers(c, l)
      PROVE  FlowOK'
  <2>1. [leg[c] EXCEPT ![l] = "up"] \in LegMap
    BY <1>0 DEF LegMap
  <2>2. <<[name |-> "ANSWER", leg |-> l]>> \in Seq(Event)
    BY DEF Event
  <2>3. QED
    BY <1>1, <2>1, <2>2, EmitType DEF LegAnswers, ControlOK, RecordsOK, LegsOK
<1>2. ASSUME NEW l \in Legs, LegHangsUp(c, l)
      PROVE  FlowOK'
  <2>1. [leg[c] EXCEPT ![l] = "down"] \in LegMap /\ [m \in Legs |-> "down"] \in LegMap
    BY <1>0 DEF LegMap
  <2>2. (CHOOSE m \in Legs : m # l) \in Legs
    BY DEF Legs
  <2>3. /\ HangupEvents(l) \in Seq(Event)
        /\ HangupEvents(l) \o HangupEvents(CHOOSE m \in Legs : m # l) \in Seq(Event)
    BY <2>2, HangupEventsFacts, ConcatFacts
  <2>4. wire' \in [Calls -> Seq(Event)]
    BY <1>2, <2>3, EmitType DEF LegHangsUp
  <2>5. leg' \in [Calls -> LegMap]
    BY <1>2, <2>1 DEF LegHangsUp, LegsOK
  <2>6. QED
    BY <1>2, <2>4, <2>5 DEF LegHangsUp, ControlOK, RecordsOK, LegsOK
<1>3. CASE Dispatch(c)
  <2>1. PICK i \in DOMAIN wire[c] :
            /\ wire' = [wire EXCEPT ![c] = RemoveAt(@, i)]
            /\ ch' = [ch EXCEPT ![c] = IF active[c] /\ Len(@) < ChanCap
                                       THEN Append(@, wire[c][i]) ELSE @]
            /\ UNCHANGED <<run, want, fin, active, ctxDone, mem, row, hooks, merge,
                           leg, joined, conn, sweep, chance>>
    BY <1>3 DEF Dispatch
  <2>2. wire' \in [Calls -> Seq(Event)]
    BY <1>0, <2>1, RemoveAtFacts DEF LegsOK
  <2>3. wire[c][i] \in Event
    BY <1>0, <2>1, ElementOfSeq, LenProperties
  <2>4. /\ Append(ch[c], wire[c][i]) \in Seq(Event)
        /\ Len(Append(ch[c], wire[c][i])) = Len(ch[c]) + 1
        /\ Len(ch[c]) \in Nat
    BY <1>0, <2>3, AppendFacts, LenProperties
  <2>5. ch' \in [Calls -> Seq(Event)] /\ \A d \in Calls : Len(ch'[d]) <= ChanCap
    <3>1. /\ ch \in [Calls -> Seq(Event)] /\ \A d \in Calls : Len(ch[d]) <= ChanCap
      BY DEF LegsOK
    <3>2. \A d \in Calls : ch'[d] = ch[d] \/ (d = c /\ Len(ch[c]) < ChanCap
                                             /\ ch'[d] = Append(ch[c], wire[c][i]))
      BY <2>1, <3>1
    <3>3. ch' \in [Calls -> Seq(Event)]
      BY <2>1, <2>4, <3>1
    <3>4. QED
      BY <2>4, <3>1, <3>2, <3>3, CallbackAssumption
  <2>6. QED
    BY <2>1, <2>2, <2>5 DEF ControlOK, RecordsOK, LegsOK
<1>4. CASE Worker(c)
  <2>1. ASSUME NEW r \in RecStatuses
        PROVE  [row[c] EXCEPT !.rec = r] \in CallRow
    BY <1>0, <2>1 DEF CallRow
  <2>2. "ready" \in RecStatuses /\ "failed" \in RecStatuses /\ "merge" \in EventKinds
    BY DEF RecStatuses, EventKinds
  <2>3. row' \in [Calls -> CallRow]
    BY <1>4, <2>1, <2>2 DEF Worker, MergeDone, MergeFails, RecordsOK
  <2>4. merge' \in [Calls -> 0..MergeTries]
    <3>1. merge[c] \in 0..MergeTries /\ MergeTries \in Nat
      BY CallbackAssumption DEF ControlOK
    <3>2. 0 \in 0..MergeTries /\ (merge[c] > 0 => merge[c] - 1 \in 0..MergeTries)
      BY <3>1
    <3>3. merge' = [merge EXCEPT ![c] = 0] \/ (merge[c] > 0 /\ merge' = [merge EXCEPT ![c] = @ - 1])
      BY <1>4 DEF Worker, MergeDone, MergeFails
    <3>4. merge \in [Calls -> 0..MergeTries]
      BY DEF ControlOK
    <3>5. QED
      BY <3>2, <3>3, <3>4
  <2>5. chance' \in [EventKinds -> Nat]
    BY <1>4, <2>2, ChanceType DEF Worker, MergeDone, MergeFails, ControlOK
  <2>6. QED
    BY <1>4, <2>3, <2>4, <2>5 DEF Worker, MergeDone, MergeFails, ControlOK, RecordsOK, LegsOK
<1>5. QED
  BY <1>1, <1>2, <1>3, <1>4 DEF FreeSwitch

\* Every step keeps the types.
LEMMA FlowTypeStep ==
    ASSUME AdmissionTypeOK, FlowOK, [CallbackNext]_vars
    PROVE  FlowOK'
<1> USE DEF FlowOK
<1>1. ASSUME UNCHANGED flowVars PROVE FlowOK'
  BY <1>1 DEF flowVars, ControlOK, RecordsOK, LegsOK
<1>2. ASSUME NEW c \in Calls, LaunchCall(c)
      PROVE  FlowOK'
  <2>1. row[c] \in CallRow
    BY DEF RecordsOK
  <2>2. [row[c] EXCEPT !.status = "initiating"] \in CallRow
    BY <2>1 DEF CallRow, Statuses
  <2>3. QED
    BY <1>2, <2>2 DEF LaunchCall, RunTo, ControlOK, RunStates, RecordsOK, LegsOK
<1>3. ASSUME NEW c \in Calls, Arrive(c) \/ Request(c)
      PROVE  FlowOK'
  BY <1>1, <1>2, <1>3 DEF Arrive, Request
<1>4. ASSUME NEW c \in Calls, RunCall(c)
      PROVE  FlowOK'
  BY <1>4, DialType, SelectType, FinalizeType DEF RunCall
<1>5. ASSUME NEW c \in Calls, FinalizeCall(c) \/ Sweep(c)
      PROVE  FlowOK'
  BY <1>5, FinalizeType
<1>6. ASSUME NEW c \in Calls, FreeSwitch(c) \/ Dispatch(c) \/ Worker(c)
      PROVE  FlowOK'
  BY <1>6, EventType
<1>7. ASSUME (\E c \in Calls : ForceHangup(c)) \/ Disconnect \/ Shutdown \/ Restart
      PROVE  FlowOK'
  BY <1>7, DisturbanceType
<1>8. ASSUME NEW u \in Users, Account(u)
      PROVE  FlowOK'
  BY <1>1, <1>8 DEF Account
<1>9. CASE Quiet \/ UNCHANGED vars
  BY <1>1, <1>9 DEF Quiet, vars
<1>10. QED
  BY <1>3, <1>4, <1>5, <1>6, <1>7, <1>8, <1>9 DEF CallbackNext

LEMMA FlowTypeInit == CallbackInit => FlowOK
<1> SUFFICES ASSUME CallbackInit PROVE FlowOK
  OBVIOUS
<1>1. <<>> \in Seq(Event) /\ Len(<<>>) = 0 /\ <<>> \in Seq(Calls) /\ <<>> \in Seq(Statuses)
  OBVIOUS
<1>2. ControlOK
  BY <1>1, CallbackAssumption DEF CallbackInit, ControlOK, RunStates, FinStates, Ended
<1>3. NewCall \in CallRecord /\ NoRow \in CallRow
  BY DEF NewCall, NoRow, CallRecord, CallRow, Statuses, RecStatuses
<1>4. RecordsOK
  BY <1>1, <1>3 DEF CallbackInit, RecordsOK
<1>5. LegsOK
  BY <1>1, CallbackAssumption DEF CallbackInit, LegsOK, LegMap
<1>6. QED
  BY <1>2, <1>4, <1>5 DEF FlowOK

LEMMA FlowTypeAlways == CallbackSpec => [](AdmissionTypeOK /\ FlowOK)
<1>1. AdmissionTypeOK /\ FlowOK /\ [CallbackNext]_vars => FlowOK'
  BY FlowTypeStep
<1>2. QED
  BY <1>1, FlowTypeInit, CallbackImplementsAdmission, AdmissionTypeCorrect, PTL DEF CallbackSpec

\* Type correctness of the service: in particular eventCh never holds more
\* than its capacity, and the record, the row and the webhooks of a call only
\* ever hold statuses of the schema.
THEOREM CallbackTypeCorrect == CallbackSpec => []CallbackTypeOK
<1>1. AdmissionTypeOK /\ FlowOK => CallbackTypeOK
  BY CallbackTypeParts
<1>2. QED
  BY <1>1, FlowTypeAlways, PTL

--------------------------------------------------------------------------------
(* finalizeCall settles before it reports *)

\* How far the body of finalized.Do is, against the phase of the call: the
\* reporting part only runs on a settled call, and the row shows an end only
\* when nothing is left to settle.
Reported(c) == row[c].status \in Ended
SettleOrder ==
    \A c \in Calls :
        /\ fin[c] \in {"publish", "persist", "notify", "done"} => phase[c] = "settled"
        /\ Reported(c) => phase[c] \in {"settled", "lost"}

\* No step of Admission takes a call out of a terminal phase.
LEMMA TerminalStays ==
    ASSUME AdmissionTypeOK, [AdmissionNext]_admissionVars, NEW c \in Calls
    PROVE  /\ phase[c] = "settled" => phase'[c] = "settled"
           /\ phase[c] = "lost" => phase'[c] = "lost"
<1> USE DEF Goto
<1>0. phase \in [Calls -> Phases]
  BY DEF AdmissionTypeOK
<1>1. ASSUME NEW d \in Calls, RequestStep(d)
      PROVE  \/ phase' = phase
             \/ /\ phase[d] \notin {"settled", "lost"}
                /\ \E p \in Phases : phase' = [phase EXCEPT ![d] = p]
  BY <1>1 DEF RequestStep, Refuse, PreDeduct, AcquireSlot, AcquireSlotFails, RollbackSlot,
     Launch, RouteFails, ReleaseSlot, FloorSlot, Refund, ClientGone, Phases
<1>2. ASSUME NEW d \in Calls, FinalizeStep(d)
      PROVE  /\ phase[d] \notin {"settled", "lost"}
             /\ \E p \in Phases : phase' = [phase EXCEPT ![d] = p]
  BY <1>2 DEF FinalizeStep, Settle, SettleFails, Unslot, Unfloor, Phases
<1>3. ASSUME NEW u \in Users, AccountStep(u)
      PROVE  phase' = phase
  BY <1>3 DEF AccountStep, Topup, Deduct, EvictSlots
<1>4. CASE Crash
  BY <1>0, <1>4 DEF Crash, ProcessLost, Terminal
<1>5. CASE AllDone \/ UNCHANGED admissionVars
  BY <1>5 DEF AllDone, admissionVars
<1>6. QED
  BY <1>0, <1>1, <1>2, <1>3, <1>4, <1>5 DEF AdmissionNext

Reporting == {"publish", "persist", "notify", "done"}

\* Only FinalizeSlot leads into the reporting part, and it looks at the phase.
LEMMA IntoReporting ==
    ASSUME FlowOK, [CallbackNext]_vars, NEW c \in Calls, fin'[c] \in Reporting
    PROVE  fin[c] \in Reporting \/ phase'[c] = "settled"
<1> USE DEF Reporting
<1>0. fin \in [Calls -> FinStates]
  BY DEF FlowOK, ControlOK
<1>1. ASSUME NEW d \in Calls, FinalizeCall(d)
      PROVE  fin[c] \in Reporting \/ phase'[c] = "settled"
  BY <1>0, <1>1 DEF FinalizeCall, FinalizeBilling, FinalizeSlot, FinalizePublish,
     FinalizePersist, FinalizeNotify
<1>2. ASSUME NEW d \in Calls, NEW s, EnterFinalize(d, s)
      PROVE  fin[c] \in Reporting
  BY <1>0, <1>2 DEF EnterFinalize
<1>3. CASE Restart
  BY <1>0, <1>3 DEF Restart
<1>4. ASSUME fin' = fin
      PROVE  fin[c] \in Reporting
  BY <1>4
<1>5. ASSUME NEW d \in Calls, RunCall(d) \/ Sweep(d)
      PROVE  fin' = fin \/ (\E s : EnterFinalize(d, s))
  BY <1>5 DEF RunCall, Start, OriginateALeg, OriginateBLeg, Originate, ALegOriginated,
     BLegOriginated, Originated, ALegFails, BLegFails, WaitAEvent, ParkTimeout, CancelledA,
     WaitAEnds, BAnswered, Bridged, LegHungUp, MaxDuration, CancelledB, WaitBEnds,
     RunFinalizes, RunReturns, Sweep, SweepFinalizes, SweepMovesOn
<1>6. ASSUME NEW d \in Calls, Arrive(d) \/ Request(d)
      PROVE  fin' = fin
  BY <1>6 DEF Arrive, Request, LaunchCall, flowVars
<1>7. ASSUME NEW d \in Calls,
             FreeSwitch(d) \/ Dispatch(d) \/ Worker(d) \/ ForceHangup(d)
      PROVE  fin' = fin
  BY <1>7 DEF FreeSwitch, LegAnswers, LegHangsUp, Dispatch, Worker, MergeDone, MergeFails,
     ForceHangup
<1>8. ASSUME (\E u \in Users : Account(u)) \/ Disconnect \/ Shutdown \/ Quiet \/ UNCHANGED vars
      PROVE  fin' = fin
  BY <1>8 DEF Account, Disconnect, Shutdown, Quiet, vars, flowVars
<1>9. QED
  BY <1>1, <1>2, <1>3, <1>4, <1>5, <1>6, <1>7, <1>8 DEF CallbackNext

\* Every step leaves the status of a row alone, gives it a status of a call
\* that goes on, or is the one that writes the end.
LEMMA IntoReported ==
    ASSUME FlowOK, [CallbackNext]_vars, NEW c \in Calls, Reported(c)'
    PROVE  Reported(c) \/ fin[c] = "persist"
<1> USE DEF Reported, Ended
<1>0. row \in [Calls -> CallRow] /\ row[c] \in CallRow
  BY DEF FlowOK, RecordsOK
<1>1. ASSUME NEW d \in Calls, NEW s \in Statuses \ Ended, RowStatus(d, s)
      PROVE  Reported(c)
  <2>1. CASE d = c
    BY <1>0, <1>1, <2>1 DEF RowStatus, CallRow
  <2>2. CASE d # c
    BY <1>0, <1>1, <2>2 DEF RowStatus
  <2>3. QED
    BY <2>1, <2>2
<1>2. ASSUME row' = row
      PROVE  Reported(c)
  BY <1>2
<1>3. {"a_dialing", "b_dialing", "a_connected", "b_connected"} \subseteq Statuses \ Ended
  BY DEF Statuses
<1>4. ASSUME NEW d \in Calls, Bridged(d)
      PROVE  Reported(c)
  BY <1>0, <1>4 DEF Bridged, CallRow
<1>5. ASSUME NEW d \in Calls, RunCall(d) \/ Sweep(d)
      PROVE  row' = row \/ Bridged(d) \/ \E s \in Statuses \ Ended : RowStatus(d, s)
  BY <1>3, <1>5 DEF RunCall, Start, OriginateALeg, OriginateBLeg, Originate, ALegOriginated,
     BLegOriginated, Originated, ALegFails, BLegFails, WaitAEvent, ParkTimeout, CancelledA,
     WaitAEnds, BAnswered, LegHungUp, MaxDuration, CancelledB, WaitBEnds,
     RunFinalizes, EnterFinalize, RunReturns, Sweep, SweepFinalizes, SweepMovesOn
<1>6. ASSUME NEW d \in Calls, Arrive(d) \/ Request(d)
      PROVE  Reported(c)
  <2>1. CASE LaunchCall(d)
    BY <1>0, <2>1 DEF LaunchCall, CallRow
  <2>2. CASE row' = row
    BY <2>2
  <2>3. QED
    BY <1>6, <2>1, <2>2 DEF Arrive, Request, flowVars
<1>7. ASSUME NEW d \in Calls, FinalizeCall(d)
      PROVE  Reported(c) \/ fin[c] = "persist"
  BY <1>0, <1>7 DEF FinalizeCall, FinalizeBilling, FinalizeSlot, FinalizePublish,
     FinalizePersist, FinalizeNotify
<1>8. ASSUME NEW d \in Calls, Worker(d)
      PROVE  Reported(c)
  BY <1>0, <1>8 DEF Worker, MergeDone, MergeFails, CallRow
<1>9. ASSUME NEW d \in Calls, FreeSwitch(d) \/ Dispatch(d) \/ ForceHangup(d)
      PROVE  row' = row
  BY <1>9 DEF FreeSwitch, LegAnswers, LegHangsUp, Dispatch, ForceHangup
<1>10. ASSUME \/ \E u \in Users : Account(u)
              \/ Disconnect \/ Shutdown \/ Restart \/ Quiet \/ UNCHANGED vars
       PROVE  row' = row
  BY <1>10 DEF Account, Disconnect, Shutdown, Restart, Quiet, vars, flowVars
<1>11. QED
  BY <1>1, <1>2, <1>4, <1>5, <1>6, <1>7, <1>8, <1>9, <1>10 DEF CallbackNext

LEMMA SettleOrderAlways == CallbackSpec => []SettleOrder
<1>1. CallbackInit => SettleOrder
  BY DEF CallbackInit, SettleOrder, NoRow, Reported, Ended
<1>2. ASSUME AdmissionTypeOK, FlowOK, SettleOrder, [CallbackNext]_vars
      PROVE  SettleOrder'
  <2>1. [AdmissionNext]_admissionVars
    BY <1>2, CallbackStepImplementsAdmission
  <2>2. ASSUME NEW c \in Calls, fin'[c] \in Reporting
        PROVE  phase'[c] = "settled"
    BY <1>2, <2>1, <2>2, IntoReporting, TerminalStays DEF SettleOrder, Reporting
  <2>3. ASSUME NEW c \in Calls, Reported(c)'
        PROVE  phase'[c] \in {"settled", "lost"}
    BY <1>2, <2>1, <2>3, IntoReported, TerminalStays DEF SettleOrder
  <2>4. QED
    BY <2>2, <2>3 DEF SettleOrder, Reporting
<1>3. QED
  BY <1>1, <1>2, FlowTypeAlways, PTL DEF CallbackSpec

\* A call that the row shows as ended has been settled and has given its
\* concurrency slot back, unless the process was lost: for any number of
\* calls, whoever enters finalizeCall first, whatever runCall still writes
\* under a sweep, and wherever a query or a command fails.
THEOREM SettledBeforeReportedHolds == CallbackSpec => []SettledBeforeReported
<1>1. SettleOrder => SettledBeforeReported
  BY DEF SettleOrder, SettledBeforeReported, Reported
<1>2. QED
  BY <1>1, SettleOrderAlways, PTL
--------------------------------------------------------------------------------
(* finalizeCall settles once, and can always be reached *)

\* OpenHoldInReach is not inductive: a request that is launched must find its
\* call not finalized yet.  No body runs for a request that is not launched.
Started(c) == phase[c] \in {"running", "unslot", "unfloor", "settled", "lost"}
HoldMatchesBody(c) ==
    /\ phase[c] = "running" <=> active[c] /\ fin[c] \in {"none", "bill"}
    /\ fin[c] = "bill" => phase[c] = "running"
    /\ fin[c] = "slot" <=> phase[c] \in {"unslot", "unfloor"}
    /\ fin[c] # "none" => Started(c)

\* The steps of the body of finalized.Do.
LEMMA BodyKeepsHold ==
    ASSUME AdmissionTypeOK, FlowOK, NEW c \in Calls, HoldMatchesBody(c), FinalizeCall(c)
    PROVE  HoldMatchesBody(c)'
<1> USE DEF HoldMatchesBody, Started, Goto
<1>0. /\ phase \in [Calls -> Phases] /\ fin \in [Calls -> FinStates]
      /\ active \in [Calls -> BOOLEAN]
  BY DEF AdmissionTypeOK, FlowOK, ControlOK
<1>1. CASE FinalizeBilling(c)
  BY <1>0, <1>1 DEF FinalizeBilling, Settle, SettleFails
<1>2. CASE FinalizeSlot(c)
  BY <1>0, <1>2 DEF FinalizeSlot, Unslot, Unfloor
<1>3. CASE FinalizePublish(c) \/ FinalizePersist(c) \/ FinalizeNotify(c)
  BY <1>0, <1>3 DEF FinalizePublish, FinalizePersist, FinalizeNotify, admissionVars
<1>4. QED
  BY <1>1, <1>2, <1>3 DEF FinalizeCall

\* The steps of the HTTP handler: only the launch takes the hold into the
\* registry.
LEMMA RequestKeepsHold ==
    ASSUME AdmissionTypeOK, FlowOK, NEW c \in Calls, HoldMatchesBody(c),
           Arrive(c) \/ Request(c)
    PROVE  HoldMatchesBody(c)'
<1> USE DEF HoldMatchesBody, Started, Goto
<1>0. /\ phase \in [Calls -> Phases] /\ fin \in [Calls -> FinStates]
      /\ active \in [Calls -> BOOLEAN]
  BY DEF AdmissionTypeOK, FlowOK, ControlOK
<1>1. CASE LaunchCall(c)
  BY <1>0, <1>1 DEF LaunchCall, Launch
<1>2. CASE ~LaunchCall(c)
  <2>1. UNCHANGED flowVars
    BY <1>2 DEF Arrive, Request
  <2>2. \/ phase'[c] = phase[c]
        \/ /\ phase[c] \in InRequest \cup {"idle"}
           /\ phase'[c] \in InRequest \cup {"rejected"}
    BY <1>0, <1>2 DEF Arrive, Request, Refuse, PreDeduct, ClientGone, AcquireSlot,
       AcquireSlotFails, RollbackSlot, RouteFails, ReleaseSlot, FloorSlot, Refund, InRequest
  <2>3. QED
    BY <2>1, <2>2 DEF flowVars, InRequest
<1>3. QED
  BY <1>1, <1>2

\* runCall, the sweep and the event path leave the registry to finalizeCall
\* and InitiateCallback, and enter the body of finalized.Do or stay out of it.
LEMMA RunCallInRegistry ==
    ASSUME NEW d \in Calls,
           \/ RunCall(d) \/ Sweep(d) \/ FreeSwitch(d) \/ Dispatch(d) \/ Worker(d)
           \/ ForceHangup(d)
    PROVE  active' = active /\ (fin' = fin \/ \E s : EnterFinalize(d, s))
<1>1. CASE RunCall(d) \/ Sweep(d)
  <2>1. ASSUME NEW s, EnterFinalize(d, s)
        PROVE  active' = active
    BY <2>1 DEF EnterFinalize
  <2>2. \/ active' = active /\ fin' = fin
        \/ \E s : EnterFinalize(d, s)
    BY <1>1 DEF RunCall, Start, OriginateALeg, OriginateBLeg, Originate, ALegOriginated,
       BLegOriginated, Originated, ALegFails, BLegFails, WaitAEvent, ParkTimeout, CancelledA,
       WaitAEnds, BAnswered, Bridged, LegHungUp, MaxDuration, CancelledB, WaitBEnds,
       RunFinalizes, RunReturns, Sweep, SweepFinalizes, SweepMovesOn
  <2>3. QED
    BY <2>1, <2>2
<1>2. CASE FreeSwitch(d) \/ Dispatch(d) \/ Worker(d) \/ ForceHangup(d)
  BY <1>2 DEF FreeSwitch, LegAnswers, LegHangsUp, Dispatch, Worker, MergeDone, MergeFails,
     ForceHangup
<1>3. QED
  BY <1>1, <1>2

\* The steps of one call leave the others' holds, registry and bodies alone.
LEMMA OtherHolds ==
    ASSUME AdmissionTypeOK, FlowOK, NEW c \in Calls, NEW d \in Calls, c # d,
           \/ Arrive(d) \/ Request(d) \/ RunCall(d) \/ FinalizeCall(d) \/ Sweep(d)
           \/ FreeSwitch(d) \/ Dispatch(d) \/ Worker(d) \/ ForceHangup(d)
    PROVE  phase'[c] = phase[c] /\ fin'[c] = fin[c] /\ active'[c] = active[c]
<1> USE DEF Goto
<1>0. /\ phase \in [Calls -> Phases] /\ fin \in [Calls -> FinStates]
      /\ active \in [Calls -> BOOLEAN]
  BY DEF AdmissionTypeOK, FlowOK, ControlOK
<1>1. CASE Arrive(d) \/ Request(d)
  BY <1>0, <1>1 DEF Arrive, Request, Refuse, PreDeduct, ClientGone, AcquireSlot,
     AcquireSlotFails, RollbackSlot, RouteFails, ReleaseSlot, FloorSlot, Refund, LaunchCall,
     Launch, flowVars
<1>2. CASE FinalizeCall(d)
  BY <1>0, <1>2 DEF FinalizeCall, FinalizeBilling, FinalizeSlot, FinalizePublish,
     FinalizePersist, FinalizeNotify, Settle, SettleFails, Unslot, Unfloor, admissionVars
<1>3. CASE RunCall(d) \/ Sweep(d) \/ FreeSwitch(d) \/ Dispatch(d) \/ Worker(d) \/ ForceHangup(d)
  <2>1. phase' = phase
    BY <1>3, RunCallLeavesAdmission DEF admissionVars
  <2>2. active' = active /\ (fin' = fin \/ \E s : EnterFinalize(d, s))
    BY <1>3, RunCallInRegistry
  <2>3. QED
    BY <1>0, <2>1, <2>2 DEF EnterFinalize
<1>4. QED
  BY <1>1, <1>2, <1>3

LEMMA HoldMatchesBodyStep ==
    ASSUME AdmissionTypeOK, FlowOK, NEW c \in Calls, HoldMatchesBody(c), [CallbackNext]_vars
    PROVE  HoldMatchesBody(c)'
<1>0. /\ phase \in [Calls -> Phases] /\ fin \in [Calls -> FinStates]
      /\ active \in [Calls -> BOOLEAN]
  BY DEF AdmissionTypeOK, FlowOK, ControlOK
<1>1. ASSUME phase'[c] = phase[c], fin'[c] = fin[c], active'[c] = active[c]
      PROVE  HoldMatchesBody(c)'
  BY <1>1 DEF HoldMatchesBody, Started
<1>2. ASSUME NEW d \in Calls, d # c,
             \/ Arrive(d) \/ Request(d) \/ RunCall(d) \/ FinalizeCall(d) \/ Sweep(d)
             \/ FreeSwitch(d) \/ Dispatch(d) \/ Worker(d) \/ ForceHangup(d)
      PROVE  HoldMatchesBody(c)'
  BY <1>1, <1>2, OtherHolds
<1>3. CASE Arrive(c) \/ Request(c) \/ FinalizeCall(c)
  BY <1>3, RequestKeepsHold, BodyKeepsHold
<1>4. CASE RunCall(c) \/ Sweep(c) \/ FreeSwitch(c) \/ Dispatch(c) \/ Worker(c) \/ ForceHangup(c)
  <2>1. phase' = phase
    BY <1>4, RunCallLeavesAdmission DEF admissionVars
  <2>2. active' = active /\ (fin' = fin \/ \E s : EnterFinalize(c, s))
    BY <1>4, RunCallInRegistry
  <2>3. ASSUME NEW s, EnterFinalize(c, s)
        PROVE  HoldMatchesBody(c)'
    BY <1>0, <2>1, <2>3 DEF EnterFinalize, HoldMatchesBody, Started
  <2>4. QED
    BY <1>1, <2>1, <2>2, <2>3
<1>5. CASE Restart
  <2>1. phase'[c] = IF phase[c] \in Terminal \cup {"idle"} THEN phase[c] ELSE "lost"
    BY <1>0, <1>5 DEF Restart, Crash, ProcessLost
  <2>2. fin'[c] = (IF fin[c] \in {"none", "done"} THEN fin[c] ELSE "lost") /\ ~active'[c]
    BY <1>5 DEF Restart
  <2>3. QED
    BY <2>1, <2>2 DEF HoldMatchesBody, Started, Terminal
<1>6. CASE (\E u \in Users : Account(u)) \/ Disconnect \/ Shutdown \/ Quiet \/ UNCHANGED vars
  <2>1. UNCHANGED <<phase, fin, active>>
    BY <1>6 DEF Account, AccountStep, Topup, Deduct, EvictSlots, Disconnect, Shutdown, Quiet,
       vars, flowVars, admissionVars
  <2>2. QED
    BY <1>1, <2>1
<1>7. QED
  BY <1>2, <1>3, <1>4, <1>5, <1>6 DEF CallbackNext

\* For any number of calls, and whichever of runCall and the disconnect sweep
\* comes to finalizeCall first: an open hold is always in activeCalls, where
\* both find it, and a body about to settle a hold or to give back a slot
\* finds it open.  A second settlement is not refused somewhere below
\* finalizeCall: none is ever asked for.
THEOREM OpenHoldInReachHolds == CallbackSpec => []OpenHoldInReach
<1>1. CallbackInit => \A c \in Calls : HoldMatchesBody(c)
  BY DEF CallbackInit, AdmissionInit, HoldMatchesBody, Started
<1>2. /\ AdmissionTypeOK /\ FlowOK /\ (\A c \in Calls : HoldMatchesBody(c)) /\ [CallbackNext]_vars
      => (\A c \in Calls : HoldMatchesBody(c))'
  BY HoldMatchesBodyStep
<1>3. MoneyInv /\ (\A c \in Calls : HoldMatchesBody(c)) => OpenHoldInReach
  <2> SUFFICES ASSUME MoneyInv, NEW c \in Calls, HoldMatchesBody(c)
               PROVE  /\ phase[c] = "running" <=> active[c] /\ fin[c] \in {"none", "bill"}
                      /\ fin[c] = "bill" => phase[c] = "running" /\ HoldOf(c) = "held"
                      /\ fin[c] = "slot" <=> phase[c] \in {"unslot", "unfloor"}
    BY DEF OpenHoldInReach
  <2>1. phase[c] = "running" => HoldOf(c) = "held"
    BY DEF MoneyInv, RowsMatchPhase, OpenPhases, HoldOf
  <2>2. QED
    BY <2>1 DEF HoldMatchesBody
<1>4. CallbackSpec => []MoneyInv
  BY CallbackImplementsAdmission, MoneyAlways, PTL
<1>5. QED
  BY <1>1, <1>2, <1>3, <1>4, FlowTypeAlways, PTL DEF CallbackSpec
=================================================================================
