----------------------------- MODULE CallFlowProofs -----------------------------
(***************************************************************************)
(* The legs of a call, its events and its reports, proved of Callback for  *)
(* any number of calls: the B leg is only placed for an answered A leg,    *)
(* eventCh drops nothing, the A leg is not left behind, an ended call      *)
(* stays ended and everything that tells of the end agrees.                *)
(***************************************************************************)
EXTENDS CallbackProofs

--------------------------------------------------------------------------------
(* The inductive invariant about the legs and the events of a call *)

BeforeB == {"none", "start", "origA", "ringA", "waitA"}
ToB == {"origB", "ringB", "waitB"}

\* The events of a call that runCall has not read.
Pending(c) == Range(wire[c]) \cup Range(ch[c])

\* How many more events a leg can cause: its answer and two hangups.
Ahead(s) == CASE s = "dialing" -> 3
              [] s = "up" -> 2
              [] OTHER -> 0

\* The events a call has under way or still to come, and the most there can
\* be of them while runCall is where it is.
Load(c) == Len(wire[c]) + Len(ch[c]) + Ahead(leg[c]["A"]) + Ahead(leg[c]["B"])
MaxLoad(p) == CASE p \in {"none", "start", "origA"} -> 0
                [] p \in {"ringA", "waitA"} -> 3
                [] p = "origB" -> 2
                [] OTHER -> 5

\* runCall dials the legs in order: until it has read A's answer there is no
\* B leg and no event but A's own.
DialOrder(c) ==
    /\ run[c] \in {"none", "start", "origA"} => leg[c]["A"] = "none"
    /\ run[c] \in BeforeB \cup {"origB"} => leg[c]["B"] = "none"
    /\ run[c] \in BeforeB => \A e \in Pending(c) : e.leg = "A" /\ e.name # "BRIDGE"
    /\ run[c] \in ToB \/ leg[c]["B"] # "none" => "A" \in mem[c].answered

\* Events tell the truth about the legs, and a bridge takes both legs down.
EventsTrue(c) ==
    /\ c \in joined => leg[c]["A"] = "up" /\ leg[c]["B"] = "up"
    /\ \A e \in Pending(c) : e.name = "HANGUP" => leg[c][e.leg] = "down"
    /\ mem[c].bridged \/ (\E e \in Pending(c) : e.name = "BRIDGE") =>
           c \in joined \/ (leg[c]["A"] = "down" /\ leg[c]["B"] = "down")

LegInv(c) == DialOrder(c) /\ EventsTrue(c) /\ Load(c) <= MaxLoad(run[c])
AllLegs == \A c \in Calls : LegInv(c)

\* What FlowOK says about one call
LEMMA OneCall ==
    ASSUME FlowOK, NEW c \in Calls
    PROVE  /\ run[c] \in RunStates
           /\ mem[c] \in CallRecord
           /\ leg[c] \in LegMap
           /\ wire[c] \in Seq(Event) /\ ch[c] \in Seq(Event)
           /\ Len(wire[c]) \in Nat /\ Len(ch[c]) \in Nat
           /\ \A e \in Pending(c) : e \in Event
<1>1. /\ run[c] \in RunStates
      /\ mem[c] \in CallRecord
      /\ leg[c] \in LegMap
      /\ wire[c] \in Seq(Event) /\ ch[c] \in Seq(Event)
  BY DEF FlowOK, ControlOK, RecordsOK, LegsOK
<1>2. /\ Len(wire[c]) \in Nat /\ Len(ch[c]) \in Nat
      /\ \A i \in DOMAIN wire[c] : wire[c][i] \in Event
      /\ \A i \in DOMAIN ch[c] : ch[c][i] \in Event
  BY <1>1, LenProperties, ElementOfSeq
<1>3. QED
  BY <1>1, <1>2 DEF Pending, Range

\* Ahead and MaxLoad are small numbers.
LEMMA AheadType == \A s : Ahead(s) \in 0..3
BY DEF Ahead
LEMMA MaxLoadType == \A p : MaxLoad(p) \in 0..5
BY DEF MaxLoad

\* The arithmetic of the bound: what a step adds to each part of the load may
\* be no more than what it adds to the bound.
LEMMA LoadStep ==
    ASSUME FlowOK, FlowOK', NEW c \in Calls, LegInv(c),
           Len(wire'[c]) + Len(ch'[c]) + Ahead(leg'[c]["A"]) + Ahead(leg'[c]["B"]) + MaxLoad(run[c])
           <= Len(wire[c]) + Len(ch[c]) + Ahead(leg[c]["A"]) + Ahead(leg[c]["B"]) + MaxLoad(run'[c])
    PROVE  Load(c)' <= MaxLoad(run'[c])
<1> DEFINE w == Len(wire[c])
           h == Len(ch[c])
           a == Ahead(leg[c]["A"])
           b == Ahead(leg[c]["B"])
           m == MaxLoad(run[c])
           w1 == Len(wire'[c])
           h1 == Len(ch'[c])
           a1 == Ahead(leg'[c]["A"])
           b1 == Ahead(leg'[c]["B"])
           m1 == MaxLoad(run'[c])
<1>1. w1 + h1 + a1 + b1 + m <= w + h + a + b + m1
  OBVIOUS
<1>2. a \in Nat /\ a1 \in Nat /\ b \in Nat /\ b1 \in Nat
  BY AheadType
<1>3. m \in Nat /\ m1 \in Nat
  BY MaxLoadType
<1>4. wire'[c] \in Seq(Event) /\ ch'[c] \in Seq(Event)
  BY DEF FlowOK, LegsOK
<1>5. w \in Nat /\ h \in Nat /\ w1 \in Nat /\ h1 \in Nat
  BY <1>4, LenProperties, OneCall
<1>6. w + h + a + b <= m
  BY DEF LegInv, Load
<1>7. Load(c)' = w1 + h1 + a1 + b1
  BY DEF Load, Ahead
<1> HIDE DEF w, h, a, b, m, w1, h1, a1, b1, m1
<1>8. w1 + h1 + a1 + b1 <= m1
  BY <1>1, <1>2, <1>3, <1>5, <1>6
<1>9. QED
  BY <1>7, <1>8 DEF m1

\* A step that only takes the call's legs down, takes events away and leaves
\* runCall where it is or at its end keeps the invariant.
LEMMA WindsDown ==
    ASSUME FlowOK, FlowOK', NEW c \in Calls, LegInv(c),
           run'[c] = run[c] \/ run'[c] \in {"finalize", "returned", "lost"},
           Pending(c)' \subseteq Pending(c),
           Len(wire'[c]) <= Len(wire[c]), Len(ch'[c]) <= Len(ch[c]),
           \A l \in Legs : leg'[c][l] = leg[c][l] \/ (leg[c][l] # "none" /\ leg'[c][l] = "down"),
           c \in joined' => c \in joined /\ leg'[c] = leg[c],
           c \in joined => c \in joined' \/ \A l \in Legs : leg'[c][l] = "down",
           mem[c].answered \subseteq mem'[c].answered,
           mem'[c].bridged = mem[c].bridged
    PROVE  LegInv(c)'
<1>0. /\ "A" \in Legs /\ "B" \in Legs /\ \A e \in Pending(c) : e.leg \in Legs
  BY OneCall DEF Legs, Event
<1>1. DialOrder(c)'
  BY <1>0 DEF LegInv, DialOrder, BeforeB, ToB
<1>2. EventsTrue(c)'
  <2>1. c \in joined' => leg'[c]["A"] = "up" /\ leg'[c]["B"] = "up"
    BY DEF LegInv, EventsTrue
  <2>2. \A e \in Pending(c)' : e.name = "HANGUP" => leg'[c][e.leg] = "down"
    BY <1>0 DEF LegInv, EventsTrue
  <2>3. mem'[c].bridged \/ (\E e \in Pending(c)' : e.name = "BRIDGE") =>
           c \in joined' \/ (leg'[c]["A"] = "down" /\ leg'[c]["B"] = "down")
    BY <1>0 DEF LegInv, EventsTrue
  <2>4. QED
    BY <2>1, <2>2, <2>3 DEF EventsTrue
<1>3. Load(c)' <= MaxLoad(run'[c])
  <2> DEFINE w == Len(wire[c])
             h == Len(ch[c])
             a == Ahead(leg[c]["A"])
             b == Ahead(leg[c]["B"])
             m == MaxLoad(run[c])
             w1 == Len(wire'[c])
             h1 == Len(ch'[c])
             a1 == Ahead(leg'[c]["A"])
             b1 == Ahead(leg'[c]["B"])
             m1 == MaxLoad(run'[c])
  <2>1. \A l \in Legs : Ahead(leg'[c][l]) <= Ahead(leg[c][l])
    BY DEF Ahead
  <2>2. a \in Nat /\ a1 \in Nat /\ b \in Nat /\ b1 \in Nat /\ a1 <= a /\ b1 <= b
    BY <1>0, <2>1, AheadType
  <2>3. m \in Nat /\ m1 \in Nat /\ m <= m1
    <3>1. CASE run'[c] = run[c]
      BY <3>1, MaxLoadType
    <3>2. CASE run'[c] \in {"finalize", "returned", "lost"}
      <4>1. MaxLoad(run'[c]) = 5
        BY <3>2 DEF MaxLoad
      <4>2. QED
        BY <4>1, MaxLoadType
    <3>3. QED
      BY <3>1, <3>2
  <2>4. wire'[c] \in Seq(Event) /\ ch'[c] \in Seq(Event)
    BY DEF FlowOK, LegsOK
  <2>5. w \in Nat /\ h \in Nat /\ w1 \in Nat /\ h1 \in Nat /\ w1 <= w /\ h1 <= h
    BY <2>4, LenProperties, OneCall
  <2> HIDE DEF w, h, a, b, m, w1, h1, a1, b1, m1
  <2>6. w1 + h1 + a1 + b1 + m <= w + h + a + b + m1
    BY <2>2, <2>3, <2>5
  <2>7. QED
    BY <2>6, LoadStep DEF w, h, a, b, m, w1, h1, a1, b1, m1
<1>4. QED
  BY <1>1, <1>2, <1>3 DEF LegInv

--------------------------------------------------------------------------------
(* A goroutine exists only for a launched call *)

Launched == {"running", "unslot", "unfloor", "settled", "lost"}

LaunchOrder ==
    \A c \in Calls :
        /\ run[c] # "none" => phase[c] \in Launched
        /\ active[c] \/ fin[c] # "none" => run[c] # "none"

\* A launched call is never a request again.
LEMMA LaunchedStays ==
    ASSUME AdmissionTypeOK, [AdmissionNext]_admissionVars, NEW c \in Calls, phase[c] \in Launched
    PROVE  phase'[c] \in Launched
<1> USE DEF Goto, Launched
<1>0. phase \in [Calls -> Phases]
  BY DEF AdmissionTypeOK
<1>1. ASSUME NEW d \in Calls, RequestStep(d)
      PROVE  \/ phase' = phase
             \/ /\ phase[d] \notin Launched
                /\ \E p \in Phases : phase' = [phase EXCEPT ![d] = p]
  BY <1>1 DEF RequestStep, Refuse, PreDeduct, AcquireSlot, AcquireSlotFails, RollbackSlot,
     Launch, RouteFails, ReleaseSlot, FloorSlot, Refund, ClientGone, Phases
<1>2. ASSUME NEW d \in Calls, FinalizeStep(d)
      PROVE  \E p \in Launched : phase' = [phase EXCEPT ![d] = p]
  BY <1>2 DEF FinalizeStep, Settle, SettleFails, Unslot, Unfloor
<1>3. ASSUME NEW u \in Users, AccountStep(u)
      PROVE  phase' = phase
  BY <1>3 DEF AccountStep, Topup, Deduct, EvictSlots
<1>4. CASE Crash
  BY <1>0, <1>4 DEF Crash, ProcessLost, Terminal
<1>5. CASE AllDone \/ UNCHANGED admissionVars
  BY <1>5 DEF AllDone, admissionVars
<1>6. QED
  BY <1>0, <1>1, <1>2, <1>3, <1>4, <1>5 DEF AdmissionNext

\* Only LaunchCall starts the goroutine of a call, and only a goroutine that
\* was started moves.
LEMMA LaunchStarts ==
    ASSUME FlowOK, [CallbackNext]_vars, NEW c \in Calls
    PROVE  /\ run[c] = "none" /\ run'[c] # "none" => LaunchCall(c)
           /\ run[c] # "none" => run'[c] # "none"
           /\ LaunchCall(c) \/ (active'[c] => active[c])
           /\ fin[c] = "none" /\ fin'[c] # "none" => active[c]
<1> USE DEF RunTo, Finish
<1>0. /\ run \in [Calls -> RunStates] /\ fin \in [Calls -> FinStates]
      /\ active \in [Calls -> BOOLEAN]
  BY DEF FlowOK, ControlOK
<1> DEFINE Goal == /\ run[c] = "none" /\ run'[c] # "none" => LaunchCall(c)
                   /\ run[c] # "none" => run'[c] # "none"
                   /\ LaunchCall(c) \/ (active'[c] => active[c])
                   /\ fin[c] = "none" /\ fin'[c] # "none" => active[c]
<1>1. ASSUME NEW d \in Calls, RunCall(d) \/ Sweep(d)
      PROVE  /\ active' = active
             /\ run' = run \/ \E p \in RunStates \ {"none"} : run[d] # "none" /\ run' = [run EXCEPT ![d] = p]
             /\ fin' = fin \/ (active[d] /\ \E p : fin' = [fin EXCEPT ![d] = p])
  BY <1>1 DEF RunCall, Start, OriginateALeg, OriginateBLeg, Originate, ALegOriginated,
     BLegOriginated, Originated, ALegFails, BLegFails, WaitAEvent, ParkTimeout, CancelledA,
     WaitAEnds, BAnswered, TakeEvent, Bridged, LegHungUp, MaxDuration, CancelledB, WaitBEnds,
     OriginateError, RunFinalizes, EnterFinalize, RunReturns, Sweep, SweepFinalizes,
     SweepMovesOn, RunStates
<1>2. ASSUME NEW d \in Calls, RunCall(d) \/ Sweep(d)
      PROVE  Goal
  BY <1>0, <1>1, <1>2
<1>3. ASSUME NEW d \in Calls, FinalizeCall(d)
      PROVE  Goal
  BY <1>0, <1>3 DEF FinalizeCall, FinalizeBilling, FinalizeSlot, FinalizePublish, FinalizePersist,
     FinalizeNotify
<1>4. ASSUME NEW d \in Calls, LaunchCall(d)
      PROVE  Goal
  <2>1. CASE d = c
    BY <1>0, <1>4, <2>1 DEF LaunchCall
  <2>2. CASE d # c
    BY <1>0, <1>4, <2>2 DEF LaunchCall
  <2>3. QED
    BY <2>1, <2>2
<1>5. ASSUME NEW d \in Calls, Arrive(d) \/ Request(d)
      PROVE  Goal
  BY <1>4, <1>5 DEF Arrive, Request, flowVars
<1>6. ASSUME NEW d \in Calls, FreeSwitch(d) \/ Dispatch(d) \/ Worker(d) \/ ForceHangup(d)
      PROVE  Goal
  BY <1>6 DEF FreeSwitch, LegAnswers, LegHangsUp, Dispatch, Worker, MergeDone, MergeFails,
     ForceHangup
<1>7. CASE (\E u \in Users : Account(u)) \/ Disconnect \/ Shutdown \/ Quiet \/ UNCHANGED vars
  BY <1>7 DEF Account, Disconnect, Shutdown, Quiet, vars, flowVars
<1>8. CASE Restart
  BY <1>0, <1>8 DEF Restart
<1> HIDE DEF Goal
<1>9. Goal
  BY <1>2, <1>3, <1>5, <1>6, <1>7, <1>8 DEF CallbackNext, Goal
<1>10. QED
  BY <1>9 DEF Goal

LEMMA LaunchOrderAlways == CallbackSpec => []LaunchOrder
<1>1. CallbackInit => LaunchOrder
  BY DEF CallbackInit, LaunchOrder
<1>2. ASSUME AdmissionTypeOK, FlowOK, LaunchOrder, [CallbackNext]_vars
      PROVE  LaunchOrder'
  <2>1. [AdmissionNext]_admissionVars
    BY <1>2, CallbackStepImplementsAdmission
  <2>2. ASSUME NEW c \in Calls
        PROVE  run'[c] # "none" => phase'[c] \in Launched
    <3>1. LaunchCall(c) => phase'[c] = "running"
      BY <1>2 DEF LaunchCall, Launch, Goto, AdmissionTypeOK
    <3>2. QED
      BY <1>2, <2>1, <3>1, LaunchStarts, LaunchedStays DEF LaunchOrder, Launched
  <2>3. ASSUME NEW c \in Calls
        PROVE  active'[c] \/ fin'[c] # "none" => run'[c] # "none"
    <3>1. LaunchCall(c) => run'[c] = "start"
      BY <1>2 DEF LaunchCall, RunTo, FlowOK, ControlOK
    <3>2. QED
      BY <1>2, <3>1, LaunchStarts DEF LaunchOrder
  <2>4. QED
    BY <2>2, <2>3 DEF LaunchOrder
<1>3. QED
  BY <1>1, <1>2, FlowTypeAlways, PTL DEF CallbackSpec

--------------------------------------------------------------------------------
(* The steps that keep the invariant about legs and events *)

\* Hanging up takes legs down and nothing else.
LEMMA HangupFacts ==
    ASSUME FlowOK, NEW c \in Calls, NEW legs \in SUBSET Legs, Hangup(c, legs)
    PROVE  /\ \A l \in Legs : leg'[c][l] = leg[c][l] \/ (leg[c][l] # "none" /\ leg'[c][l] = "down")
           /\ c \in joined' => c \in joined /\ leg'[c] = leg[c]
           /\ c \in joined => c \in joined' \/ \A l \in Legs : leg'[c][l] \in {"none", "down"}
           /\ conn => \A l \in legs : leg'[c][l] \in {"none", "down"}
           /\ \A d \in Calls \ {c} : leg'[d] = leg[d] /\ (d \in joined' <=> d \in joined)
<1> DEFINE dead == IF c \in joined THEN Legs ELSE legs
           m == [l \in Legs |-> IF l \in dead /\ leg[c][l] # "none" THEN "down" ELSE leg[c][l]]
<1>1. leg \in [Calls -> LegMap]
  BY DEF FlowOK, LegsOK
<1>2. CASE ~conn \/ legs = {}
  <2>1. leg' = leg /\ joined' = joined
    BY <1>2 DEF Hangup
  <2>2. QED
    BY <1>2, <2>1
<1>3. CASE conn /\ legs # {}
  <2>1. leg' = [leg EXCEPT ![c] = m] /\ joined' = joined \ {c}
    BY <1>3 DEF Hangup
  <2>2. leg'[c] = m /\ \A d \in Calls \ {c} : leg'[d] = leg[d]
    BY <1>1, <2>1
  <2>3. \A l \in Legs : leg'[c][l] = IF l \in dead /\ leg[c][l] # "none" THEN "down"
                                     ELSE leg[c][l]
    BY <2>2
  <2>4. \A l \in Legs : l \in dead => leg'[c][l] \in {"none", "down"}
    BY <2>3
  <2>5. (c \in joined => \A l \in Legs : l \in dead) /\ \A l \in legs : l \in dead /\ l \in Legs
    OBVIOUS
  <2> HIDE DEF dead, m
  <2>6. QED
    BY <2>1, <2>2, <2>3, <2>4, <2>5
<1>4. QED
  BY <1>2, <1>3

\* The legs of a bridged call are up, so all that is left of them is down.
LEMMA WindsDownByHangup ==
    ASSUME FlowOK, FlowOK', NEW c \in Calls, LegInv(c), NEW legs \in SUBSET Legs, Hangup(c, legs),
           run'[c] = run[c] \/ run'[c] \in {"finalize", "returned", "lost"},
           Pending(c)' \subseteq Pending(c),
           Len(wire'[c]) <= Len(wire[c]), Len(ch'[c]) <= Len(ch[c]),
           mem[c].answered \subseteq mem'[c].answered,
           mem'[c].bridged = mem[c].bridged
    PROVE  LegInv(c)'
<1>1. c \in joined => \A l \in Legs : leg[c][l] = "up"
  BY DEF LegInv, EventsTrue, Legs
<1>2. c \in joined => c \in joined' \/ \A l \in Legs : leg'[c][l] = "down"
  BY <1>1, HangupFacts
<1>3. QED
  BY <1>2, HangupFacts, WindsDown

\* Pending in the next state
LEMMA PendingNext ==
    ASSUME NEW c \in Calls
    PROVE  Pending(c)' = Range(wire'[c]) \cup Range(ch'[c])
BY DEF Pending, Range

\* Reading an event
LEMMA TakeFacts ==
    ASSUME FlowOK, NEW c \in Calls, ch[c] # <<>>, ch' = [ch EXCEPT ![c] = Tail(@)]
    PROVE  /\ Len(ch'[c]) = Len(ch[c]) - 1
           /\ Len(ch[c]) \in Nat \ {0}
           /\ Range(ch'[c]) \subseteq Range(ch[c])
           /\ Head(ch[c]) \in Pending(c)
           /\ \A d \in Calls \ {c} : ch'[d] = ch[d]
<1>1. ch \in [Calls -> Seq(Event)] /\ ch[c] \in Seq(Event)
  BY DEF FlowOK, LegsOK
<1>2. ch'[c] = Tail(ch[c]) /\ \A d \in Calls \ {c} : ch'[d] = ch[d]
  BY <1>1
<1>3. Len(ch[c]) \in Nat \ {0}
  BY <1>1, LenProperties, EmptySeq
<1>4. /\ Len(ch'[c]) = Len(ch[c]) - 1
      /\ Range(ch'[c]) \subseteq Range(ch[c])
      /\ Head(ch[c]) \in Range(ch[c])
  BY <1>1, <1>2, TailFacts
<1>5. QED
  BY <1>2, <1>3, <1>4 DEF Pending

\* The steps of runCall that end it
LEMMA LegsAtEnd ==
    ASSUME FlowOK, FlowOK', NEW c \in Calls, LegInv(c),
           \/ ALegFails(c) \/ BLegFails(c) \/ WaitAEnds(c) \/ LegHungUp(c)
           \/ MaxDuration(c) \/ CancelledB(c)
    PROVE  LegInv(c)'
<1>0. /\ run \in [Calls -> RunStates] /\ {"A"} \in SUBSET Legs /\ Legs \in SUBSET Legs
      /\ Len(wire[c]) \in Nat /\ Len(ch[c]) \in Nat
  BY OneCall DEF FlowOK, ControlOK, Legs
<1>1. CASE ALegFails(c)
  <2>1. run'[c] = "finalize" /\ UNCHANGED <<mem, leg, joined, wire, ch>>
    BY <1>0, <1>1 DEF ALegFails, Finish, RunTo
  <2>2. Pending(c)' = Pending(c)
    BY <2>1 DEF Pending
  <2>3. QED
    BY <1>0, <2>1, <2>2, WindsDown
<1>2. CASE BLegFails(c) \/ WaitAEnds(c)
  <2>1. run'[c] = "finalize" /\ Hangup(c, {"A"}) /\ UNCHANGED <<mem, wire, ch>>
    BY <1>0, <1>2 DEF BLegFails, WaitAEnds, Finish, RunTo
  <2>2. Pending(c)' = Pending(c)
    BY <2>1 DEF Pending
  <2>3. QED
    BY <1>0, <2>1, <2>2, WindsDownByHangup
<1>3. CASE MaxDuration(c) \/ CancelledB(c)
  <2>1. run'[c] = "finalize" /\ Hangup(c, Legs) /\ UNCHANGED <<mem, wire, ch>>
    BY <1>0, <1>3 DEF MaxDuration, CancelledB, WaitBEnds, Finish, RunTo
  <2>2. Pending(c)' = Pending(c)
    BY <2>1 DEF Pending
  <2>3. QED
    BY <1>0, <2>1, <2>2, WindsDownByHangup
<1>4. CASE LegHungUp(c)
  <2>1. /\ run'[c] = "finalize" /\ UNCHANGED <<mem, wire>>
        /\ ch[c] # <<>> /\ ch' = [ch EXCEPT ![c] = Tail(@)]
        /\ UNCHANGED <<leg, joined>> \/ Hangup(c, {"A"})
    BY <1>0, <1>4 DEF LegHungUp, TakeEvent, Finish, RunTo
  <2>2. Pending(c)' \subseteq Pending(c) /\ Len(ch'[c]) <= Len(ch[c])
    <3>1. Range(ch'[c]) \subseteq Range(ch[c]) /\ Len(ch'[c]) = Len(ch[c]) - 1
      BY <2>1, TakeFacts
    <3>2. Pending(c)' \subseteq Pending(c)
      BY <2>1, <3>1, PendingNext DEF Pending
    <3>3. QED
      BY <1>0, <3>1, <3>2
  <2>3. CASE Hangup(c, {"A"})
    BY <1>0, <2>1, <2>2, <2>3, WindsDownByHangup
  <2>4. CASE UNCHANGED <<leg, joined>>
    BY <1>0, <2>1, <2>2, <2>4, WindsDown
  <2>5. QED
    BY <2>1, <2>3, <2>4
<1>5. QED
  BY <1>1, <1>2, <1>3, <1>4

\* The steps of runCall that dial
LEMMA LegsDialled ==
    ASSUME FlowOK, FlowOK', NEW c \in Calls, LegInv(c),
           \/ LaunchCall(c) /\ run[c] = "none"
           \/ Start(c) \/ OriginateALeg(c) \/ ALegOriginated(c) \/ OriginateBLeg(c) \/ BLegOriginated(c)
    PROVE  LegInv(c)'
<1>0. /\ run \in [Calls -> RunStates] /\ mem[c] \in CallRecord /\ mem \in [Calls -> CallRecord]
      /\ leg \in [Calls -> LegMap] /\ leg[c] \in LegMap
      /\ Len(wire[c]) \in Nat /\ Len(ch[c]) \in Nat
      /\ "A" \in Legs /\ "B" \in Legs /\ "A" # "B"
  BY OneCall DEF FlowOK, ControlOK, RecordsOK, LegsOK, Legs
<1>1. ASSUME UNCHANGED <<leg, joined, wire, ch>>,
             mem'[c].answered = mem[c].answered, mem'[c].bridged = mem[c].bridged,
             \/ run[c] = "none" /\ run'[c] = "start"
             \/ run[c] = "start" /\ run'[c] = "origA"
             \/ run[c] = "ringA" /\ run'[c] = "waitA"
             \/ run[c] = "ringB" /\ run'[c] = "waitB"
      PROVE  LegInv(c)'
  <2>1. Pending(c)' = Pending(c) /\ Load(c)' = Load(c)
    BY <1>1 DEF Pending, Load, Range, Ahead
  <2>2. MaxLoad(run'[c]) = MaxLoad(run[c])
    BY <1>1 DEF MaxLoad
  <2>3. Load(c)' <= MaxLoad(run'[c])
    BY <2>1, <2>2 DEF LegInv
  <2>4. DialOrder(c)'
    BY <1>1, <2>1 DEF LegInv, DialOrder, BeforeB, ToB
  <2>5. EventsTrue(c)'
    BY <1>1, <2>1 DEF LegInv, EventsTrue
  <2>6. QED
    BY <2>3, <2>4, <2>5 DEF LegInv
<1>2. CASE LaunchCall(c) /\ run[c] = "none"
  BY <1>0, <1>1, <1>2 DEF LaunchCall, RunTo
<1>3. CASE Start(c)
  <2>1. CASE run'[c] = "origA"
    BY <1>0, <1>1, <1>3, <2>1 DEF Start
  <2>2. CASE run'[c] = "returned"
    <3>1. UNCHANGED <<mem, leg, joined, wire, ch>>
      BY <1>3 DEF Start
    <3>2. Pending(c)' = Pending(c)
      BY <3>1 DEF Pending
    <3>3. QED
      BY <1>0, <2>2, <3>1, <3>2, WindsDown
  <2>3. QED
    BY <1>0, <1>3, <2>1, <2>2 DEF Start, RunTo
<1>4. CASE ALegOriginated(c) \/ BLegOriginated(c)
  <2>1. /\ UNCHANGED <<leg, joined, wire, ch>>
        /\ \/ run[c] = "ringA" /\ run'[c] = "waitA"
           \/ run[c] = "ringB" /\ run'[c] = "waitB"
    BY <1>0, <1>4 DEF ALegOriginated, BLegOriginated, Originated, RunTo
  <2>2. ASSUME NEW l, NEW s, SetStatus(c, s, [mem[c] EXCEPT !.uuids = @ \cup {l}])
        PROVE  mem'[c].answered = mem[c].answered /\ mem'[c].bridged = mem[c].bridged
    BY <1>0, <2>2 DEF CallRecord, SetStatus
  <2>3. mem'[c].answered = mem[c].answered /\ mem'[c].bridged = mem[c].bridged
    BY <1>4, <2>2 DEF ALegOriginated, BLegOriginated, Originated
  <2>4. QED
    BY <1>1, <2>1, <2>3
<1>5. CASE OriginateALeg(c)
  <2>1. /\ run[c] = "origA" /\ run'[c] = "ringA" /\ UNCHANGED <<mem, joined, wire, ch>>
        /\ leg' = [leg EXCEPT ![c]["A"] = "dialing"]
    BY <1>0, <1>5 DEF OriginateALeg, Originate, RunTo
  <2>2. leg'[c]["A"] = "dialing" /\ leg'[c]["B"] = leg[c]["B"]
    BY <1>0, <2>1 DEF LegMap
  <2>3. leg[c]["A"] = "none" /\ leg[c]["B"] = "none" /\ c \notin joined
    BY <2>1 DEF LegInv, DialOrder, EventsTrue, BeforeB
  <2>4. Pending(c)' = Pending(c)
    BY <2>1 DEF Pending
  <2>5. DialOrder(c)'
    BY <2>1, <2>2, <2>3, <2>4 DEF LegInv, DialOrder, BeforeB, ToB
  <2>6. EventsTrue(c)'
    <3>1. \A e \in Pending(c) : e.name # "HANGUP"
      BY <2>1, <2>3 DEF LegInv, DialOrder, EventsTrue, BeforeB
    <3>2. ~mem[c].bridged /\ \A e \in Pending(c) : e.name # "BRIDGE"
      BY <2>3 DEF LegInv, EventsTrue
    <3>3. QED
      BY <2>1, <2>3, <2>4, <3>1, <3>2 DEF EventsTrue
  <2>7. Load(c)' <= MaxLoad(run'[c])
    <3>1. /\ Ahead(leg'[c]["A"]) = 3 /\ Ahead(leg'[c]["B"]) = 0
          /\ Ahead(leg[c]["A"]) = 0 /\ Ahead(leg[c]["B"]) = 0
      BY <2>2, <2>3 DEF Ahead
    <3>2. MaxLoad(run[c]) = 0 /\ MaxLoad(run'[c]) = 3
      BY <2>1 DEF MaxLoad
    <3>3. Len(wire'[c]) = Len(wire[c]) /\ Len(ch'[c]) = Len(ch[c])
      BY <2>1
    <3>4. Len(wire'[c]) + Len(ch'[c]) + Ahead(leg'[c]["A"]) + Ahead(leg'[c]["B"]) + MaxLoad(run[c])
          <= Len(wire[c]) + Len(ch[c]) + Ahead(leg[c]["A"]) + Ahead(leg[c]["B"]) + MaxLoad(run'[c])
      BY <1>0, <3>1, <3>2, <3>3
    <3>5. QED
      BY <3>4, LoadStep
  <2>8. QED
    BY <2>5, <2>6, <2>7 DEF LegInv
<1>6. CASE OriginateBLeg(c)
  <2>1. /\ run[c] = "origB" /\ run'[c] = "ringB" /\ UNCHANGED <<mem, joined, wire, ch>>
        /\ leg' = [leg EXCEPT ![c]["B"] = "dialing"]
    BY <1>0, <1>6 DEF OriginateBLeg, Originate, RunTo
  <2>2. leg'[c]["B"] = "dialing" /\ leg'[c]["A"] = leg[c]["A"]
    BY <1>0, <2>1 DEF LegMap
  <2>3. leg[c]["B"] = "none" /\ c \notin joined /\ "A" \in mem[c].answered
    BY <2>1 DEF LegInv, DialOrder, EventsTrue, BeforeB, ToB
  <2>4. Pending(c)' = Pending(c)
    BY <2>1 DEF Pending
  <2>5. DialOrder(c)'
    BY <2>1, <2>2, <2>3, <2>4 DEF DialOrder, BeforeB, ToB
  <2>6. EventsTrue(c)'
    <3>1. \A e \in Pending(c) : e.name = "HANGUP" => e.leg = "A" /\ leg[c]["A"] = "down"
      <4>1. \A e \in Pending(c) : e.leg \in {"A", "B"}
        BY OneCall DEF Event, Legs
      <4>2. QED
        BY <2>3, <4>1 DEF LegInv, EventsTrue
    <3>2. ~mem[c].bridged /\ \A e \in Pending(c) : e.name # "BRIDGE"
      BY <2>3 DEF LegInv, EventsTrue
    <3>3. QED
      BY <2>1, <2>2, <2>3, <2>4, <3>1, <3>2 DEF EventsTrue
  <2>7. Load(c)' <= MaxLoad(run'[c])
    <3> DEFINE a == Ahead(leg[c]["A"])
               w == Len(wire[c])
               h == Len(ch[c])
    <3>1. /\ Ahead(leg'[c]["B"]) = 3 /\ Ahead(leg[c]["B"]) = 0
          /\ Ahead(leg'[c]["A"]) = a /\ a \in Nat
      BY <2>2, <2>3, AheadType DEF Ahead
    <3>2. MaxLoad(run[c]) = 2 /\ MaxLoad(run'[c]) = 5
      BY <2>1 DEF MaxLoad
    <3>3. Len(wire'[c]) = w /\ Len(ch'[c]) = h /\ w \in Nat /\ h \in Nat
      BY <1>0, <2>1
    <3> HIDE DEF a, w, h
    <3>4. w + h + a + 3 + 2 <= w + h + a + 0 + 5
      BY <3>1, <3>3
    <3>5. Len(wire'[c]) + Len(ch'[c]) + Ahead(leg'[c]["A"]) + Ahead(leg'[c]["B"]) + MaxLoad(run[c])
          <= Len(wire[c]) + Len(ch[c]) + Ahead(leg[c]["A"]) + Ahead(leg[c]["B"]) + MaxLoad(run'[c])
      BY <3>1, <3>2, <3>3, <3>4 DEF a, w, h
    <3>6. QED
      BY <3>5, LoadStep
  <2>8. QED
    BY <2>5, <2>6, <2>7 DEF LegInv
<1>7. QED
  BY <1>2, <1>3, <1>4, <1>5, <1>6

\* The first select: the event is A's, so its answer leads on to the B leg and
\* its hangup to the end.
LEMMA LegsAfterWaitA ==
    ASSUME FlowOK, FlowOK', NEW c \in Calls, LegInv(c), WaitAEvent(c)
    PROVE  LegInv(c)'
<1> DEFINE e == Head(ch[c])
<1>0. /\ run \in [Calls -> RunStates] /\ mem[c] \in CallRecord /\ mem \in [Calls -> CallRecord]
      /\ Len(wire[c]) \in Nat /\ Len(ch[c]) \in Nat
      /\ \A x \in Pending(c) : x \in Event
  BY OneCall DEF FlowOK, ControlOK, RecordsOK
<1>1. /\ run[c] = "waitA" /\ ch[c] # <<>> /\ ch' = [ch EXCEPT ![c] = Tail(@)]
      /\ UNCHANGED <<leg, joined, wire>>
  BY DEF WaitAEvent
<1>2. /\ Range(ch'[c]) \subseteq Range(ch[c]) /\ Len(ch'[c]) = Len(ch[c]) - 1
      /\ Len(ch[c]) \in Nat \ {0} /\ e \in Pending(c)
  BY <1>1, TakeFacts
<1>3. Pending(c)' \subseteq Pending(c)
  BY <1>1, <1>2, PendingNext DEF Pending
<1>4. e \in Event /\ e.leg = "A" /\ e.name # "BRIDGE"
  BY <1>0, <1>1, <1>2 DEF LegInv, DialOrder, BeforeB
<1>5. CASE e.name = "HANGUP"
  <2>1. run'[c] = "finalize" /\ UNCHANGED mem
    BY <1>0, <1>5 DEF WaitAEvent, Finish, RunTo
  <2>2. Len(ch'[c]) <= Len(ch[c]) /\ Len(wire'[c]) <= Len(wire[c])
    BY <1>0, <1>1, <1>2
  <2>3. QED
    BY <1>1, <1>3, <2>1, <2>2, WindsDown
<1>6. CASE e.name # "HANGUP"
  <2>1. e = [name |-> "ANSWER", leg |-> "A"]
    BY <1>4, <1>6 DEF Event
  <2>2. /\ run'[c] = "origB"
        /\ SetStatus(c, "a_connected", [mem[c] EXCEPT !.answered = @ \cup {"A"}])
    BY <1>0, <1>6, <2>1 DEF WaitAEvent, RunTo
  <2>3. "A" \in mem'[c].answered /\ mem'[c].bridged = mem[c].bridged
    BY <1>0, <2>2 DEF SetStatus, CallRecord
  <2>4. leg[c]["B"] = "none"
    BY <1>1 DEF LegInv, DialOrder, BeforeB
  <2>5. DialOrder(c)'
    BY <1>1, <2>2, <2>3, <2>4 DEF DialOrder, BeforeB, ToB
  <2>6. EventsTrue(c)'
    BY <1>1, <1>3, <2>3 DEF LegInv, EventsTrue
  <2>7. Load(c)' <= MaxLoad(run'[c])
    <3> DEFINE a == Ahead(leg[c]["A"])
               b == Ahead(leg[c]["B"])
               w == Len(wire[c])
               h == Len(ch[c])
    <3>1. /\ Ahead(leg'[c]["A"]) = a /\ Ahead(leg'[c]["B"]) = b /\ a \in Nat /\ b \in Nat
      BY <1>1, AheadType
    <3>2. MaxLoad(run[c]) = 3 /\ MaxLoad(run'[c]) = 2
      BY <1>1, <2>2 DEF MaxLoad
    <3>3. Len(wire'[c]) = w /\ Len(ch'[c]) = h - 1 /\ w \in Nat /\ h \in Nat
      BY <1>0, <1>1, <1>2
    <3> HIDE DEF a, b, w, h
    <3>4. w + (h - 1) + a + b + 3 <= w + h + a + b + 2
      BY <3>1, <3>3
    <3>5. Len(wire'[c]) + Len(ch'[c]) + Ahead(leg'[c]["A"]) + Ahead(leg'[c]["B"]) + MaxLoad(run[c])
          <= Len(wire[c]) + Len(ch[c]) + Ahead(leg[c]["A"]) + Ahead(leg[c]["B"]) + MaxLoad(run'[c])
      BY <3>1, <3>2, <3>3, <3>4 DEF a, b, w, h
    <3>6. QED
      BY <3>5, LoadStep
  <2>8. QED
    BY <2>5, <2>6, <2>7 DEF LegInv
<1>7. QED
  BY <1>5, <1>6

\* The second select: B's answer and the bridge
LEMMA LegsAfterWaitB ==
    ASSUME FlowOK, FlowOK', NEW c \in Calls, LegInv(c), BAnswered(c) \/ Bridged(c)
    PROVE  LegInv(c)'
<1> DEFINE e == Head(ch[c])
           bridge == [name |-> "BRIDGE", leg |-> "A"]
           a == Ahead(leg[c]["A"])
           b == Ahead(leg[c]["B"])
           w == Len(wire[c])
           h == Len(ch[c])
           m == MaxLoad(run[c])
<1>0. /\ run \in [Calls -> RunStates] /\ mem[c] \in CallRecord /\ mem \in [Calls -> CallRecord]
      /\ wire \in [Calls -> Seq(Event)] /\ wire[c] \in Seq(Event) /\ bridge \in Event
      /\ w \in Nat /\ h \in Nat /\ Legs \in SUBSET Legs
  BY OneCall DEF FlowOK, ControlOK, RecordsOK, LegsOK, Event, Legs
<1>1. run[c] = "waitB" /\ ch[c] # <<>> /\ ch' = [ch EXCEPT ![c] = Tail(@)]
  BY DEF BAnswered, Bridged, TakeEvent
<1>2. /\ Range(ch'[c]) \subseteq Range(ch[c]) /\ Len(ch'[c]) = h - 1
      /\ e \in Pending(c)
  BY <1>1, TakeFacts
<1>3. a \in Nat /\ b \in Nat /\ m \in Nat
  BY AheadType, MaxLoadType
<1>4. CASE BAnswered(c) /\ joined' = joined \cup {c} /\ UNCHANGED <<run, leg>> /\ BothUp(c)
           /\ wire' = [wire EXCEPT ![c] = Append(@, bridge)]
  <2>1. mem'[c].answered = mem[c].answered \cup {"B"} /\ mem'[c].bridged = mem[c].bridged
    BY <1>0, <1>4 DEF BAnswered, SetStatus, CallRecord
  <2>2. leg[c]["A"] = "up" /\ leg[c]["B"] = "up"
    BY <1>4 DEF BothUp, Legs
  <2>3. wire'[c] = Append(wire[c], bridge)
    BY <1>0, <1>4
  <2>4. Range(wire'[c]) = Range(wire[c]) \cup {bridge} /\ Len(wire'[c]) = w + 1
    BY <1>0, <2>3, AppendFacts
  <2>5. \A x \in Pending(c)' : x \in Pending(c) \/ x.name = "BRIDGE"
    BY <1>2, <2>4, PendingNext DEF Pending
  <2>6. DialOrder(c)'
    BY <1>1, <1>4, <2>1 DEF LegInv, DialOrder, BeforeB, ToB
  <2>7. EventsTrue(c)'
    BY <1>4, <2>2, <2>5 DEF LegInv, EventsTrue
  <2>8. Load(c)' <= MaxLoad(run'[c])
    <3>1. /\ Ahead(leg'[c]["A"]) = a /\ Ahead(leg'[c]["B"]) = b /\ MaxLoad(run'[c]) = m
      BY <1>4
    <3> HIDE DEF a, b, w, h, m
    <3>2. (w + 1) + (h - 1) + a + b + m <= w + h + a + b + m
      BY <1>0, <1>3
    <3>3. Len(wire'[c]) + Len(ch'[c]) + Ahead(leg'[c]["A"]) + Ahead(leg'[c]["B"]) + MaxLoad(run[c])
          <= Len(wire[c]) + Len(ch[c]) + Ahead(leg[c]["A"]) + Ahead(leg[c]["B"]) + MaxLoad(run'[c])
      BY <1>2, <2>4, <3>1, <3>2 DEF a, b, w, h, m
    <3>4. QED
      BY <3>3, LoadStep
  <2>9. QED
    BY <2>6, <2>7, <2>8 DEF LegInv
<1>5. CASE BAnswered(c) /\ Hangup(c, Legs) /\ Finish(c, "failed") /\ UNCHANGED wire
  <2>1. mem[c].answered \subseteq mem'[c].answered /\ mem'[c].bridged = mem[c].bridged
    BY <1>0, <1>5 DEF BAnswered, SetStatus, CallRecord
  <2>2. run'[c] = "finalize"
    BY <1>0, <1>5 DEF Finish, RunTo
  <2>3. Pending(c)' \subseteq Pending(c)
    BY <1>2, <1>5, PendingNext DEF Pending
  <2>4. Len(wire'[c]) <= Len(wire[c]) /\ Len(ch'[c]) <= Len(ch[c])
    BY <1>0, <1>2, <1>5
  <2>5. QED
    BY <1>0, <1>5, <2>1, <2>2, <2>3, <2>4, WindsDownByHangup
<1>6. CASE Bridged(c)
  <2>1. /\ UNCHANGED <<run, leg, joined, wire>> /\ e.name = "BRIDGE"
        /\ SetStatus(c, "bridged", [mem[c] EXCEPT !.bridged = TRUE, !.rec = "recording"])
    BY <1>6 DEF Bridged, TakeEvent
  <2>2. mem'[c].answered = mem[c].answered
    BY <1>0, <2>1 DEF SetStatus, CallRecord
  <2>3. Pending(c)' \subseteq Pending(c)
    BY <1>2, <2>1, PendingNext DEF Pending
  <2>4. DialOrder(c)'
    BY <1>1, <2>1, <2>2 DEF LegInv, DialOrder, BeforeB, ToB
  <2>5. EventsTrue(c)'
    BY <1>2, <2>1, <2>3 DEF LegInv, EventsTrue
  <2>6. Load(c)' <= MaxLoad(run'[c])
    <3>1. /\ Ahead(leg'[c]["A"]) = a /\ Ahead(leg'[c]["B"]) = b /\ MaxLoad(run'[c]) = m
          /\ Len(wire'[c]) = w
      BY <2>1
    <3> HIDE DEF a, b, w, h, m
    <3>2. w + (h - 1) + a + b + m <= w + h + a + b + m
      BY <1>0, <1>3
    <3>3. Len(wire'[c]) + Len(ch'[c]) + Ahead(leg'[c]["A"]) + Ahead(leg'[c]["B"]) + MaxLoad(run[c])
          <= Len(wire[c]) + Len(ch[c]) + Ahead(leg[c]["A"]) + Ahead(leg[c]["B"]) + MaxLoad(run'[c])
      BY <1>2, <3>1, <3>2 DEF a, b, w, h, m
    <3>4. QED
      BY <3>3, LoadStep
  <2>7. QED
    BY <2>4, <2>5, <2>6 DEF LegInv
<1>7. QED
  BY <1>4, <1>5, <1>6 DEF BAnswered

\* What reaches the handlers of a call is at most what FreeSWITCH sent.
LEMMA EmitFacts ==
    ASSUME FlowOK, NEW c \in Calls, NEW events \in Seq(Event), Emit(c, events), UNCHANGED ch
    PROVE  /\ Len(wire'[c]) <= Len(wire[c]) + Len(events)
           /\ Len(wire'[c]) \in Nat /\ Len(events) \in Nat
           /\ Pending(c)' \subseteq Pending(c) \cup Range(events)
           /\ \A d \in Calls \ {c} : wire'[d] = wire[d]
<1>1. wire \in [Calls -> Seq(Event)] /\ wire[c] \in Seq(Event)
  BY DEF FlowOK, LegsOK
<1>2. /\ wire'[c] = wire[c] \/ wire'[c] = wire[c] \o events
      /\ \A d \in Calls \ {c} : wire'[d] = wire[d]
  BY <1>1 DEF Emit
<1>3. Len(wire[c]) \in Nat /\ Len(events) \in Nat
  BY <1>1, LenProperties
<1>4. /\ Len(wire[c] \o events) = Len(wire[c]) + Len(events)
      /\ Range(wire[c] \o events) \subseteq Range(wire[c]) \cup Range(events)
  BY <1>1, ConcatFacts
<1>5. Len(wire'[c]) <= Len(wire[c]) + Len(events) /\ Len(wire'[c]) \in Nat
  BY <1>2, <1>3, <1>4
<1>6. Range(wire'[c]) \subseteq Range(wire[c]) \cup Range(events)
  BY <1>2, <1>4
<1>7. Pending(c)' \subseteq Pending(c) \cup Range(events)
  BY <1>6, PendingNext DEF Pending
<1>8. QED
  BY <1>2, <1>3, <1>5, <1>7

\* A leg is answered: only a leg that rings can be.
LEMMA LegsAnswered ==
    ASSUME FlowOK, FlowOK', NEW c \in Calls, LegInv(c), NEW l \in Legs, LegAnswers(c, l)
    PROVE  LegInv(c)'
<1> DEFINE ev == [name |-> "ANSWER", leg |-> l]
           o == IF l = "A" THEN "B" ELSE "A"
           w == Len(wire[c])
           h == Len(ch[c])
           m == MaxLoad(run[c])
<1>0. /\ leg \in [Calls -> LegMap] /\ leg[c] \in LegMap /\ l \in {"A", "B"}
      /\ w \in Nat /\ h \in Nat /\ ev \in Event /\ Len(<<ev>>) = 1
      /\ \A x \in Pending(c) : x \in Event
  BY OneCall DEF FlowOK, LegsOK, Legs, Event
<1>1. /\ leg[c][l] = "dialing" /\ leg' = [leg EXCEPT ![c][l] = "up"]
      /\ UNCHANGED <<run, mem, joined, ch>> /\ Emit(c, <<ev>>)
  BY DEF LegAnswers
<1>2. leg'[c][l] = "up" /\ leg'[c][o] = leg[c][o]
  BY <1>0, <1>1 DEF LegMap, Legs
<1>3. c \notin joined /\ ~mem[c].bridged /\ \A x \in Pending(c) : x.name # "BRIDGE"
  BY <1>0, <1>1 DEF LegInv, EventsTrue
<1>4. <<ev>> \in Seq(Event) /\ \A x \in Range(<<ev>>) : x = ev
  BY <1>0 DEF Range
<1>5. Len(wire'[c]) <= w + 1 /\ Len(wire'[c]) \in Nat
      /\ \A x \in Pending(c)' : x \in Pending(c) \/ x = ev
  <2>1. Len(wire'[c]) <= Len(wire[c]) + Len(<<ev>>) /\ Len(wire'[c]) \in Nat
        /\ Pending(c)' \subseteq Pending(c) \cup Range(<<ev>>)
    BY <1>1, <1>4, EmitFacts
  <2>2. QED
    BY <1>0, <1>4, <2>1
<1>6. DialOrder(c)'
  <2>1. run[c] \notin {"none", "start", "origA"}
    BY <1>0, <1>1 DEF LegInv, DialOrder, BeforeB
  <2>2. run[c] \in BeforeB \cup {"origB"} => l = "A"
    BY <1>0, <1>1 DEF LegInv, DialOrder
  <2>3. leg'[c]["B"] # "none" => leg[c]["B"] # "none"
    BY <1>0, <1>1, <1>2
  <2>4. run[c] \in BeforeB \cup {"origB"} => leg'[c]["B"] = "none"
    BY <1>0, <1>2, <2>2 DEF LegInv, DialOrder
  <2>5. run[c] \in BeforeB => \A x \in Pending(c)' : x.leg = "A" /\ x.name # "BRIDGE"
    BY <1>5, <2>2 DEF LegInv, DialOrder
  <2>6. QED
    BY <1>1, <2>1, <2>3, <2>4, <2>5 DEF LegInv, DialOrder
<1>7. EventsTrue(c)'
  <2>1. \A x \in Pending(c)' : x.name = "HANGUP" => leg'[c][x.leg] = "down"
    <3>1. SUFFICES ASSUME NEW x \in Pending(c)', x.name = "HANGUP"
                   PROVE  leg'[c][x.leg] = "down"
      OBVIOUS
    <3>2. x \in Pending(c)
      BY <1>5, <3>1
    <3>3. leg[c][x.leg] = "down" /\ x.leg \in {"A", "B"}
      BY <1>0, <3>1, <3>2 DEF LegInv, EventsTrue, Event, Legs
    <3>4. x.leg = o
      BY <1>0, <1>1, <3>3
    <3>5. QED
      BY <1>2, <3>3, <3>4
  <2>2. QED
    BY <1>1, <1>3, <1>5, <2>1 DEF EventsTrue
<1>8. Load(c)' <= MaxLoad(run'[c])
  <2> DEFINE a == Ahead(leg[c]["A"])
             b == Ahead(leg[c]["B"])
             a1 == Ahead(leg'[c]["A"])
             b1 == Ahead(leg'[c]["B"])
             w1 == Len(wire'[c])
  <2>1. /\ a \in Nat /\ b \in Nat /\ a1 \in Nat /\ b1 \in Nat /\ m \in Nat
        /\ (a1 = a - 1 /\ b1 = b) \/ (a1 = a /\ b1 = b - 1)
    <3>1. a \in Nat /\ b \in Nat /\ a1 \in Nat /\ b1 \in Nat /\ m \in Nat
      BY AheadType, MaxLoadType
    <3>2. Ahead("dialing") = 3 /\ Ahead("up") = 2
      BY DEF Ahead
    <3>3. QED
      BY <1>0, <1>1, <1>2, <3>1, <3>2
  <2>2. Len(ch'[c]) = h /\ MaxLoad(run'[c]) = m /\ w1 <= w + 1 /\ w1 \in Nat
    BY <1>1, <1>5
  <2> HIDE DEF a, b, a1, b1, w, h, m, w1
  <2>3. w1 + h + a1 + b1 + m <= w + h + a + b + m
    BY <1>0, <2>1, <2>2
  <2>4. Len(wire'[c]) + Len(ch'[c]) + Ahead(leg'[c]["A"]) + Ahead(leg'[c]["B"]) + MaxLoad(run[c])
        <= Len(wire[c]) + Len(ch[c]) + Ahead(leg[c]["A"]) + Ahead(leg[c]["B"]) + MaxLoad(run'[c])
    BY <2>2, <2>3 DEF a, b, a1, b1, w, h, m, w1
  <2>5. QED
    BY <2>4, LoadStep
<1>9. QED
  BY <1>6, <1>7, <1>8 DEF LegInv

\* A leg is hung up: a bridged pair goes down together.
LEMMA LegsHungUp ==
    ASSUME FlowOK, FlowOK', NEW c \in Calls, LegInv(c), NEW l \in Legs, LegHangsUp(c, l)
    PROVE  LegInv(c)'
<1> DEFINE o == IF l = "A" THEN "B" ELSE "A"
           w == Len(wire[c])
           h == Len(ch[c])
           m == MaxLoad(run[c])
           a == Ahead(leg[c]["A"])
           b == Ahead(leg[c]["B"])
           a1 == Ahead(leg'[c]["A"])
           b1 == Ahead(leg'[c]["B"])
           w1 == Len(wire'[c])
           h1 == Len(ch'[c])
           m1 == MaxLoad(run'[c])
<1>0. /\ leg \in [Calls -> LegMap] /\ leg[c] \in LegMap /\ l \in {"A", "B"} /\ o \in Legs
      /\ w \in Nat /\ h \in Nat
      /\ \A x \in Pending(c) : x \in Event
  BY OneCall DEF FlowOK, LegsOK, Legs
<1>1. /\ leg[c][l] \in {"dialing", "up"} /\ joined' = joined \ {c}
      /\ UNCHANGED <<run, mem, ch>>
  BY DEF LegHangsUp
<1>2. /\ run[c] \notin {"none", "start", "origA"}
      /\ run[c] \in BeforeB \cup {"origB"} => l = "A" /\ c \notin joined
  BY <1>0, <1>1 DEF LegInv, DialOrder, EventsTrue, BeforeB
<1>3. \A s : s \in {"dialing", "up"} => Ahead(s) >= 2
  BY DEF Ahead
<1>4. Ahead("down") = 0 /\ a \in Nat /\ b \in Nat /\ m \in Nat /\ h1 = h /\ m1 = m
  BY <1>1, AheadType, MaxLoadType DEF Ahead
<1>5. ASSUME w1 \in Nat, w1 + a1 + b1 <= w + a + b, a1 \in Nat, b1 \in Nat
      PROVE  Load(c)' <= MaxLoad(run'[c])
  <2> HIDE DEF a, b, a1, b1, w, h, m, w1, h1, m1
  <2>1. w1 + h1 + a1 + b1 + m <= w + h + a + b + m1
    BY <1>0, <1>4, <1>5
  <2>2. QED
    BY <2>1, LoadStep DEF a, b, a1, b1, w, h, m, w1, h1, m1
<1>6. CASE c \in joined
  <2>1. (CHOOSE x \in Legs : x # l) = o
    BY <1>0 DEF Legs
  <2>2. /\ leg' = [leg EXCEPT ![c] = [x \in Legs |-> "down"]]
        /\ Emit(c, HangupEvents(l) \o HangupEvents(o))
    BY <1>6, <2>1 DEF LegHangsUp
  <2>3. leg'[c]["A"] = "down" /\ leg'[c]["B"] = "down"
    BY <1>0, <2>2 DEF Legs
  <2>4. leg[c]["A"] = "up" /\ leg[c]["B"] = "up" /\ run[c] \notin BeforeB \cup {"origB"}
    BY <1>2, <1>6 DEF LegInv, EventsTrue
  <2>5. /\ HangupEvents(l) \o HangupEvents(o) \in Seq(Event)
        /\ Len(HangupEvents(l) \o HangupEvents(o)) = 4
    <3>1. /\ HangupEvents(l) \in Seq(Event) /\ Len(HangupEvents(l)) = 2
          /\ HangupEvents(o) \in Seq(Event) /\ Len(HangupEvents(o)) = 2
      BY <1>0, HangupEventsFacts
    <3>2. /\ HangupEvents(l) \o HangupEvents(o) \in Seq(Event)
          /\ Len(HangupEvents(l) \o HangupEvents(o))
             = Len(HangupEvents(l)) + Len(HangupEvents(o))
      BY <3>1, ConcatFacts
    <3>3. QED
      BY <3>1, <3>2
  <2>6. w1 <= w + 4 /\ w1 \in Nat
    <3>1. w1 <= w + Len(HangupEvents(l) \o HangupEvents(o)) /\ w1 \in Nat
      BY <1>1, <2>2, <2>5, EmitFacts
    <3>2. QED
      BY <2>5, <3>1
  <2>7. \A x \in Pending(c)' : x \in Event
    <3>1. wire'[c] \in Seq(Event) /\ ch'[c] \in Seq(Event)
      BY DEF FlowOK, LegsOK
    <3>2. \A x \in Range(wire'[c]) \cup Range(ch'[c]) : x \in Event
      BY <3>1, LenProperties, ElementOfSeq DEF Range
    <3>3. QED
      BY <3>2, PendingNext
  <2>8. EventsTrue(c)'
    <3>1. \A x \in Pending(c)' : leg'[c][x.leg] = "down"
      BY <2>3, <2>7 DEF Event, Legs
    <3>2. QED
      BY <1>1, <2>3, <3>1 DEF EventsTrue
  <2>9. DialOrder(c)'
    BY <1>1, <2>3, <2>4 DEF LegInv, DialOrder, BeforeB
  <2>10. a1 = 0 /\ b1 = 0 /\ a = 2 /\ b = 2
    BY <2>3, <2>4 DEF Ahead
  <2>11. w1 + a1 + b1 <= w + a + b /\ a1 \in Nat /\ b1 \in Nat
    <3> HIDE DEF w, w1, a, b, a1, b1
    <3>1. QED
      BY <1>0, <2>6, <2>10
  <2>12. QED
    BY <1>5, <2>6, <2>8, <2>9, <2>11 DEF LegInv
<1>7. CASE c \notin joined
  <2>1. leg' = [leg EXCEPT ![c][l] = "down"] /\ Emit(c, HangupEvents(l))
    BY <1>7 DEF LegHangsUp
  <2>2. leg'[c][l] = "down" /\ leg'[c][o] = leg[c][o]
    BY <1>0, <2>1 DEF LegMap, Legs
  <2>3. /\ HangupEvents(l) \in Seq(Event) /\ Len(HangupEvents(l)) = 2
        /\ \A x \in Range(HangupEvents(l)) : x = [name |-> "HANGUP", leg |-> l]
    BY HangupEventsFacts
  <2>4. /\ w1 <= w + 2 /\ w1 \in Nat
        /\ \A x \in Pending(c)' : x \in Pending(c) \/ x = [name |-> "HANGUP", leg |-> l]
    <3>1. /\ w1 <= w + Len(HangupEvents(l)) /\ w1 \in Nat
          /\ Pending(c)' \subseteq Pending(c) \cup Range(HangupEvents(l))
      BY <1>1, <2>1, <2>3, EmitFacts
    <3>2. QED
      BY <2>3, <3>1
  <2>5. ~mem[c].bridged /\ \A x \in Pending(c) : x.name # "BRIDGE"
    BY <1>0, <1>1, <1>7 DEF LegInv, EventsTrue
  <2>6. EventsTrue(c)'
    <3>1. \A x \in Pending(c)' : x.name = "HANGUP" => leg'[c][x.leg] = "down"
      <4>1. SUFFICES ASSUME NEW x \in Pending(c)', x.name = "HANGUP"
                     PROVE  leg'[c][x.leg] = "down"
        OBVIOUS
      <4>2. CASE x = [name |-> "HANGUP", leg |-> l]
        BY <2>2, <4>2
      <4>3. CASE x \in Pending(c)
        <5>1. leg[c][x.leg] = "down" /\ x.leg \in {"A", "B"}
          BY <1>0, <4>1, <4>3 DEF LegInv, EventsTrue, Event, Legs
        <5>2. x.leg = o
          BY <1>0, <1>1, <5>1
        <5>3. QED
          BY <2>2, <5>1, <5>2
      <4>4. QED
        BY <2>4, <4>2, <4>3
    <3>2. QED
      BY <1>1, <2>4, <2>5, <3>1 DEF EventsTrue
  <2>7. DialOrder(c)'
    <3>1. leg'[c]["B"] # "none" => leg[c]["B"] # "none"
      BY <1>0, <1>1, <2>2
    <3>2. run[c] \in BeforeB \cup {"origB"} => leg'[c]["B"] = "none"
      BY <1>0, <1>2, <2>2 DEF LegInv, DialOrder
    <3>3. run[c] \in BeforeB => \A x \in Pending(c)' : x.leg = "A" /\ x.name # "BRIDGE"
      BY <1>2, <2>4 DEF LegInv, DialOrder
    <3>4. QED
      BY <1>1, <1>2, <3>1, <3>2, <3>3 DEF LegInv, DialOrder
  <2>8. w1 + a1 + b1 <= w + a + b /\ a1 \in Nat /\ b1 \in Nat
    <3>1. (a1 = 0 /\ a >= 2 /\ b1 = b) \/ (b1 = 0 /\ b >= 2 /\ a1 = a)
      BY <1>0, <1>1, <1>3, <1>4, <2>2
    <3> HIDE DEF w, w1, a, b, a1, b1
    <3>2. QED
      BY <1>0, <1>4, <2>4, <3>1
  <2>9. QED
    BY <1>5, <2>4, <2>6, <2>7, <2>8 DEF LegInv
<1>8. QED
  BY <1>6, <1>7

\* An event moves from the wire to the channel, or is dropped.
LEMMA LegsDispatched ==
    ASSUME FlowOK, FlowOK', NEW c \in Calls, LegInv(c), Dispatch(c)
    PROVE  LegInv(c)'
<1> DEFINE w == Len(wire[c])
           h == Len(ch[c])
           m == MaxLoad(run[c])
           a == Ahead(leg[c]["A"])
           b == Ahead(leg[c]["B"])
           w1 == Len(wire'[c])
           h1 == Len(ch'[c])
<1>0. /\ wire \in [Calls -> Seq(Event)] /\ wire[c] \in Seq(Event)
      /\ ch \in [Calls -> Seq(Event)] /\ ch[c] \in Seq(Event)
      /\ w \in Nat /\ h \in Nat
  BY OneCall DEF FlowOK, LegsOK
<1>a. a \in Nat /\ b \in Nat /\ m \in Nat
  BY AheadType, MaxLoadType
<1>1. PICK i \in DOMAIN wire[c] :
          /\ wire' = [wire EXCEPT ![c] = RemoveAt(@, i)]
          /\ ch' = [ch EXCEPT ![c] = IF active[c] /\ Len(@) < ChanCap
                                     THEN Append(@, wire[c][i]) ELSE @]
          /\ UNCHANGED <<run, mem, leg, joined>>
  BY DEF Dispatch
<1>2. wire'[c] = RemoveAt(wire[c], i) /\ (ch'[c] = ch[c] \/ ch'[c] = Append(ch[c], wire[c][i]))
  BY <1>0, <1>1
<1>3. wire[c][i] \in Range(wire[c]) /\ wire[c][i] \in Event
  BY <1>0, <1>1, ElementOfSeq, LenProperties DEF Range
<1>4. w1 = w - 1 /\ Range(wire'[c]) \subseteq Range(wire[c])
  BY <1>0, <1>1, <1>2, RemoveAtFacts
<1>5. /\ h1 = h \/ h1 = h + 1
      /\ Range(ch'[c]) \subseteq Range(ch[c]) \cup {wire[c][i]}
  <2>1. /\ Len(Append(ch[c], wire[c][i])) = h + 1
        /\ Range(Append(ch[c], wire[c][i])) = Range(ch[c]) \cup {wire[c][i]}
    BY <1>0, <1>3, AppendFacts
  <2>2. QED
    BY <1>2, <2>1
<1>6. Pending(c)' \subseteq Pending(c)
  BY <1>3, <1>4, <1>5, PendingNext DEF Pending
<1>7. DialOrder(c)'
  BY <1>1, <1>6 DEF LegInv, DialOrder
<1>8. EventsTrue(c)'
  BY <1>1, <1>6 DEF LegInv, EventsTrue
<1>9. Load(c)' <= MaxLoad(run'[c])
  <2>1. Ahead(leg'[c]["A"]) = a /\ Ahead(leg'[c]["B"]) = b /\ MaxLoad(run'[c]) = m
    BY <1>1
  <2> HIDE DEF a, b, w, h, m, w1, h1
  <2>2. w1 + h1 + a + b + m <= w + h + a + b + m
    BY <1>0, <1>a, <1>4, <1>5
  <2>3. Len(wire'[c]) + Len(ch'[c]) + Ahead(leg'[c]["A"]) + Ahead(leg'[c]["B"]) + MaxLoad(run[c])
        <= Len(wire[c]) + Len(ch[c]) + Ahead(leg[c]["A"]) + Ahead(leg[c]["B"]) + MaxLoad(run'[c])
    BY <2>1, <2>2 DEF a, b, w, h, m, w1, h1
  <2>4. QED
    BY <2>3, LoadStep
<1>10. QED
  BY <1>7, <1>8, <1>9 DEF LegInv

\* A step of one call leaves the legs and the events of the others alone.
LEMMA OthersUntouched ==
    ASSUME FlowOK, NEW c \in Calls, NEW d \in Calls, c # d,
           Arrive(d) \/ Request(d) \/ RunCall(d) \/ FinalizeCall(d) \/ Sweep(d)
           \/ FreeSwitch(d) \/ Dispatch(d) \/ Worker(d) \/ ForceHangup(d)
    PROVE  /\ run'[c] = run[c] /\ mem'[c] = mem[c] /\ leg'[c] = leg[c]
           /\ wire'[c] = wire[c] /\ ch'[c] = ch[c]
           /\ c \in joined' <=> c \in joined
<1> USE DEF RunTo, Finish
<1>0. /\ run \in [Calls -> RunStates] /\ mem \in [Calls -> CallRecord]
      /\ leg \in [Calls -> LegMap] /\ wire \in [Calls -> Seq(Event)] /\ ch \in [Calls -> Seq(Event)]
  BY DEF FlowOK, ControlOK, RecordsOK, LegsOK
<1>1. ASSUME NEW legs, Hangup(d, legs)
      PROVE  leg'[c] = leg[c] /\ (c \in joined' <=> c \in joined)
  BY <1>0, <1>1 DEF Hangup
<1>2. CASE Arrive(d) \/ Request(d)
  BY <1>0, <1>2 DEF Arrive, Request, LaunchCall, flowVars
<1>3. CASE Start(d) \/ OriginateALeg(d) \/ OriginateBLeg(d) \/ ALegOriginated(d) \/ BLegOriginated(d)
  BY <1>0, <1>3 DEF Start, OriginateALeg, OriginateBLeg, Originate, ALegOriginated,
     BLegOriginated, Originated, SetStatus
<1>4. CASE \/ ALegFails(d) \/ BLegFails(d) \/ ParkTimeout(d) \/ CancelledA(d)
           \/ MaxDuration(d) \/ CancelledB(d) \/ LegHungUp(d)
  BY <1>0, <1>1, <1>4 DEF ALegFails, BLegFails, ParkTimeout, CancelledA, WaitAEnds, MaxDuration,
     CancelledB, WaitBEnds, LegHungUp, TakeEvent
<1>5. CASE WaitAEvent(d) \/ Bridged(d)
  BY <1>0, <1>5 DEF WaitAEvent, Bridged, TakeEvent, SetStatus
<1>6. CASE BAnswered(d)
  BY <1>0, <1>1, <1>6 DEF BAnswered, TakeEvent, SetStatus
<1>7. CASE RunFinalizes(d) \/ RunReturns(d) \/ Sweep(d)
  BY <1>0, <1>7 DEF RunFinalizes, EnterFinalize, RunReturns, Sweep, SweepFinalizes, SweepMovesOn
<1>8. CASE FinalizeCall(d)
  BY <1>0, <1>8 DEF FinalizeCall, FinalizeBilling, FinalizeSlot, FinalizePublish, FinalizePersist,
     FinalizeNotify
<1>9. CASE FreeSwitch(d) \/ Dispatch(d)
  BY <1>0, <1>9 DEF FreeSwitch, LegAnswers, LegHangsUp, Emit, Dispatch
<1>10. CASE Worker(d) \/ ForceHangup(d)
  BY <1>0, <1>1, <1>10 DEF Worker, MergeDone, MergeFails, ForceHangup
<1>11. QED
  BY <1>2, <1>3, <1>4, <1>5, <1>6, <1>7, <1>8, <1>9, <1>10 DEF RunCall

\* Every step keeps the invariant of every call.
LEMMA LegInvStep ==
    ASSUME FlowOK, FlowOK', LaunchOrder, NEW c \in Calls, LegInv(c), [CallbackNext]_vars
    PROVE  LegInv(c)'
<1>0. /\ Len(wire[c]) \in Nat /\ Len(ch[c]) \in Nat /\ run[c] \in RunStates
      /\ run \in [Calls -> RunStates] /\ mem \in [Calls -> CallRecord] /\ mem[c] \in CallRecord
      /\ row \in [Calls -> CallRow] /\ row[c].uuids \in SUBSET Legs
      /\ Len(wire[c]) <= Len(wire[c]) /\ Len(ch[c]) <= Len(ch[c])
  BY OneCall DEF FlowOK, ControlOK, RecordsOK, CallRow
<1>1. ASSUME run'[c] = run[c] \/ run'[c] \in {"finalize", "returned", "lost"},
             mem'[c].answered = mem[c].answered, mem'[c].bridged = mem[c].bridged,
             leg'[c] = leg[c], wire'[c] = wire[c], ch'[c] = ch[c],
             c \in joined' <=> c \in joined
      PROVE  LegInv(c)'
  <2>1. Pending(c)' = Pending(c)
    BY <1>1, PendingNext DEF Pending
  <2>2. QED
    BY <1>0, <1>1, <2>1, WindsDown
<1>2. ASSUME NEW d \in Calls, d # c,
             Arrive(d) \/ Request(d) \/ RunCall(d) \/ FinalizeCall(d) \/ Sweep(d)
             \/ FreeSwitch(d) \/ Dispatch(d) \/ Worker(d) \/ ForceHangup(d)
      PROVE  LegInv(c)'
  <2>1. /\ run'[c] = run[c] /\ mem'[c] = mem[c] /\ leg'[c] = leg[c]
        /\ wire'[c] = wire[c] /\ ch'[c] = ch[c]
        /\ c \in joined' <=> c \in joined
    BY <1>2, OthersUntouched
  <2>2. QED
    BY <1>1, <2>1
<1>3. CASE Arrive(c) \/ Request(c)
  <2>1. CASE LaunchCall(c)
    <3>1. run[c] = "none"
      BY <2>1 DEF LaunchCall, Launch, LaunchOrder, Launched
    <3>2. QED
      BY <2>1, <3>1, LegsDialled
  <2>2. CASE UNCHANGED flowVars
    BY <1>1, <2>2 DEF flowVars
  <2>3. QED
    BY <1>3, <2>1, <2>2 DEF Arrive, Request
<1>4. CASE EnterFinalize(c, want[c]) \/ EnterFinalize(c, "failed")
  <2>1. /\ UNCHANGED <<run, leg, joined, wire, ch>>
        /\ \E s : mem' = [mem EXCEPT ![c].status = s]
    BY <1>4 DEF EnterFinalize
  <2>2. mem'[c].answered = mem[c].answered /\ mem'[c].bridged = mem[c].bridged
    BY <1>0, <2>1 DEF CallRecord
  <2>3. QED
    BY <1>1, <2>1, <2>2
<1>5. CASE RunReturns(c)
  <2>1. /\ run'[c] = "returned" /\ ch' = [ch EXCEPT ![c] = <<>>]
        /\ UNCHANGED <<mem, leg, joined, wire>>
    BY <1>0, <1>5 DEF RunReturns, RunTo
  <2>2. ch'[c] = <<>>
    BY <2>1 DEF FlowOK, LegsOK
  <2>3. Len(ch'[c]) <= Len(ch[c]) /\ Range(ch'[c]) = {}
    BY <1>0, <2>2 DEF Range
  <2>4. Pending(c)' \subseteq Pending(c)
    BY <2>1, <2>3, PendingNext DEF Pending
  <2>5. QED
    BY <1>0, <2>1, <2>3, <2>4, WindsDown
<1>6. CASE RunCall(c)
  BY <1>4, <1>5, <1>6, LegsDialled, LegsAtEnd, LegsAfterWaitA, LegsAfterWaitB
     DEF RunCall, ParkTimeout, CancelledA, RunFinalizes
<1>7. CASE Sweep(c)
  <2>1. CASE SweepMovesOn(c)
    BY <1>1, <2>1 DEF SweepMovesOn
  <2>2. QED
    BY <1>4, <1>7, <2>1 DEF Sweep, SweepFinalizes
<1>8. CASE FinalizeCall(c)
  <2>1. UNCHANGED <<run, leg, joined, wire, ch>>
    BY <1>8 DEF FinalizeCall, FinalizeBilling, FinalizeSlot, FinalizePublish, FinalizePersist,
       FinalizeNotify
  <2>2. mem'[c].answered = mem[c].answered /\ mem'[c].bridged = mem[c].bridged
    <3>1. \/ UNCHANGED mem
          \/ \E x : mem' = [mem EXCEPT ![c].cost = x]
          \/ \E x : mem' = [mem EXCEPT ![c].rec = x]
      BY <1>8 DEF FinalizeCall, FinalizeBilling, FinalizeSlot, FinalizePublish, FinalizePersist,
         FinalizeNotify
    <3>2. QED
      BY <1>0, <3>1 DEF CallRecord
  <2>3. QED
    BY <1>1, <2>1, <2>2
<1>9. CASE FreeSwitch(c) \/ Dispatch(c)
  BY <1>9, LegsAnswered, LegsHungUp, LegsDispatched DEF FreeSwitch
<1>10. CASE Worker(c)
  BY <1>1, <1>10 DEF Worker, MergeDone, MergeFails
<1>11. CASE ForceHangup(c)
  <2>1. Hangup(c, row[c].uuids) /\ UNCHANGED <<run, mem, wire, ch>>
    BY <1>11 DEF ForceHangup
  <2>2. Pending(c)' = Pending(c)
    BY <2>1, PendingNext DEF Pending
  <2>3. QED
    BY <1>0, <2>1, <2>2, WindsDownByHangup
<1>12. CASE (\E u \in Users : Account(u)) \/ Disconnect \/ Shutdown \/ Quiet \/ UNCHANGED vars
  <2>1. UNCHANGED <<run, mem, leg, joined, wire, ch>>
    BY <1>12 DEF Account, Disconnect, Shutdown, Quiet, vars, flowVars
  <2>2. QED
    BY <1>1, <2>1
<1>13. CASE Restart
  <2>1. /\ run'[c] = run[c] \/ run'[c] = "lost"
        /\ wire'[c] = <<>> /\ ch'[c] = <<>> /\ UNCHANGED <<mem, leg, joined>>
    BY <1>0, <1>13 DEF Restart
  <2>2. Len(wire'[c]) <= Len(wire[c]) /\ Len(ch'[c]) <= Len(ch[c])
    BY <1>0, <2>1
  <2>3. Range(wire'[c]) = {} /\ Range(ch'[c]) = {}
    BY <2>1 DEF Range
  <2>4. Pending(c)' \subseteq Pending(c)
    BY <2>3, PendingNext
  <2>5. QED
    BY <2>1, <2>2, <2>4, WindsDown
<1>14. QED
  BY <1>2, <1>3, <1>6, <1>7, <1>8, <1>9, <1>10, <1>11, <1>12, <1>13 DEF CallbackNext

LEMMA LegInvAlways == CallbackSpec => []AllLegs
<1>1. ASSUME CallbackInit, NEW c \in Calls PROVE LegInv(c)
  <2>1. /\ run[c] = "none" /\ leg[c]["A"] = "none" /\ leg[c]["B"] = "none" /\ c \notin joined
        /\ wire[c] = <<>> /\ ch[c] = <<>> /\ mem[c].bridged = FALSE
    BY <1>1 DEF CallbackInit, NewCall, Legs
  <2>2. Pending(c) = {} /\ Len(wire[c]) = 0 /\ Len(ch[c]) = 0
    BY <2>1 DEF Pending, Range
  <2>3. Load(c) <= MaxLoad(run[c])
    BY <2>1, <2>2 DEF Load, MaxLoad, Ahead
  <2>4. QED
    BY <2>1, <2>2, <2>3 DEF LegInv, DialOrder, EventsTrue, ToB
<1>2. CallbackInit => AllLegs
  BY <1>1 DEF AllLegs
<1>3. ASSUME FlowOK, FlowOK', LaunchOrder, AllLegs, [CallbackNext]_vars
      PROVE  AllLegs'
  BY <1>3, LegInvStep DEF AllLegs
<1>4. QED
  BY <1>2, <1>3, FlowTypeAlways, LaunchOrderAlways, PTL DEF CallbackSpec

--------------------------------------------------------------------------------
(* What follows about the legs *)

\* The point of a callback, for any number of calls and every fault: however
\* the events of a call are reordered, delayed or dropped, whoever cancels or
\* sweeps it and whenever the process dies, FreeSWITCH is asked for the B leg
\* only after runCall has read the answer of the A leg.
THEOREM BLegAfterAAnswerHolds == CallbackSpec => []BLegAfterAAnswer
<1>1. AllLegs => BLegAfterAAnswer
  BY DEF AllLegs, LegInv, DialOrder, BLegAfterAAnswer
<1>2. QED
  BY <1>1, LegInvAlways, PTL

\* Five places in eventCh are enough, and the code has ten: a call never has
\* more than five events unread, so the default branch of the handler, which
\* drops an event, is not taken for an active call.
THEOREM NoEventDroppedHolds ==
    ASSUME ChanCap >= 5
    PROVE  CallbackSpec => []NoEventDropped
<1>1. ASSUME FlowOK, AllLegs
      PROVE  NoEventDropped
  <2>1. SUFFICES ASSUME NEW c \in Calls, wire[c] # <<>>
                 PROVE  Len(ch[c]) < ChanCap
    BY DEF NoEventDropped
  <2> DEFINE w == Len(wire[c])
             h == Len(ch[c])
             a == Ahead(leg[c]["A"])
             b == Ahead(leg[c]["B"])
             m == MaxLoad(run[c])
  <2>2. w \in Nat \ {0} /\ h \in Nat
    BY <1>1, <2>1, OneCall, EmptySeq
  <2>3. a \in Nat /\ b \in Nat /\ m \in 0..5
    BY AheadType, MaxLoadType
  <2>4. w + h + a + b <= m
    BY <1>1 DEF AllLegs, LegInv, Load
  <2> HIDE DEF w, a, b, h, m
  <2>5. h < 5
    BY <2>2, <2>3, <2>4
  <2>6. QED
    BY <2>2, <2>5, CallbackAssumption DEF h
<1>2. QED
  BY <1>1, FlowTypeAlways, LegInvAlways, PTL

--------------------------------------------------------------------------------
(* The A leg is gone when runCall is through *)

\* The connection never comes back after a drop: only a restart of the
\* process opens another one.
NoReconnect == (conn /\ chance["disconnect"] = 0) \/ left["crash"] = 0

\* With FreeSWITCH in reach and its context alive, runCall takes the A leg
\* down before it turns to finalizeCall.
ALegGone(c) ==
    run[c] \in {"finalize", "returned"} /\ conn /\ ~ctxDone[c] =>
        leg[c]["A"] \in {"none", "down"}

CleanEnd == NoReconnect /\ \A c \in Calls : ALegGone(c)

\* No step brings back a chance that is used up.
LEMMA NoMoreChances ==
    ASSUME FlowOK, NEW kind \in EventKinds, chance[kind] = 0, [CallbackNext]_vars
    PROVE  chance'[kind] = 0
<1>0. chance \in [EventKinds -> Nat]
  BY DEF FlowOK, ControlOK
<1>1. ASSUME NEW k, Chance(k)
      PROVE  chance'[kind] = 0
  BY <1>0, <1>1 DEF Chance
<1>2. ASSUME NEW d \in Calls, RunCall(d) \/ FinalizeCall(d)
      PROVE  UNCHANGED chance \/ \E k : Chance(k)
  BY <1>2 DEF RunCall, Start, OriginateALeg, OriginateBLeg, Originate, ALegOriginated,
     BLegOriginated, Originated, ALegFails, BLegFails, WaitAEvent, ParkTimeout, CancelledA,
     WaitAEnds, BAnswered, Bridged, LegHungUp, MaxDuration, CancelledB, WaitBEnds,
     OriginateError, RunFinalizes, EnterFinalize, RunReturns,
     FinalizeCall, FinalizeBilling, FinalizeSlot, FinalizePublish, FinalizePersist, FinalizeNotify
<1>3. ASSUME NEW d \in Calls,
             \/ Arrive(d) \/ Request(d) \/ Sweep(d)
             \/ FreeSwitch(d) \/ Dispatch(d) \/ Worker(d) \/ ForceHangup(d)
      PROVE  UNCHANGED chance \/ \E k : Chance(k)
  BY <1>3 DEF Arrive, Request, LaunchCall, flowVars, Sweep, SweepFinalizes, SweepMovesOn,
     EnterFinalize, FreeSwitch, LegAnswers, LegHangsUp, Dispatch, Worker, MergeDone, MergeFails,
     ForceHangup
<1>4. ASSUME Disconnect \/ Shutdown \/ Restart \/ Quiet \/ UNCHANGED vars \/ \E u \in Users : Account(u)
      PROVE  UNCHANGED chance \/ \E k : Chance(k)
  BY <1>4 DEF Disconnect, Shutdown, Restart, Account, Quiet, vars, flowVars
<1>5. UNCHANGED chance \/ \E k : Chance(k)
  BY <1>2, <1>3, <1>4 DEF CallbackNext
<1>6. QED
  BY <1>1, <1>5

\* Nor does one add to the budget of faults.
LEMMA NoMoreFaults ==
    ASSUME AdmissionTypeOK, AdmissionTypeOK', NEW kind \in FaultKinds, left[kind] = 0,
           [CallbackNext]_vars
    PROVE  left'[kind] = 0
<1>1. left \in [FaultKinds -> Nat] /\ left'[kind] \in Nat
  BY DEF AdmissionTypeOK
<1>2. [AdmissionNext]_admissionVars
  BY CallbackStepImplementsAdmission
<1>3. CASE AdmissionNext
  <2>1. left'[kind] <= left[kind]
    BY <1>1, <1>3, BudgetFalls
  <2>2. QED
    BY <1>1, <2>1
<1>4. CASE UNCHANGED admissionVars
  BY <1>4 DEF admissionVars
<1>5. QED
  BY <1>2, <1>3, <1>4

\* Cancellation is for good, and only a restart brings a connection back.
LEMMA NoReconnectStep ==
    ASSUME AdmissionTypeOK, AdmissionTypeOK', FlowOK, NoReconnect, [CallbackNext]_vars
    PROVE  /\ NoReconnect'
           /\ conn' => conn
           /\ \A c \in Calls : ctxDone[c] => ctxDone'[c]
<1>0. /\ ctxDone \in [Calls -> BOOLEAN] /\ chance \in [EventKinds -> Nat]
      /\ left \in [FaultKinds -> Nat] /\ "disconnect" \in EventKinds /\ "crash" \in FaultKinds
  BY DEF FlowOK, ControlOK, LegsOK, AdmissionTypeOK, EventKinds, FaultKinds
<1>c. left["crash"] = 0 => left'["crash"] = 0
  BY <1>0, NoMoreFaults
<1>1. chance["disconnect"] = 0 => chance'["disconnect"] = 0
  BY <1>0, NoMoreChances
<1>2. ASSUME NEW d \in Calls,
             \/ Arrive(d) \/ Request(d) \/ RunCall(d) \/ FinalizeCall(d) \/ Sweep(d)
             \/ FreeSwitch(d) \/ Dispatch(d) \/ Worker(d) \/ ForceHangup(d)
      PROVE  /\ conn' = conn
             /\ UNCHANGED ctxDone \/ ctxDone' = [ctxDone EXCEPT ![d] = @ \/ active[d]]
  <2>1. CASE Arrive(d) \/ Request(d)
    BY <2>1 DEF Arrive, Request, LaunchCall, flowVars
  <2>2. CASE RunCall(d)
    BY <2>2 DEF RunCall, Start, OriginateALeg, OriginateBLeg, Originate, ALegOriginated,
       BLegOriginated, Originated, ALegFails, BLegFails, WaitAEvent, ParkTimeout, CancelledA,
       WaitAEnds, BAnswered, Bridged, LegHungUp, MaxDuration, CancelledB, WaitBEnds,
       RunFinalizes, EnterFinalize, RunReturns
  <2>3. CASE FinalizeCall(d) \/ Sweep(d)
    BY <2>3 DEF FinalizeCall, FinalizeBilling, FinalizeSlot, FinalizePublish, FinalizePersist,
       FinalizeNotify, Sweep, SweepFinalizes, SweepMovesOn, EnterFinalize
  <2>4. CASE FreeSwitch(d) \/ Dispatch(d) \/ Worker(d) \/ ForceHangup(d)
    BY <2>4 DEF FreeSwitch, LegAnswers, LegHangsUp, Dispatch, Worker, MergeDone, MergeFails,
       ForceHangup
  <2>5. QED
    BY <1>2, <2>1, <2>2, <2>3, <2>4
<1>3. ASSUME NEW d \in Calls,
             \/ Arrive(d) \/ Request(d) \/ RunCall(d) \/ FinalizeCall(d) \/ Sweep(d)
             \/ FreeSwitch(d) \/ Dispatch(d) \/ Worker(d) \/ ForceHangup(d)
      PROVE  /\ NoReconnect'
             /\ conn' => conn
             /\ \A c \in Calls : ctxDone[c] => ctxDone'[c]
  <2>1. \A c \in Calls : ctxDone[c] => ctxDone'[c]
    BY <1>0, <1>2, <1>3
  <2>2. QED
    BY <1>c, <1>1, <1>2, <1>3, <2>1 DEF NoReconnect
<1>4. CASE Disconnect
  <2>1. chance["disconnect"] > 0
    BY <1>4 DEF Disconnect, Chance
  <2>2. left["crash"] = 0
    BY <1>0, <2>1 DEF NoReconnect
  <2>3. QED
    BY <1>c, <1>4, <2>2 DEF Disconnect, NoReconnect
<1>5. CASE Restart
  <2>1. left["crash"] # 0
    BY <1>0, <1>5 DEF Restart, Crash, Spend
  <2>2. QED
    BY <1>1, <1>5, <2>1 DEF Restart, NoReconnect
<1>6. CASE Shutdown
  <2>1. \A c \in Calls : ctxDone[c] => ctxDone'[c]
    BY <1>6 DEF Shutdown
  <2>2. QED
    BY <1>c, <1>1, <1>6, <2>1 DEF Shutdown, NoReconnect
<1>7. CASE (\E u \in Users : Account(u)) \/ Quiet \/ UNCHANGED vars
  BY <1>c, <1>1, <1>7 DEF Account, Quiet, vars, flowVars, NoReconnect
<1>8. QED
  BY <1>3, <1>4, <1>5, <1>6, <1>7 DEF CallbackNext

\* A leg that is gone, or was never dialled, comes up only when it is dialled.
LEMMA GoneStays ==
    ASSUME FlowOK, NEW c \in Calls, leg[c]["A"] \in {"none", "down"}, run[c] # "origA",
           [CallbackNext]_vars
    PROVE  leg'[c]["A"] \in {"none", "down"}
<1>0. leg \in [Calls -> LegMap] /\ leg[c] \in LegMap /\ "A" \in Legs /\ "A" # "B"
  BY OneCall DEF FlowOK, LegsOK, Legs
<1>1. ASSUME NEW legs \in SUBSET Legs, Hangup(c, legs)
      PROVE  leg'[c]["A"] \in {"none", "down"}
  BY <1>0, <1>1, HangupFacts
<1>2. ASSUME NEW d \in Calls, d # c,
             Arrive(d) \/ Request(d) \/ RunCall(d) \/ FinalizeCall(d) \/ Sweep(d)
             \/ FreeSwitch(d) \/ Dispatch(d) \/ Worker(d) \/ ForceHangup(d)
      PROVE  leg'[c]["A"] \in {"none", "down"}
  BY <1>2, OthersUntouched
<1>3. CASE RunCall(c)
  <2>1. {"A"} \in SUBSET Legs /\ Legs \in SUBSET Legs
    BY DEF Legs
  <2>2. CASE BLegFails(c) \/ WaitAEnds(c) \/ LegHungUp(c) \/ BAnswered(c) \/ MaxDuration(c) \/ CancelledB(c)
    <3>1. UNCHANGED leg \/ Hangup(c, {"A"}) \/ Hangup(c, Legs)
      BY <2>2 DEF BLegFails, WaitAEnds, LegHungUp, BAnswered, MaxDuration, CancelledB, WaitBEnds
    <3>2. QED
      BY <1>1, <2>1, <3>1
  <2>3. CASE OriginateBLeg(c)
    <3>1. leg' = [leg EXCEPT ![c]["B"] = "dialing"]
      BY <2>3 DEF OriginateBLeg, Originate
    <3>2. QED
      BY <1>0, <3>1 DEF LegMap
  <2>4. CASE OriginateALeg(c)
    BY <2>4 DEF OriginateALeg, Originate
  <2>5. CASE UNCHANGED leg
    BY <2>5
  <2>6. QED
    BY <1>3, <2>2, <2>3, <2>4, <2>5 DEF RunCall, ParkTimeout, CancelledA, Start, ALegOriginated,
       BLegOriginated, Originated, ALegFails, WaitAEvent, Bridged, RunFinalizes, EnterFinalize,
       RunReturns
<1>4. CASE Arrive(c) \/ Request(c) \/ FinalizeCall(c) \/ Sweep(c) \/ Dispatch(c) \/ Worker(c)
  BY <1>4 DEF Arrive, Request, LaunchCall, flowVars, FinalizeCall, FinalizeBilling, FinalizeSlot,
     FinalizePublish, FinalizePersist, FinalizeNotify, Sweep, SweepFinalizes, EnterFinalize,
     SweepMovesOn, Dispatch, Worker, MergeDone, MergeFails
<1>5. CASE FreeSwitch(c)
  <2>1. PICK l \in Legs : LegAnswers(c, l) \/ LegHangsUp(c, l)
    BY <1>5 DEF FreeSwitch
  <2>2. CASE LegAnswers(c, l)
    <3>1. l # "A" /\ leg' = [leg EXCEPT ![c][l] = "up"]
      BY <2>2 DEF LegAnswers
    <3>2. QED
      BY <1>0, <3>1 DEF LegMap
  <2>3. CASE LegHangsUp(c, l)
    <3>1. \/ leg' = [leg EXCEPT ![c] = [m \in Legs |-> "down"]]
          \/ leg' = [leg EXCEPT ![c][l] = "down"]
      BY <2>3 DEF LegHangsUp
    <3>2. QED
      BY <1>0, <3>1 DEF LegMap
  <2>4. QED
    BY <2>1, <2>2, <2>3
<1>6. CASE ForceHangup(c)
  <2>1. row[c].uuids \in SUBSET Legs /\ Hangup(c, row[c].uuids)
    BY <1>6 DEF FlowOK, RecordsOK, CallRow, ForceHangup
  <2>2. QED
    BY <1>1, <2>1
<1>7. CASE (\E u \in Users : Account(u)) \/ Disconnect \/ Shutdown \/ Restart \/ Quiet
           \/ UNCHANGED vars
  BY <1>7 DEF Account, Disconnect, Shutdown, Restart, Quiet, vars, flowVars
<1>8. QED
  BY <1>2, <1>3, <1>4, <1>5, <1>6, <1>7 DEF CallbackNext

\* runCall comes to finalizeCall with its A leg gone, cancelled, or out of
\* FreeSWITCH's reach.
LEMMA EndsWithoutALeg ==
    ASSUME FlowOK, LaunchOrder, NEW c \in Calls, LegInv(c), [CallbackNext]_vars,
           run[c] \notin {"finalize", "returned"}, run'[c] \in {"finalize", "returned"},
           conn, ~ctxDone[c]
    PROVE  leg'[c]["A"] \in {"none", "down"}
<1> USE DEF RunTo, Finish
<1>0. /\ run \in [Calls -> RunStates] /\ leg[c] \in LegMap /\ {"A"} \in SUBSET Legs
      /\ Legs \in SUBSET Legs /\ "A" \in Legs /\ \A e \in Pending(c) : e.leg \in {"A", "B"}
  BY OneCall DEF FlowOK, ControlOK, Event, Legs
<1>1. ASSUME NEW legs \in SUBSET Legs, "A" \in legs, Hangup(c, legs)
      PROVE  leg'[c]["A"] \in {"none", "down"}
  BY <1>1, HangupFacts
<1>2. run'[c] # run[c]
  OBVIOUS
<1>3. ASSUME NEW d \in Calls, d # c
      PROVE  ~(\/ Arrive(d) \/ Request(d) \/ RunCall(d) \/ FinalizeCall(d) \/ Sweep(d)
               \/ FreeSwitch(d) \/ Dispatch(d) \/ Worker(d) \/ ForceHangup(d))
  BY <1>2, <1>3, OthersUntouched
<1>4. ~(Arrive(c) \/ Request(c))
  BY <1>0, <1>2 DEF Arrive, Request, LaunchCall, flowVars
<1>5. ~(FinalizeCall(c) \/ Sweep(c) \/ FreeSwitch(c) \/ Dispatch(c) \/ Worker(c) \/ ForceHangup(c))
  BY <1>2 DEF FinalizeCall, FinalizeBilling, FinalizeSlot, FinalizePublish, FinalizePersist,
     FinalizeNotify, Sweep, SweepFinalizes, EnterFinalize, SweepMovesOn, FreeSwitch, LegAnswers,
     LegHangsUp, Dispatch, Worker, MergeDone, MergeFails, ForceHangup
<1>6. ~((\E u \in Users : Account(u)) \/ Disconnect \/ Shutdown \/ Quiet \/ UNCHANGED vars)
  BY <1>2 DEF Account, Disconnect, Shutdown, Quiet, vars, flowVars
<1>7. ~Restart
  BY <1>0, <1>2 DEF Restart
<1>8. RunCall(c)
  BY <1>3, <1>4, <1>5, <1>6, <1>7 DEF CallbackNext
<1>9. CASE ALegFails(c)
  <2>1. run[c] = "origA" \/ leg[c]["A"] = "down"
    BY <1>9 DEF ALegFails, OriginateError
  <2>2. leg' = leg
    BY <1>9 DEF ALegFails
  <2>3. QED
    BY <2>1, <2>2 DEF LegInv, DialOrder
<1>10. CASE BLegFails(c) \/ WaitAEnds(c) \/ MaxDuration(c) \/ CancelledB(c)
  <2>1. Hangup(c, {"A"}) \/ Hangup(c, Legs)
    BY <1>10 DEF BLegFails, WaitAEnds, MaxDuration, CancelledB, WaitBEnds
  <2>2. QED
    BY <1>0, <1>1, <2>1
<1>11. CASE BAnswered(c)
  <2>1. Hangup(c, Legs)
    BY <1>2, <1>11 DEF BAnswered
  <2>2. QED
    BY <1>0, <1>1, <2>1
<1>12. CASE WaitAEvent(c)
  <2>1. /\ run[c] = "waitA" /\ ch[c] # <<>> /\ ch' = [ch EXCEPT ![c] = Tail(@)] /\ leg' = leg
        /\ Head(ch[c]).name = "HANGUP"
    BY <1>0, <1>12 DEF WaitAEvent
  <2>2. Head(ch[c]) \in Pending(c)
    BY <2>1, TakeFacts
  <2>3. Head(ch[c]).leg = "A" /\ leg[c]["A"] = "down"
    BY <2>1, <2>2 DEF LegInv, DialOrder, EventsTrue, BeforeB
  <2>4. QED
    BY <2>1, <2>3
<1>13. CASE LegHungUp(c)
  <2>1. /\ ch[c] # <<>> /\ ch' = [ch EXCEPT ![c] = Tail(@)]
        /\ Head(ch[c]).name = "HANGUP"
    BY <1>13 DEF LegHungUp, TakeEvent
  <2>2. Head(ch[c]) \in Pending(c)
    BY <2>1, TakeFacts
  <2>3. CASE mem[c].bridged
    <3>1. leg[c]["A"] = "down" \/ leg[c]["B"] = "down"
      BY <1>0, <2>1, <2>2 DEF LegInv, EventsTrue
    <3>2. leg[c]["A"] = "down"
      BY <2>3, <3>1 DEF LegInv, EventsTrue
    <3>3. leg' = leg
      BY <1>13, <2>3 DEF LegHungUp
    <3>4. QED
      BY <3>2, <3>3
  <2>4. CASE ~mem[c].bridged
    <3>1. Hangup(c, {"A"})
      BY <1>13, <2>4 DEF LegHungUp
    <3>2. QED
      BY <1>0, <1>1, <3>1
  <2>5. QED
    BY <2>3, <2>4
<1>14. CASE Start(c)
  BY <1>14 DEF Start, LegInv, DialOrder
<1>15. CASE RunReturns(c) \/ RunFinalizes(c)
  BY <1>2, <1>15 DEF RunReturns, RunFinalizes, EnterFinalize
<1>16. CASE \/ OriginateALeg(c) \/ ALegOriginated(c) \/ OriginateBLeg(c) \/ BLegOriginated(c)
            \/ Bridged(c)
  BY <1>0, <1>2, <1>16 DEF OriginateALeg, OriginateBLeg, Originate, ALegOriginated,
     BLegOriginated, Originated, Bridged
<1>17. QED
  BY <1>8, <1>9, <1>10, <1>11, <1>12, <1>13, <1>14, <1>15, <1>16
     DEF RunCall, ParkTimeout, CancelledA

\* Where a connection that drops is not followed by a restart with a new one:
\* a call that is neither cancelled nor out of FreeSWITCH's reach never ends
\* with its A leg up, whichever event, timer or refusal ended it.
THEOREM NoOrphanALegHolds ==
    ASSUME Chances["disconnect"] = 0 \/ Budget["crash"] = 0
    PROVE  CallbackSpec => []NoOrphanALeg
<1>1. CallbackInit => CleanEnd
  BY DEF CallbackInit, AdmissionInit, CleanEnd, NoReconnect, ALegGone
<1>2. ASSUME AdmissionTypeOK, AdmissionTypeOK', FlowOK, LaunchOrder, AllLegs, CleanEnd,
             [CallbackNext]_vars
      PROVE  CleanEnd'
  <2>1. /\ NoReconnect' /\ (conn' => conn)
        /\ \A c \in Calls : ctxDone[c] => ctxDone'[c]
    BY <1>2, NoReconnectStep DEF CleanEnd
  <2>2. ASSUME NEW c \in Calls PROVE ALegGone(c)'
    <3>1. SUFFICES ASSUME run'[c] \in {"finalize", "returned"}, conn', ~ctxDone'[c]
                   PROVE  leg'[c]["A"] \in {"none", "down"}
      BY DEF ALegGone
    <3>2. conn /\ ~ctxDone[c]
      BY <2>1, <3>1
    <3>3. CASE run[c] \in {"finalize", "returned"}
      BY <1>2, <3>2, <3>3, GoneStays DEF CleanEnd, ALegGone
    <3>4. CASE run[c] \notin {"finalize", "returned"}
      BY <1>2, <3>1, <3>2, <3>4, EndsWithoutALeg DEF AllLegs
    <3>5. QED
      BY <3>3, <3>4
  <2>3. QED
    BY <2>1, <2>2 DEF CleanEnd
<1>3. CleanEnd => NoOrphanALeg
  BY DEF CleanEnd, ALegGone, NoOrphanALeg
<1>4. QED
  BY <1>1, <1>2, <1>3, FlowTypeAlways, LaunchOrderAlways, LegInvAlways, PTL DEF CallbackSpec

--------------------------------------------------------------------------------
(* What the steps do to the end of a call *)

\* runCall has handed the call to finalizeCall.
HandedOver == {"finalize", "returned", "lost"}

\* What finalizeCall has in hand, and what others are told.
Held(c) == <<mem[c].status, mem[c].cost>>
Told(c) == <<row[c].status, row[c].cost, hooks[c]>>

\* Nothing that belongs to the end of the call.
Stays(c) ==
    /\ run[c] \in HandedOver => run'[c] \in HandedOver
    /\ fin'[c] = fin[c]
    /\ Held(c)' = Held(c) /\ Told(c)' = Told(c)

\* A step of a call that goes on: it writes and reports no end.
Drives(c) ==
    /\ run[c] \notin HandedOver
    /\ fin'[c] = fin[c]
    /\ mem'[c].status = mem[c].status \/ mem'[c].status \notin Ended
    /\ mem'[c].cost = mem[c].cost
    /\ row'[c].status = row[c].status \/ row'[c].status \notin Ended
    /\ row'[c].cost = row[c].cost
    /\ hooks'[c] = hooks[c] \/ hooks'[c] = Append(hooks[c], mem'[c].status)

\* The steps of finalizeCall
Enters(c) ==
    /\ run[c] = "finalize" /\ run'[c] = "finalize"
    /\ fin[c] = "none" /\ fin'[c] = "bill"
    /\ mem'[c].status \in Ended /\ mem'[c].cost = mem[c].cost
    /\ Told(c)' = Told(c)
Works(c) ==
    /\ run'[c] = run[c]
    /\ \/ fin[c] = "bill" /\ fin'[c] = "slot" /\ FinalizeBilling(c)
       \/ fin[c] = "slot" /\ fin'[c] \in {"slot", "publish"} /\ mem'[c].cost = mem[c].cost
       \/ fin[c] = "publish" /\ fin'[c] = "persist" /\ mem'[c].cost = mem[c].cost
    /\ mem'[c].status = mem[c].status
    /\ Told(c)' = Told(c)
Persists(c) ==
    /\ run'[c] = run[c]
    /\ fin[c] = "persist" /\ fin'[c] = "notify"
    /\ Held(c)' = Held(c)
    /\ \/ row'[c].status = mem[c].status /\ row'[c].cost = mem[c].cost
       \/ chance["rowdb"] > 0 /\ row'[c] = row[c]
    /\ hooks'[c] = hooks[c]
Notifies(c) ==
    /\ run'[c] = run[c]
    /\ fin[c] = "notify" /\ fin'[c] = "done"
    /\ Held(c)' = Held(c) /\ row'[c] = row[c]
    /\ hooks'[c] = Append(hooks[c], mem[c].status)

\* The process is lost, and with it what finalizeCall had still to do.
Loses(c) ==
    /\ run'[c] = run[c] \/ run'[c] \in HandedOver
    /\ fin[c] \notin {"none", "done"} /\ fin'[c] = "lost"
    /\ Held(c)' = Held(c) /\ Told(c)' = Told(c)

EndMove(c) ==
    Stays(c) \/ Drives(c) \/ Enters(c) \/ Works(c) \/ Persists(c) \/ Notifies(c) \/ Loses(c)

\* The shared records and the webhook list, one call at a time
LEMMA EndTypes ==
    ASSUME FlowOK
    PROVE  /\ run \in [Calls -> RunStates] /\ fin \in [Calls -> FinStates]
           /\ mem \in [Calls -> CallRecord] /\ row \in [Calls -> CallRow]
           /\ hooks \in [Calls -> Seq(Statuses)]
           /\ \A c \in Calls : mem[c] \in CallRecord /\ row[c] \in CallRow
BY DEF FlowOK, ControlOK, RecordsOK

\* runCall writes no end.
LEMMA RunCallMoves ==
    ASSUME FlowOK, NEW c \in Calls, RunCall(c)
    PROVE  EndMove(c)
<1> USE EndTypes DEF RunTo, Finish
<1>1. ASSUME NEW s, s \notin Ended, NEW call \in CallRecord, call.cost = mem[c].cost,
             SetStatus(c, s, call)
      PROVE  /\ mem'[c].status = s /\ mem'[c].cost = mem[c].cost
             /\ hooks'[c] = hooks[c] \/ hooks'[c] = Append(hooks[c], mem'[c].status)
  <2>1. mem' = [mem EXCEPT ![c] = [call EXCEPT !.status = s]]
    BY <1>1 DEF SetStatus
  <2>2. mem'[c] = [call EXCEPT !.status = s]
    BY <2>1
  <2>3. mem'[c].status = s /\ mem'[c].cost = mem[c].cost
    BY <1>1, <2>2 DEF CallRecord
  <2>4. hooks'[c] = hooks[c] \/ hooks'[c] = Append(hooks[c], s)
    BY <1>1 DEF SetStatus, Notified
  <2>5. QED
    BY <2>3, <2>4
<1>2. ASSUME NEW s, s \notin Ended, RowStatus(c, s)
      PROVE  /\ row'[c].status = row[c].status \/ row'[c].status \notin Ended
             /\ row'[c].cost = row[c].cost
  BY <1>2 DEF RowStatus, CallRow
<1>3. ASSUME run[c] \notin HandedOver, fin' = fin, UNCHANGED <<mem, row, hooks>>
      PROVE  EndMove(c)
  BY <1>3 DEF EndMove, Drives
<1>4. CASE Start(c)
  BY <1>4 DEF Start, Notified, EndMove, Drives, HandedOver
<1>5. CASE \/ OriginateALeg(c) \/ OriginateBLeg(c) \/ ALegFails(c) \/ BLegFails(c)
           \/ WaitAEnds(c) \/ LegHungUp(c) \/ MaxDuration(c) \/ CancelledB(c)
  <2>1. fin' = fin /\ UNCHANGED <<mem, row, hooks>> /\ run[c] \notin HandedOver
    BY <1>5 DEF OriginateALeg, OriginateBLeg, Originate, ALegFails, BLegFails, OriginateError,
       WaitAEnds, LegHungUp, TakeEvent, MaxDuration, CancelledB, WaitBEnds, HandedOver
  <2>2. QED
    BY <1>3, <2>1
<1>6. ASSUME NEW l, NEW r, NEW s, NEW n, s \notin Ended, r \notin HandedOver, l \in Legs,
             Originated(c, l, r, s, n)
      PROVE  EndMove(c)
  <2>1. [mem[c] EXCEPT !.uuids = @ \cup {l}] \in CallRecord
        /\ [mem[c] EXCEPT !.uuids = @ \cup {l}].cost = mem[c].cost
    BY <1>6 DEF CallRecord
  <2>2. QED
    BY <1>1, <1>2, <1>6, <2>1 DEF Originated, EndMove, Drives
<1>7. CASE ALegOriginated(c) \/ BLegOriginated(c)
  <2>1. "A" \in Legs /\ "B" \in Legs /\ "a_dialing" \notin Ended /\ "b_dialing" \notin Ended
        /\ "ringA" \notin HandedOver /\ "ringB" \notin HandedOver
    BY DEF Legs, Ended, HandedOver
  <2>2. QED
    BY <1>6, <1>7, <2>1 DEF ALegOriginated, BLegOriginated
<1>8. CASE WaitAEvent(c)
  <2>0. run[c] \notin HandedOver /\ fin' = fin /\ "a_connected" \notin Ended
    BY <1>8 DEF WaitAEvent, HandedOver, Ended
  <2>1. CASE UNCHANGED <<mem, row, hooks>>
    BY <1>3, <2>0, <2>1
  <2>2. CASE /\ SetStatus(c, "a_connected", [mem[c] EXCEPT !.answered = @ \cup {"A"}])
             /\ RowStatus(c, "a_connected")
    <3>1. [mem[c] EXCEPT !.answered = @ \cup {"A"}] \in CallRecord
          /\ [mem[c] EXCEPT !.answered = @ \cup {"A"}].cost = mem[c].cost
      BY DEF CallRecord, Legs
    <3>2. QED
      BY <1>1, <1>2, <2>0, <2>2, <3>1 DEF EndMove, Drives
  <2>3. QED
    BY <1>8, <2>1, <2>2 DEF WaitAEvent
<1>9. CASE BAnswered(c)
  <2>1. [mem[c] EXCEPT !.answered = @ \cup {"B"}] \in CallRecord
        /\ [mem[c] EXCEPT !.answered = @ \cup {"B"}].cost = mem[c].cost
    BY DEF CallRecord, Legs
  <2>2. run[c] \notin HandedOver /\ fin' = fin /\ "b_connected" \notin Ended
    BY <1>9 DEF BAnswered, TakeEvent, HandedOver, Ended
  <2>3. /\ SetStatus(c, "b_connected", [mem[c] EXCEPT !.answered = @ \cup {"B"}])
        /\ RowStatus(c, "b_connected")
    BY <1>9 DEF BAnswered
  <2>4. QED
    BY <1>1, <1>2, <2>1, <2>2, <2>3 DEF EndMove, Drives
<1>10. CASE Bridged(c)
  <2>1. [mem[c] EXCEPT !.bridged = TRUE, !.rec = "recording"] \in CallRecord
        /\ [mem[c] EXCEPT !.bridged = TRUE, !.rec = "recording"].cost = mem[c].cost
    BY DEF CallRecord, RecStatuses
  <2>2. run[c] \notin HandedOver /\ fin' = fin /\ "bridged" \notin Ended
    BY <1>10 DEF Bridged, TakeEvent, HandedOver, Ended
  <2>3. SetStatus(c, "bridged", [mem[c] EXCEPT !.bridged = TRUE, !.rec = "recording"])
    BY <1>10 DEF Bridged
  <2>4. /\ row'[c].status = row[c].status \/ row'[c].status \notin Ended
        /\ row'[c].cost = row[c].cost
    BY <1>10, <2>2 DEF Bridged, CallRow
  <2>5. QED
    BY <1>1, <2>1, <2>2, <2>3, <2>4 DEF EndMove, Drives
<1>11. CASE RunFinalizes(c)
  <2>1. /\ run[c] = "finalize" /\ run' = run /\ fin[c] = "none" /\ fin'[c] = "bill"
        /\ mem' = [mem EXCEPT ![c].status = want[c]] /\ UNCHANGED <<row, hooks>>
    BY <1>11 DEF RunFinalizes, EnterFinalize
  <2>2. mem'[c].status = want[c] /\ mem'[c].cost = mem[c].cost /\ want[c] \in Ended
    BY <2>1 DEF CallRecord, FlowOK, ControlOK
  <2>3. QED
    BY <2>1, <2>2 DEF EndMove, Enters, Told
<1>12. CASE RunReturns(c)
  BY <1>12 DEF RunReturns, EndMove, Stays, Held, Told, HandedOver
<1>13. QED
  BY <1>4, <1>5, <1>7, <1>8, <1>9, <1>10, <1>11, <1>12 DEF RunCall, ParkTimeout, CancelledA

\* The steps of finalizeCall's body
LEMMA FinalizeMovesCall ==
    ASSUME FlowOK, NEW c \in Calls, FinalizeCall(c)
    PROVE  EndMove(c)
<1> USE EndTypes
<1>1. CASE FinalizeBilling(c)
  <2>1. /\ run' = run /\ fin[c] = "bill" /\ fin'[c] = "slot" /\ UNCHANGED <<row, hooks>>
        /\ UNCHANGED mem \/ \E x : mem' = [mem EXCEPT ![c].cost = x]
    BY <1>1 DEF FinalizeBilling
  <2>2. mem'[c].status = mem[c].status
    BY <2>1 DEF CallRecord
  <2>3. QED
    BY <1>1, <2>1, <2>2 DEF EndMove, Works, Told
<1>2. CASE FinalizeSlot(c)
  <2>1. /\ run' = run /\ fin[c] = "slot" /\ fin'[c] \in {"slot", "publish"}
        /\ UNCHANGED <<mem, row, hooks>>
    BY <1>2 DEF FinalizeSlot
  <2>2. QED
    BY <2>1 DEF EndMove, Works, Told
<1>3. CASE FinalizePublish(c)
  <2>1. /\ run' = run /\ fin[c] = "publish" /\ fin'[c] = "persist" /\ UNCHANGED <<row, hooks>>
        /\ UNCHANGED mem \/ \E x : mem' = [mem EXCEPT ![c].rec = x]
    BY <1>3 DEF FinalizePublish
  <2>2. mem'[c].status = mem[c].status /\ mem'[c].cost = mem[c].cost
    BY <2>1 DEF CallRecord
  <2>3. QED
    BY <2>1, <2>2 DEF EndMove, Works, Told
<1>4. CASE FinalizePersist(c)
  <2>1. /\ run' = run /\ fin[c] = "persist" /\ fin'[c] = "notify" /\ UNCHANGED <<mem, hooks>>
    BY <1>4 DEF FinalizePersist
  <2>2. \/ row'[c].status = mem[c].status /\ row'[c].cost = mem[c].cost
        \/ chance["rowdb"] > 0 /\ row' = row
    BY <1>4 DEF FinalizePersist, Chance
  <2>3. QED
    BY <2>1, <2>2 DEF EndMove, Persists, Held
<1>5. CASE FinalizeNotify(c)
  BY <1>5 DEF FinalizeNotify, EndMove, Notifies, Held
<1>6. QED
  BY <1>1, <1>2, <1>3, <1>4, <1>5 DEF FinalizeCall

\* A step of one call says nothing of the others.
LEMMA OthersStay ==
    ASSUME FlowOK, NEW c \in Calls, NEW d \in Calls, c # d,
           Arrive(d) \/ Request(d) \/ RunCall(d) \/ FinalizeCall(d) \/ Sweep(d)
           \/ FreeSwitch(d) \/ Dispatch(d) \/ Worker(d) \/ ForceHangup(d)
    PROVE  Stays(c)
<1> USE EndTypes
<1>1. run'[c] = run[c] /\ mem'[c] = mem[c]
  BY OthersUntouched
<1>2. fin'[c] = fin[c] /\ row'[c] = row[c] /\ hooks'[c] = hooks[c]
  <2>1. CASE Arrive(d) \/ Request(d)
    BY <2>1 DEF Arrive, Request, LaunchCall, flowVars
  <2>2. CASE RunCall(d)
    <3>1. /\ UNCHANGED fin \/ \E s : EnterFinalize(d, s)
          /\ UNCHANGED row \/ Bridged(d) \/ \E s : RowStatus(d, s)
          /\ UNCHANGED hooks \/ \E s : Notified(d, s)
      BY <2>2 DEF RunCall, Start, OriginateALeg, OriginateBLeg, Originate, ALegOriginated,
         BLegOriginated, Originated, ALegFails, BLegFails, WaitAEvent, ParkTimeout, CancelledA,
         WaitAEnds, BAnswered, Bridged, SetStatus, LegHungUp, MaxDuration, CancelledB, WaitBEnds,
         RunFinalizes, EnterFinalize, RunReturns
    <3>2. fin'[c] = fin[c]
      BY <3>1 DEF EnterFinalize
    <3>3. row'[c] = row[c]
      BY <3>1 DEF Bridged, RowStatus
    <3>4. hooks'[c] = hooks[c]
      BY <3>1 DEF Notified
    <3>5. QED
      BY <3>2, <3>3, <3>4
  <2>3. CASE Sweep(d)
    BY <2>3 DEF Sweep, SweepFinalizes, SweepMovesOn, EnterFinalize
  <2>4. CASE FinalizeCall(d)
    BY <2>4 DEF FinalizeCall, FinalizeBilling, FinalizeSlot, FinalizePublish, FinalizePersist,
       FinalizeNotify
  <2>5. CASE FreeSwitch(d) \/ Dispatch(d)
    BY <2>5 DEF FreeSwitch, LegAnswers, LegHangsUp, Dispatch
  <2>6. CASE Worker(d) \/ ForceHangup(d)
    BY <2>6 DEF Worker, MergeDone, MergeFails, ForceHangup
  <2>7. QED
    BY <2>1, <2>2, <2>3, <2>4, <2>5, <2>6
<1>3. QED
  BY <1>1, <1>2 DEF Stays, Held, Told

\* Every step treats the end of a call in one of these ways, as long as no
\* sweep is under way.
LEMMA EveryStepMovesCall ==
    ASSUME FlowOK, LaunchOrder, sweep = <<>>, NEW c \in Calls, [CallbackNext]_vars
    PROVE  EndMove(c)
<1> USE EndTypes
<1>1. ASSUME run'[c] = run[c], fin'[c] = fin[c], mem'[c] = mem[c], hooks'[c] = hooks[c],
             row'[c].status = row[c].status, row'[c].cost = row[c].cost
      PROVE  EndMove(c)
  BY <1>1 DEF EndMove, Stays, Held, Told
<1>2. ASSUME NEW d \in Calls, d # c,
             Arrive(d) \/ Request(d) \/ RunCall(d) \/ FinalizeCall(d) \/ Sweep(d)
             \/ FreeSwitch(d) \/ Dispatch(d) \/ Worker(d) \/ ForceHangup(d)
      PROVE  EndMove(c)
  BY <1>2, OthersStay DEF EndMove
<1>3. CASE LaunchCall(c)
  <2>1. run[c] = "none"
    BY <1>3 DEF LaunchCall, Launch, LaunchOrder, Launched
  <2>2. /\ UNCHANGED <<fin, mem, hooks>>
        /\ row' = [row EXCEPT ![c].status = "initiating"]
    BY <1>3 DEF LaunchCall
  <2>3. row'[c].status \notin Ended /\ row'[c].cost = row[c].cost
    BY <2>2 DEF Ended, CallRow
  <2>4. QED
    BY <2>1, <2>2, <2>3 DEF EndMove, Drives, HandedOver
<1>4. CASE Arrive(c) \/ Request(c)
  BY <1>1, <1>3, <1>4 DEF Arrive, Request, flowVars
<1>5. CASE RunCall(c) \/ FinalizeCall(c)
  BY <1>5, RunCallMoves, FinalizeMovesCall
<1>6. ~Sweep(c)
  BY DEF Sweep, SweepFinalizes, SweepMovesOn
<1>7. CASE FreeSwitch(c) \/ Dispatch(c) \/ ForceHangup(c)
  BY <1>1, <1>7 DEF FreeSwitch, LegAnswers, LegHangsUp, Dispatch, ForceHangup
<1>8. CASE Worker(c)
  <2>1. /\ UNCHANGED <<run, fin, mem, hooks>>
        /\ UNCHANGED row \/ \E x : row' = [row EXCEPT ![c].rec = x]
    BY <1>8 DEF Worker, MergeDone, MergeFails
  <2>2. row'[c].status = row[c].status /\ row'[c].cost = row[c].cost
    BY <2>1 DEF CallRow
  <2>3. QED
    BY <1>1, <2>1, <2>2
<1>9. CASE (\E u \in Users : Account(u)) \/ Disconnect \/ Shutdown \/ Quiet \/ UNCHANGED vars
  BY <1>1, <1>9 DEF Account, Disconnect, Shutdown, Quiet, vars, flowVars
<1>10. CASE Restart
  <2>1. /\ run'[c] = run[c] \/ run'[c] = "lost"
        /\ fin'[c] = IF fin[c] \in {"none", "done"} THEN fin[c] ELSE "lost"
        /\ UNCHANGED <<mem, row, hooks>>
    BY <1>10 DEF Restart
  <2>2. CASE fin[c] \in {"none", "done"}
    BY <2>1, <2>2 DEF EndMove, Stays, Held, Told, HandedOver
  <2>3. CASE fin[c] \notin {"none", "done"}
    BY <2>1, <2>3 DEF EndMove, Loses, Held, Told, HandedOver
  <2>4. QED
    BY <2>2, <2>3
<1>11. QED
  BY <1>2, <1>4, <1>5, <1>6, <1>7, <1>8, <1>9, <1>10 DEF CallbackNext

--------------------------------------------------------------------------------
(* An ended call stays ended *)

\* The connection is up and stays up, so finalizeCall has one caller, runCall.
NeverSwept == conn /\ sweep = <<>> /\ chance["disconnect"] = 0

\* finalizeCall begins when runCall is through; only it sets an ended status,
\* and it writes the row and sends the last webhook in this order.
EndsOnce(c) ==
    /\ fin[c] # "none" => run[c] \in HandedOver
    /\ mem[c].status \in Ended <=> fin[c] # "none"
    /\ row[c].status \in Ended => fin[c] \in {"notify", "done", "lost"}
    /\ (\E i \in DOMAIN hooks[c] : hooks[c][i] \in Ended) => fin[c] = "done"

EndInv == NeverSwept /\ \A c \in Calls : EndsOnce(c)

LEMMA NeverSweptStep ==
    ASSUME FlowOK, NeverSwept, [CallbackNext]_vars
    PROVE  NeverSwept'
<1>1. chance'["disconnect"] = 0
  BY NoMoreChances DEF NeverSwept, EventKinds
<1>2. ASSUME NEW d \in Calls,
             \/ Arrive(d) \/ Request(d) \/ RunCall(d) \/ FinalizeCall(d) \/ Sweep(d)
             \/ FreeSwitch(d) \/ Dispatch(d) \/ Worker(d) \/ ForceHangup(d)
      PROVE  UNCHANGED <<conn, sweep>>
  <2>1. CASE Arrive(d) \/ Request(d)
    BY <2>1 DEF Arrive, Request, LaunchCall, flowVars
  <2>2. CASE RunCall(d)
    BY <2>2 DEF RunCall, Start, OriginateALeg, OriginateBLeg, Originate, ALegOriginated,
       BLegOriginated, Originated, ALegFails, BLegFails, WaitAEvent, ParkTimeout, CancelledA,
       WaitAEnds, BAnswered, Bridged, LegHungUp, MaxDuration, CancelledB, WaitBEnds,
       RunFinalizes, EnterFinalize, RunReturns
  <2>3. CASE FinalizeCall(d)
    BY <2>3 DEF FinalizeCall, FinalizeBilling, FinalizeSlot, FinalizePublish, FinalizePersist,
       FinalizeNotify
  <2>4. ~Sweep(d)
    BY DEF Sweep, SweepFinalizes, SweepMovesOn, NeverSwept
  <2>5. CASE FreeSwitch(d) \/ Dispatch(d) \/ Worker(d) \/ ForceHangup(d)
    BY <2>5 DEF FreeSwitch, LegAnswers, LegHangsUp, Dispatch, Worker, MergeDone, MergeFails,
       ForceHangup
  <2>6. QED
    BY <1>2, <2>1, <2>2, <2>3, <2>4, <2>5
<1>3. ~Disconnect
  BY DEF Disconnect, Chance, NeverSwept
<1>4. CASE Restart \/ Shutdown \/ Quiet \/ UNCHANGED vars \/ \E u \in Users : Account(u)
  BY <1>1, <1>4 DEF Restart, Shutdown, Account, Quiet, vars, flowVars, NeverSwept
<1>5. QED
  BY <1>1, <1>2, <1>3, <1>4 DEF CallbackNext, NeverSwept

LEMMA EndsOnceStep ==
    ASSUME FlowOK, FlowOK', NEW c \in Calls, EndsOnce(c), EndMove(c)
    PROVE  EndsOnce(c)'
<1> USE EndTypes DEF HandedOver
<1>0. hooks[c] \in Seq(Statuses) /\ mem[c].status \in Statuses /\ mem'[c].status \in Statuses
  BY DEF FlowOK, RecordsOK, CallRecord
<1>1. ASSUME NEW s \in Statuses, hooks'[c] = Append(hooks[c], s)
      PROVE  \A i \in DOMAIN hooks'[c] : hooks'[c][i] \in Ended =>
                 s \in Ended \/ \E j \in DOMAIN hooks[c] : hooks[c][j] \in Ended
  <2>1. /\ Len(hooks'[c]) = Len(hooks[c]) + 1 /\ Len(hooks[c]) \in Nat
        /\ \A i \in 1..Len(hooks[c]) : hooks'[c][i] = hooks[c][i]
        /\ hooks'[c][Len(hooks[c]) + 1] = s
    BY <1>0, <1>1, AppendLayout, LenProperties
  <2>2. DOMAIN hooks[c] = 1..Len(hooks[c]) /\ DOMAIN hooks'[c] = 1..Len(hooks'[c])
    BY <1>0, <1>1, AppendFacts, LenProperties DEF FlowOK, RecordsOK
  <2>3. QED
    BY <2>1, <2>2
<1>2. CASE Stays(c) \/ Loses(c)
  <2>1. /\ mem'[c].status = mem[c].status /\ row'[c].status = row[c].status
        /\ hooks'[c] = hooks[c]
    BY <1>2 DEF Stays, Loses, Held, Told
  <2>2. CASE Stays(c)
    BY <2>1, <2>2 DEF Stays, EndsOnce
  <2>3. CASE Loses(c)
    BY <2>1, <2>3 DEF Loses, EndsOnce
  <2>4. QED
    BY <1>2, <2>2, <2>3
<1>3. CASE Drives(c)
  <2>1. fin[c] = "none" /\ fin'[c] = "none" /\ mem'[c].status \notin Ended
    BY <1>3 DEF Drives, EndsOnce
  <2>2. row'[c].status \notin Ended
    BY <1>3, <2>1 DEF Drives, EndsOnce
  <2>3. \A i \in DOMAIN hooks'[c] : hooks'[c][i] \notin Ended
    BY <1>0, <1>1, <1>3, <2>1 DEF Drives, EndsOnce
  <2>4. QED
    BY <2>1, <2>2, <2>3 DEF EndsOnce
<1>4. CASE Enters(c)
  BY <1>4 DEF Enters, Told, EndsOnce
<1>5. CASE Works(c)
  <2>1. /\ run'[c] = run[c] /\ fin[c] \in {"bill", "slot", "publish"}
        /\ fin'[c] \in {"slot", "publish", "persist"}
        /\ mem'[c].status = mem[c].status /\ row'[c].status = row[c].status /\ hooks'[c] = hooks[c]
    BY <1>5 DEF Works, Told
  <2>2. QED
    BY <2>1 DEF EndsOnce
<1>6. CASE Persists(c)
  BY <1>6 DEF Persists, Held, EndsOnce
<1>7. CASE Notifies(c)
  BY <1>7 DEF Notifies, Held, EndsOnce
<1>8. QED
  BY <1>2, <1>3, <1>4, <1>5, <1>6, <1>7 DEF EndMove

LEMMA EndInvAlways ==
    ASSUME Chances["disconnect"] = 0
    PROVE  CallbackSpec => []EndInv
<1>1. CallbackInit => EndInv
  BY DEF CallbackInit, EndInv, NeverSwept, EndsOnce, NewCall, NoRow, Ended
<1>2. ASSUME FlowOK, FlowOK', LaunchOrder, EndInv, [CallbackNext]_vars
      PROVE  EndInv'
  <2>1. NeverSwept'
    BY <1>2, NeverSweptStep DEF EndInv
  <2>2. ASSUME NEW c \in Calls PROVE EndsOnce(c)'
    BY <1>2, EveryStepMovesCall, EndsOnceStep DEF EndInv, NeverSwept
  <2>3. QED
    BY <2>1, <2>2 DEF EndInv
<1>3. QED
  BY <1>1, <1>2, FlowTypeAlways, LaunchOrderAlways, PTL DEF CallbackSpec

\* As long as the connection to FreeSWITCH holds: once the row says finished
\* or failed nothing changes that, and no webhook follows the one that told
\* the end, whoever cancels the call and wherever a statement fails.
THEOREM EndIsFinalHolds ==
    ASSUME Chances["disconnect"] = 0
    PROVE  CallbackSpec => EndIsFinal
<1>1. ASSUME FlowOK, LaunchOrder, EndInv, [CallbackNext]_vars, NEW c \in Calls
      PROVE  /\ row[c].status \in Ended => row'[c].status = row[c].status
             /\ (\E i \in DOMAIN hooks[c] : hooks[c][i] \in Ended) => hooks'[c] = hooks[c]
  <2>1. EndMove(c) /\ EndsOnce(c)
    BY <1>1, EveryStepMovesCall DEF EndInv, NeverSwept
  <2>2. row[c].status \in Ended => row'[c].status = row[c].status
    BY <2>1 DEF EndMove, Stays, Drives, Enters, Works, Persists, Notifies, Loses, Held, Told,
       EndsOnce
  <2>3. (\E i \in DOMAIN hooks[c] : hooks[c][i] \in Ended) => hooks'[c] = hooks[c]
    BY <2>1 DEF EndMove, Stays, Drives, Enters, Works, Persists, Notifies, Loses, Held, Told,
       EndsOnce
  <2>4. QED
    BY <2>2, <2>3
<1>2. ASSUME FlowOK, LaunchOrder, EndInv, [CallbackNext]_vars
      PROVE  [\A c \in Calls :
                 /\ row[c].status \in Ended => row'[c].status = row[c].status
                 /\ (\E i \in DOMAIN hooks[c] : hooks[c][i] \in Ended) => hooks'[c] = hooks[c]]_vars
  BY <1>1, <1>2
<1>3. QED
  BY <1>2, FlowTypeAlways, LaunchOrderAlways, EndInvAlways, PTL DEF CallbackSpec, EndIsFinal

--------------------------------------------------------------------------------
(* Everything that tells of the end agrees *)

\* Neither billing.Finalize nor updateCallFinal fails.
StoresWork == left["db"] = 0 /\ chance["rowdb"] = 0

\* The account has been charged what finalizeCall has in hand.
Charged(c) ==
    /\ Len(txs[c]) = 2
    /\ Signed(txs[c][1]) + Signed(txs[c][2]) = -mem[c].cost

Agreed(c) ==
    /\ fin[c] \in {"slot", "publish", "persist", "notify", "done"} => Charged(c)
    /\ fin[c] \in {"notify", "done"} => row[c].status = mem[c].status /\ row[c].cost = mem[c].cost
    /\ fin[c] = "done" => Last(hooks[c]) = mem[c].status

ReportInv == StoresWork /\ \A c \in Calls : Agreed(c)

LEMMA StoresWorkStep ==
    ASSUME AdmissionTypeOK, AdmissionTypeOK', FlowOK, StoresWork, [CallbackNext]_vars
    PROVE  StoresWork'
BY NoMoreFaults, NoMoreChances DEF StoresWork, FaultKinds, EventKinds

\* A call with two rows gets no third: the money of a closed call stays.
LEMMA ClosedStays ==
    ASSUME MoneyInv, [AdmissionNext]_admissionVars, NEW c \in Calls, Len(txs[c]) = 2
    PROVE  txs'[c] = txs[c]
<1>1. MoneyMove /\ txs \in [Calls -> Seq(TxRow)]
  BY EveryStepMoves DEF MoneyInv, AdmissionTypeOK, BillingTypeOK
<1>2. phase[c] \notin OpenPhases /\ phase[c] # "idle"
  <2>1. Len(<<>>) # 2
    OBVIOUS
  <2>2. QED
    BY <2>1 DEF MoneyInv, RowsMatchPhase
<1>3. ASSUME NEW d \in Calls, NEW cost \in Costs, Opens(d) \/ Closes(d, cost)
      PROVE  txs'[c] = txs[c]
  <2>1. d # c
    BY <1>2, <1>3 DEF Opens, Closes
  <2>2. QED
    BY <1>1, <1>3, <2>1 DEF Opens, Closes, PreDeductTx, FinalizeTx
<1>4. QED
  BY <1>1, <1>3, NoUsageIsFree DEF MoneyMove, Keeps, Adjusts

\* finalizeCall charges what it keeps as the call's cost.
LEMMA BillingCharges ==
    ASSUME FlowOK, MoneyInv, HoldTaken, StoresWork, NEW c \in Calls, FinalizeBilling(c)
    PROVE  Charged(c)'
<1>1. PICK a \in DurationsOf(c, "A"), b \in DurationsOf(c, "B") :
          Settle(c, a, b) /\ mem' = [mem EXCEPT ![c].cost = CallCost(a, b)]
  BY DEF FinalizeBilling, SettleFails, Spend, StoresWork
<1>2. a \in Durations /\ b \in Durations
  BY BilledDurations DEF Legs
<1>3. CallCost(a, b) \in Costs
  BY <1>2 DEF Costs
<1>4. Len(txs[c]) = 1 /\ FinalizeTx(c, CallCost(a, b))
  BY <1>1 DEF Settle, MoneyInv, RowsMatchPhase, OpenPhases
<1>5. Len(txs'[c]) = 2 /\ Signed(txs'[c][1]) + Signed(txs'[c][2]) = -CallCost(a, b)
  BY <1>3, <1>4, ClosedRows
<1>6. mem'[c].cost = CallCost(a, b)
  BY <1>1, EndTypes DEF CallRecord
<1>7. QED
  BY <1>5, <1>6 DEF Charged

LEMMA AgreedStep ==
    ASSUME FlowOK, MoneyInv, HoldTaken, StoresWork, NEW c \in Calls, EndsOnce(c), Agreed(c),
           EndMove(c), [AdmissionNext]_admissionVars
    PROVE  Agreed(c)'
<1> DEFINE Billed == {"slot", "publish", "persist", "notify", "done"}
<1>1. fin'[c] \in Billed => Charged(c)'
  <2>1. CASE FinalizeBilling(c)
    BY <2>1, BillingCharges
  <2>2. ASSUME ~FinalizeBilling(c), fin'[c] \in Billed
        PROVE  fin[c] \in Billed /\ mem'[c].cost = mem[c].cost
    BY <2>2 DEF EndMove, Stays, Drives, Enters, Works, Persists, Notifies, Loses, Held, EndsOnce
  <2>3. ASSUME fin[c] \in Billed, mem'[c].cost = mem[c].cost
        PROVE  Charged(c)'
    <3>1. Charged(c)
      BY <2>3 DEF Agreed
    <3>2. txs'[c] = txs[c]
      BY <3>1, ClosedStays DEF Charged
    <3>3. QED
      BY <2>3, <3>1, <3>2 DEF Charged
  <2>4. QED
    BY <2>1, <2>2, <2>3
<1>2. fin'[c] \in {"notify", "done"} => row'[c].status = mem'[c].status /\ row'[c].cost = mem'[c].cost
  BY DEF EndMove, Stays, Drives, Enters, Works, Persists, Notifies, Loses, Held, Told, EndsOnce,
     Agreed, StoresWork
<1>3. fin'[c] = "done" => Last(hooks'[c]) = mem'[c].status
  <2>1. ASSUME Notifies(c)
        PROVE  Last(hooks'[c]) = mem'[c].status
    <3>1. hooks[c] \in Seq(Statuses) /\ mem[c].status \in Statuses
      BY DEF FlowOK, RecordsOK, CallRecord
    <3>2. hooks'[c] = Append(hooks[c], mem[c].status) /\ mem'[c].status = mem[c].status
      BY <2>1 DEF Notifies, Held
    <3>3. Last(Append(hooks[c], mem[c].status)) = mem[c].status
      <4>1. /\ Len(Append(hooks[c], mem[c].status)) = Len(hooks[c]) + 1
            /\ Append(hooks[c], mem[c].status)[Len(hooks[c]) + 1] = mem[c].status
        BY <3>1, AppendLayout, Zenon
      <4>2. QED
        BY <4>1 DEF Last
    <3>4. QED
      BY <3>2, <3>3
  <2>2. ASSUME ~Notifies(c), fin'[c] = "done"
        PROVE  fin[c] = "done" /\ hooks'[c] = hooks[c] /\ mem'[c].status = mem[c].status
    BY <2>2 DEF EndMove, Stays, Drives, Enters, Works, Persists, Loses, Held, Told, EndsOnce
  <2>3. QED
    BY <2>1, <2>2 DEF Agreed
<1>4. QED
  BY <1>1, <1>2, <1>3 DEF Agreed

LEMMA ServiceMoney == CallbackSpec => [](MoneyInv /\ HoldTaken)
BY CallbackImplementsAdmission, MoneyAlways, HoldTakenAlways, PTL

\* As long as the connection to FreeSWITCH holds and neither store refuses
\* finalizeCall: the total_cost of the row is what the two transactions took
\* from the account, and when finalizeCall is through, the row and the last
\* webhook tell the same end, for every duration and rate, whoever cancels.
THEOREM ReportsAgreeHolds ==
    ASSUME Chances["disconnect"] = 0, Chances["rowdb"] = 0, Budget["db"] = 0
    PROVE  CallbackSpec => []ReportsAgree
<1>1. CallbackInit => ReportInv
  BY DEF CallbackInit, AdmissionInit, ReportInv, StoresWork, Agreed
<1>2. ASSUME AdmissionTypeOK, AdmissionTypeOK', FlowOK, MoneyInv, HoldTaken, LaunchOrder, EndInv,
             ReportInv, [CallbackNext]_vars
      PROVE  ReportInv'
  <2>1. StoresWork' /\ [AdmissionNext]_admissionVars
    BY <1>2, StoresWorkStep, CallbackStepImplementsAdmission DEF ReportInv
  <2>2. ASSUME NEW c \in Calls PROVE Agreed(c)'
    BY <1>2, <2>1, EveryStepMovesCall, AgreedStep DEF ReportInv, EndInv, NeverSwept
  <2>3. QED
    BY <2>1, <2>2 DEF ReportInv
<1>3. EndInv /\ ReportInv => ReportsAgree
  BY DEF EndInv, EndsOnce, ReportInv, Agreed, Charged, ReportsAgree
<1>4. QED
  BY <1>1, <1>2, <1>3, FlowTypeAlways, ServiceMoney, LaunchOrderAlways, EndInvAlways, PTL
     DEF CallbackSpec

==================================================================================
