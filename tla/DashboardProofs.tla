--------------------------- MODULE DashboardProofs ---------------------------
(* Proofs about Dashboard, for any choice and order of the properties, any *)
(* values and any number of questions under way.                           *)
EXTENDS Dashboard, TLAPS

(* Collectors run in a view, and only while it can be seen. *)
CollectorsHaveView == collecting => view /\ activity = "started"

FlowsAndTexts == DOMAIN flow = Properties /\ DOMAIN shown = Properties

IInv == CollectorsHaveView /\ FlowsAndTexts /\ ViewFollowsFlows

LEMMA InitInv == Init => IInv
  BY DEF Init, IInv, CollectorsHaveView, FlowsAndTexts, ViewFollowsFlows

(* Setting a flow keeps the view in step with it. *)
LEMMA SetFlowInv ==
  ASSUME IInv, NEW p, NEW v, SetFlow(p, v),
         UNCHANGED <<activity, view, collecting, posts>>
  PROVE  IInv'
<1>1. CollectorsHaveView'
  BY DEF IInv, CollectorsHaveView
<1>2. FlowsAndTexts'
  BY DEF IInv, FlowsAndTexts, SetFlow
<1>3. ASSUME alive', collecting', NEW q \in Properties \ {"rpm"}
      PROVE  shown'[q] = Display(q, flow'[q], RangeOf(q)')
  <2>1. RangeOf(q)' = RangeOf(q)
    BY DEF RangeOf
  <2>2. shown[q] = Display(q, flow[q], RangeOf(q))
    BY <1>3 DEF IInv, ViewFollowsFlows, SetFlow
  <2>3. q \in DOMAIN flow /\ q \in DOMAIN shown
    BY DEF IInv, FlowsAndTexts
  <2>4. CASE q = p /\ v # flow[p]
    <3>1. flow'[q] = v
      BY <2>3, <2>4 DEF SetFlow
    <3>2. shown'[q] = Display(q, v, RangeOf(q))
      BY <1>3, <2>3, <2>4 DEF SetFlow
    <3> QED BY <2>1, <3>1, <3>2
  <2>5. CASE ~(q = p /\ v # flow[p])
    <3>1. flow'[q] = flow[q] /\ shown'[q] = shown[q]
      BY <1>3, <2>3, <2>5 DEF SetFlow
    <3> QED BY <2>1, <2>2, <3>1
  <2> QED BY <2>4, <2>5
<1> QED BY <1>1, <1>2, <1>3 DEF IInv, ViewFollowsFlows

(* A step of the activity or the view. *)
LEMMA LifeCycleInv ==
  ASSUME IInv, Create \/ Start \/ Stop \/ Destroy \/ LeaveDashboard
  PROVE  IInv'
<1>1. CASE Create
  BY <1>1 DEF Create, NewView, IInv, CollectorsHaveView, FlowsAndTexts,
              ViewFollowsFlows
<1>2. CASE Start
  <2>1. CASE view
    BY <1>2, <2>1 DEF Start, Collect, IInv, CollectorsHaveView, FlowsAndTexts,
                      ViewFollowsFlows, RangeOf
  <2>2. CASE ~view
    BY <1>2, <2>2 DEF Start, IInv, CollectorsHaveView, FlowsAndTexts,
                      ViewFollowsFlows
  <2> QED BY <2>1, <2>2
<1>3. CASE Stop
  BY <1>3 DEF Stop, IInv, CollectorsHaveView, FlowsAndTexts, ViewFollowsFlows
<1>4. CASE Destroy
  BY <1>4 DEF Destroy, NoView, IInv, CollectorsHaveView, FlowsAndTexts,
              ViewFollowsFlows
<1>5. CASE LeaveDashboard
  BY <1>5 DEF LeaveDashboard, NoView, appVars, IInv, CollectorsHaveView,
              FlowsAndTexts, ViewFollowsFlows
<1> QED BY <1>1, <1>2, <1>3, <1>4, <1>5

LEMMA ShowDashboardInv ==
  ASSUME IInv, ShowDashboard
  PROVE  IInv'
<1>1. CollectorsHaveView' /\ FlowsAndTexts'
  BY DEF ShowDashboard, appVars, IInv, CollectorsHaveView, FlowsAndTexts
<1>2. ASSUME NEW q \in Properties
      PROVE  shown'[q] = Display(q, flow'[q], RangeOf(q)')
  <2>1. RangeOf(q)' = IF q \in Gauges THEN "unset" ELSE "set"
    BY DEF ShowDashboard, RangeOf
  <2>2. flow' = flow
    BY DEF ShowDashboard
  <2>3. shown'[q] = Display(q, flow[q],
                            IF q \in Gauges THEN "unset" ELSE "set")
    BY DEF ShowDashboard
  <2> QED BY <2>1, <2>2, <2>3
<1> QED BY <1>1, <1>2 DEF IInv, ViewFollowsFlows

LEMMA RunPostInv ==
  ASSUME IInv, NEW p \in Gauges, RunPost(p)
  PROVE  IInv'
<1>1. CollectorsHaveView' /\ FlowsAndTexts'
  BY DEF RunPost, appVars, IInv, CollectorsHaveView, FlowsAndTexts
<1>2. ASSUME alive', collecting', NEW q \in Properties \ {"rpm"}
      PROVE  shown'[q] = Display(q, flow'[q], RangeOf(q)')
  <2>1. flow' = flow /\ posts' = posts \ {p}
    BY DEF RunPost
  <2>2. q \in DOMAIN shown
    BY DEF IInv, FlowsAndTexts
  <2>3. CASE q = p
    <3>1. shown'[q] = Posted(q, flow[q])
      BY <2>2, <2>3 DEF RunPost
    <3>2. q = "speed"
      BY <1>2, <2>3 DEF Gauges
    <3>3. Posted(q, flow[q]) = Display(q, flow[q], "set")
      BY <3>2 DEF Posted, Display
    <3>4. RangeOf(q)' = "set"
      BY <2>1, <2>3 DEF RangeOf
    <3> QED BY <2>1, <3>1, <3>3, <3>4
  <2>4. CASE q # p
    <3>1. RangeOf(q)' = RangeOf(q)
      BY <2>1, <2>4 DEF RangeOf
    <3>2. shown'[q] = shown[q]
      BY <2>2, <2>4 DEF RunPost
    <3>3. shown[q] = Display(q, flow[q], RangeOf(q))
      BY <1>2 DEF RunPost, appVars, IInv, ViewFollowsFlows
    <3> QED BY <2>1, <3>1, <3>2, <3>3
  <2> QED BY <2>3, <2>4
<1> QED BY <1>1, <1>2 DEF IInv, ViewFollowsFlows

(* An event changes nothing, sets a flow, or ends the process. *)
LEMMA EventEffects ==
  ASSUME OnChangeEvent
  PROVE  \/ Keep
         \/ \E v : SetFlow(Head(events).property, v)
         \/ Die
  BY DEF OnChangeEvent, SetSpeed, SetDiagnostic

LEMMA EventInv ==
  ASSUME IInv, OnChangeEvent
  PROVE  IInv'
<1>1. UNCHANGED <<activity, view, collecting, posts>>
  BY DEF OnChangeEvent
<1>2. CASE Keep
  BY <1>1, <1>2 DEF Keep, IInv, CollectorsHaveView, FlowsAndTexts,
                    ViewFollowsFlows, RangeOf
<1>3. CASE \E v : SetFlow(Head(events).property, v)
  BY <1>1, <1>3, SetFlowInv
<1>4. CASE Die
  BY <1>1, <1>4 DEF Die, IInv, CollectorsHaveView, FlowsAndTexts,
                    ViewFollowsFlows
<1> QED BY <1>2, <1>3, <1>4, EventEffects

LEMMA NextInv == IInv /\ [Next]_vars => IInv'
<1> SUFFICES ASSUME IInv, [Next]_vars PROVE IInv'
  OBVIOUS
<1>1. CASE Create \/ Start \/ Stop \/ Destroy \/ LeaveDashboard
  BY <1>1, LifeCycleInv
<1>2. CASE ShowDashboard
  BY <1>2, ShowDashboardInv
<1>3. CASE \E p \in Gauges : RunPost(p)
  BY <1>3, RunPostInv
<1>4. CASE OnChangeEvent
  BY <1>4, EventInv
<1>5. CASE UNCHANGED <<alive, activity, flow, viewVars>>
  BY <1>5 DEF viewVars, IInv, CollectorsHaveView, FlowsAndTexts,
              ViewFollowsFlows, RangeOf
<1>7. CASE PollThrows
  BY <1>7 DEF PollThrows, viewVars, IInv, CollectorsHaveView, FlowsAndTexts,
              ViewFollowsFlows
<1>6. CASE Poll \/ CarAnswers \/ CarChanges \/ UNCHANGED vars
  BY <1>5, <1>6 DEF Poll, CarAnswers, CarChanges, appVars, vars
<1> QED BY <1>1, <1>2, <1>3, <1>4, <1>6, <1>7 DEF Next

-----------------------------------------------------------------------------
(* Types.                                                                  *)

LEMMA PolledIsProperty ==
  ASSUME NEW k \in DOMAIN Polled
  PROVE  Polled[k] \in Properties
  BY DEF Properties

(* The turn goes round. *)
LEMMA TurnStays ==
  ASSUME turn \in DOMAIN Polled
  PROVE  (turn % Len(Polled)) + 1 \in DOMAIN Polled
<1>1. Len(Polled) \in Nat \ {0} /\ DOMAIN Polled = 1..Len(Polled)
  BY DashboardAssumption
<1>2. turn % Len(Polled) \in 0..(Len(Polled) - 1)
  BY <1>1
<1> QED BY <1>1, <1>2

LEMMA InitTypeOK == Init => TypeOK
<1> SUFFICES ASSUME Init PROVE TypeOK
  OBVIOUS
<1>1. turn \in DOMAIN Polled
  BY DashboardAssumption DEF Init
<1>2. DOMAIN car = Properties /\ \A p \in Properties : car[p] \in Values[p]
  BY DEF Init
<1>3. asked \in Seq(Properties)
      /\ events \in Seq([property : Properties, value : Said])
      /\ DOMAIN events = {}
  BY DEF Init
<1>4. changes \in 0..MaxChanges
  BY DashboardAssumption DEF Init
<1> QED BY <1>1, <1>2, <1>3, <1>4 DEF Init, TypeOK

LEMMA FirstAndRest ==
  ASSUME NEW S, NEW s \in Seq(S), s # <<>>
  PROVE  /\ 1 \in DOMAIN s /\ Head(s) = s[1] /\ Head(s) \in S
         /\ Tail(s) \in Seq(S)
         /\ \A k \in DOMAIN Tail(s) : k + 1 \in DOMAIN s /\ Tail(s)[k] = s[k + 1]
  OBVIOUS

(* The first event and those after it have the type of all. *)
LEMMA EventTypes ==
  ASSUME TypeOK, events # <<>>
  PROVE  /\ Head(events).property \in Properties
         /\ Head(events).value
              \in Values[Head(events).property] \union {Missing}
         /\ Tail(events) \in Seq([property : Properties, value : Said])
         /\ \A k \in DOMAIN Tail(events) :
              Tail(events)[k].value
                \in Values[Tail(events)[k].property] \union {Missing}
<1>1. events \in Seq([property : Properties, value : Said])
  BY DEF TypeOK
<1>2. 1 \in DOMAIN events /\ Head(events) = events[1]
  BY <1>1, FirstAndRest
<1>3. \A k \in DOMAIN Tail(events) :
        k + 1 \in DOMAIN events /\ Tail(events)[k] = events[k + 1]
  BY <1>1, FirstAndRest
<1>4. /\ Head(events).property \in Properties
      /\ Head(events).value \in Values[Head(events).property] \union {Missing}
  <2>1. Head(events) \in [property : Properties, value : Said]
    BY <1>1, FirstAndRest
  <2>2. events[1].value \in Values[events[1].property] \union {Missing}
    BY <1>2 DEF TypeOK
  <2> QED BY <1>2, <2>1, <2>2
<1>5. Tail(events) \in Seq([property : Properties, value : Said])
  BY <1>1, FirstAndRest
<1>6. ASSUME NEW k \in DOMAIN Tail(events)
      PROVE  Tail(events)[k].value
               \in Values[Tail(events)[k].property] \union {Missing}
  BY <1>3 DEF TypeOK
<1> QED BY <1>4, <1>5, <1>6

LEMMA CarAnswersTypeOK ==
  ASSUME TypeOK, CarAnswers
  PROVE  TypeOK'
<1> DEFINE e(value) == [property |-> Head(asked), value |-> value]
<1>1. Head(asked) \in Properties /\ asked' \in Seq(Properties)
  BY DEF TypeOK, CarAnswers
<1>2. car[Head(asked)] \in Values[Head(asked)]
  BY <1>1 DEF TypeOK
<1>3. changes' \in 0..MaxChanges
  BY DashboardAssumption DEF TypeOK, CarAnswers
<1>4. \E v \in Values[Head(asked)] \union {Missing} :
        events' = events \/ events' = Append(events, e(v))
  BY <1>2 DEF CarAnswers
<1>5. PICK v \in Values[Head(asked)] \union {Missing} :
        events' = events \/ events' = Append(events, e(v))
  BY <1>4
<1>6. v \in Said
  <2>1. CASE v = Missing
    BY <2>1 DEF Said
  <2>2. CASE v \in Values[Head(asked)]
    BY <1>1, <2>2 DEF Said
  <2> QED BY <1>5, <2>1, <2>2
<1>7. e(v) \in [property : Properties, value : Said]
  BY <1>1, <1>6
<1>8. /\ events' \in Seq([property : Properties, value : Said])
      /\ \A k \in DOMAIN events' :
           events'[k].value \in Values[events'[k].property] \union {Missing}
  <2>1. CASE events' = events
    BY <2>1 DEF TypeOK
  <2>2. CASE events' = Append(events, e(v))
    <3>1. events' \in Seq([property : Properties, value : Said])
      BY <1>7, <2>2 DEF TypeOK
    <3>2. ASSUME NEW k \in DOMAIN events'
          PROVE  \/ events'[k] = e(v)
                 \/ k \in DOMAIN events /\ events'[k] = events[k]
      <4>1. events \in Seq([property : Properties, value : Said])
        BY DEF TypeOK
      <4>2. k \in 1..(Len(events) + 1)
        BY <1>7, <2>2, <3>2, <4>1
      <4>3. CASE k = Len(events) + 1
        BY <1>7, <2>2, <4>1, <4>3
      <4>4. CASE k \in 1..Len(events)
        BY <1>7, <2>2, <4>1, <4>4
      <4> QED BY <4>1, <4>2, <4>3, <4>4
    <3>3. e(v).value \in Values[e(v).property] \union {Missing}
      BY <1>5
    <3> QED BY <3>1, <3>2, <3>3 DEF TypeOK
  <2> QED BY <1>5, <2>1, <2>2
<1> QED BY <1>1, <1>3, <1>8
        DEF TypeOK, CarAnswers, appVars, viewVars

LEMMA NextTypeOK == TypeOK /\ [Next]_vars => TypeOK'
<1> SUFFICES ASSUME TypeOK, [Next]_vars PROVE TypeOK'
  OBVIOUS
<1>1. CASE Create \/ Start \/ Stop \/ Destroy \/ LeaveDashboard \/ ShowDashboard
  <2>1. 1 \in DOMAIN Polled
    BY DashboardAssumption
  <2>2. UNCHANGED <<alive, flow, carVars>>
    BY <1>1 DEF Create, Start, Stop, Destroy, LeaveDashboard, ShowDashboard,
                appVars
  <2>3. /\ activity' \in {"none", "stopped", "started"}
        /\ registered' \in BOOLEAN
        /\ turn' \in DOMAIN Polled
    BY <1>1, <2>1 DEF Create, Start, Stop, Destroy, LeaveDashboard,
                      ShowDashboard, appVars, TypeOK
  <2>4. /\ view' \in BOOLEAN /\ collecting' \in BOOLEAN
        /\ posts' \subseteq Gauges
        /\ DOMAIN shown' = Properties
    <3>1. CASE Create
      BY <3>1 DEF Create, NewView, TypeOK
    <3>2. CASE Start
      BY <3>2 DEF Start, Collect, TypeOK
    <3>3. CASE Stop
      BY <3>3 DEF Stop, TypeOK
    <3>4. CASE Destroy \/ LeaveDashboard
      BY <3>4 DEF Destroy, LeaveDashboard, NoView, TypeOK
    <3>5. CASE ShowDashboard
      BY <3>5 DEF ShowDashboard, TypeOK
    <3> QED BY <1>1, <3>1, <3>2, <3>3, <3>4, <3>5
  <2> QED BY <2>2, <2>3, <2>4 DEF TypeOK, carVars
<1>2. CASE \E p \in Gauges : RunPost(p)
  BY <1>2 DEF RunPost, appVars, carVars, TypeOK
<1>3. CASE Poll
  <2>1. asked' \in Seq(Properties)
    BY <1>3, PolledIsProperty DEF Poll, TypeOK
  <2>2. turn' \in DOMAIN Polled
    BY <1>3, TurnStays DEF Poll, TypeOK
  <2> QED BY <1>3, <2>1, <2>2 DEF Poll, viewVars, TypeOK
<1>4. CASE CarAnswers
  BY <1>4, CarAnswersTypeOK
<1>5. CASE CarChanges
  <2>1. changes' \in 0..MaxChanges
    BY <1>5, DashboardAssumption DEF CarChanges, TypeOK
  <2>2. DOMAIN car' = Properties /\ \A p \in Properties : car'[p] \in Values[p]
    BY <1>5 DEF CarChanges, TypeOK
  <2> QED BY <1>5, <2>1, <2>2 DEF CarChanges, appVars, viewVars, TypeOK
<1>6. CASE OnChangeEvent
  <2>1. /\ UNCHANGED <<activity, registered, turn, view, collecting, posts, car,
                       asked, changes>>
        /\ events' = Tail(events) /\ events # <<>>
    BY <1>6 DEF OnChangeEvent
  <2> DEFINE p == Head(events).property
             v == Head(events).value
  <2>2. p \in Properties /\ v \in Values[p] \union {Missing}
    BY <2>1, EventTypes
  <2>3. \/ Keep \/ Die
        \/ SetFlow(p, 0)
        \/ v # Missing /\ SetFlow(p, v)
    <3>1. CASE v = Missing
      BY <1>6, <3>1 DEF OnChangeEvent, SetSpeed, SetDiagnostic
    <3>2. CASE v # Missing
      BY <1>6, <3>2 DEF OnChangeEvent, SetSpeed, SetDiagnostic
    <3> QED BY <3>1, <3>2
  <2>4. /\ alive' \in BOOLEAN
        /\ DOMAIN flow' = Properties /\ DOMAIN shown' = Properties
        /\ \A q \in Properties : flow'[q] \in Values[q] \union {0}
    BY <2>2, <2>3 DEF Keep, Die, SetFlow, TypeOK
  <2> QED BY <2>1, <2>4, EventTypes DEF TypeOK
<1>7. CASE PollThrows
  BY <1>7 DEF PollThrows, viewVars, carVars, TypeOK
<1>8. CASE UNCHANGED vars
  BY <1>8 DEF vars, appVars, viewVars, carVars, TypeOK
<1> QED BY <1>1, <1>2, <1>3, <1>4, <1>5, <1>6, <1>7, <1>8 DEF Next

(* The state of the dashboard has its type. *)
THEOREM TypeCorrect == Spec => []TypeOK
  BY InitTypeOK, NextTypeOK, PTL DEF Spec

-----------------------------------------------------------------------------
(* The speed and the texts that can be seen are those of the flows, in     *)
(* every order of posts, collectors, events and changes of the screen      *)
(* (DashboardFragment.onViewCreated and its collectors).                   *)
THEOREM DashboardFollowsFlows == Spec => []ViewFollowsFlows
<1>1. IInv => ViewFollowsFlows
  BY DEF IInv
<1> QED BY InitInv, NextInv, <1>1, PTL DEF Spec
=============================================================================
