------------------------------ MODULE Dashboard ------------------------------
(***************************************************************************)
(* The dashboard of the diagnostic app: class MainActivity, which asks the *)
(* car for its properties in turn and keeps what the car says of each in a *)
(* flow, and class DashboardFragment, which shows the flows on two gauges  *)
(* and three texts.                                                        *)
(*                                                                         *)
(* The flows belong to the class and outlive every activity.  So do the    *)
(* callbacks, which nothing unregisters.  The polling loop ends with its   *)
(* activity, the collectors of the flows with the view they fill, or when  *)
(* the app leaves the foreground.  Everything runs on the main thread, a   *)
(* handler at a time; a flow's collector runs within the handler that sets *)
(* the flow, and only if its value changes.                                *)
(***************************************************************************)
EXTENDS Integers, Sequences, FiniteSets

CONSTANTS
  Polled,       \* the properties, in the order the loop asks for them
  Values,       \* Values[p]: what the car may say of property p
  Missing,      \* what an event holds that has no value
  MaxPending,   \* bound: how many questions and events are under way
  MaxChanges    \* bound: how often the car changes, or has no value

Properties == {Polled[k] : k \in DOMAIN Polled}
Gauges     == {"speed", "rpm"} \intersect Properties

(* What a view shows of a property before it is filled. *)
Blank == [text |-> -1, color |-> "none"]

ASSUME DashboardAssumption ==
  /\ Polled \in Seq({"rpm", "speed", "temperature", "airflow", "tirePressure"})
  /\ Polled # <<>>
  /\ \A p \in Properties : Values[p] \subseteq Int /\ Values[p] # {}
  /\ \A p \in Properties : Missing \notin Values[p]
  /\ MaxPending \in Nat \ {0} /\ MaxChanges \in Nat

VARIABLES
  alive,        \* the process runs
  activity,     \* the activity: "none", "stopped" or "started"
  registered,   \* callbacks of an activity, of this one or an earlier, exist
  turn,         \* what the polling loop asks for next
  flow,         \* flow[p]: the value of the property's flow
  view,         \* the dashboard's view exists
  collecting,   \* its collectors run
  posts,        \* the gauges whose posted set-up has not run yet
  shown,        \* shown[p]: what the view shows of p
  car,          \* car[p]: the value the car has
  asked,        \* what the car has been asked
  events,       \* the events it has sent
  changes       \* how often the car changed, or had no value

appVars  == <<alive, activity, registered, turn>>
viewVars == <<view, collecting, posts, shown>>
carVars  == <<car, asked, events, changes>>
vars == <<appVars, flow, viewVars, carVars>>

-----------------------------------------------------------------------------
(* What the view shows of a value.                                         *)

Clamp(v, low, high) == IF v < low THEN low ELSE IF v > high THEN high ELSE v

Temperature(v) ==
  LET temp == Clamp(v, 0, 215)
  IN [text  |-> temp,
      color |-> IF temp > 115 THEN "red"
                ELSE IF temp > 105 THEN "orange"
                ELSE IF temp < 70 THEN "blue" ELSE "green"]

AirFlow(v) ==
  LET airFlow == Clamp(v, 0, 655)
  IN [text  |-> airFlow,
      color |-> IF airFlow > 450 \/ airFlow < 50 THEN "orange" ELSE "green"]

TirePressure(v) ==
  LET pressure == Clamp(v, 0, 42)
  IN [text  |-> pressure,
      color |-> IF pressure < 28 \/ pressure > 36 THEN "red"
                ELSE IF pressure < 30 \/ pressure > 35 THEN "orange"
                ELSE "green"]

(* The ranges of the gauges, set by their posts and 0..100 before.         *)
SpeedTo(p, v, range) ==
  [text  |-> Clamp(v, 0, IF range = "unset" THEN 100
                         ELSE IF p = "speed" THEN 255 ELSE 8),
   color |-> "plain"]

(* What a collector shows: the engine's speed by half thousands. *)
Display(p, v, range) ==
  CASE p = "speed"        -> SpeedTo(p, v, range)
    [] p = "rpm"          -> SpeedTo(p, v \div 2000, range)
    [] p = "temperature"  -> Temperature(v)
    [] p = "airflow"      -> AirFlow(v)
    [] p = "tirePressure" -> TirePressure(v)

(* What the post of a gauge shows: the value as it is, the engine's too. *)
Posted(p, v) == SpeedTo(p, v, "set")

-----------------------------------------------------------------------------
(* What an event may hold. *)
Said == (UNION {Values[p] : p \in Properties}) \union {Missing}

TypeOK ==
  /\ alive \in BOOLEAN
  /\ activity \in {"none", "stopped", "started"}
  /\ registered \in BOOLEAN
  /\ turn \in DOMAIN Polled
  /\ DOMAIN flow = Properties
  /\ \A p \in Properties : flow[p] \in Values[p] \union {0}
  /\ view \in BOOLEAN /\ collecting \in BOOLEAN
  /\ posts \subseteq Gauges
  /\ DOMAIN shown = Properties
  /\ DOMAIN car = Properties
  /\ \A p \in Properties : car[p] \in Values[p]
  /\ asked \in Seq(Properties)
  /\ events \in Seq([property : Properties, value : Said])
  /\ \A k \in DOMAIN events :
       events[k].value \in Values[events[k].property] \union {Missing}
  /\ changes \in 0..MaxChanges

Init ==
  /\ alive = TRUE
  /\ activity = "none"
  /\ registered = FALSE
  /\ turn = 1
  /\ flow = [p \in Properties |-> 0]
  /\ view = FALSE /\ collecting = FALSE
  /\ posts = {}
  /\ shown = [p \in Properties |-> Blank]
  /\ car \in {c \in [Properties -> UNION {Values[p] : p \in Properties}] :
                \A p \in Properties : c[p] \in Values[p]}
  /\ asked = <<>> /\ events = <<>>
  /\ changes = 0

RangeOf(p) == IF p \in posts THEN "unset" ELSE "set"

-----------------------------------------------------------------------------
(* The life cycle of the activity and of the dashboard's view.             *)

NewView ==
  /\ view' = TRUE
  /\ posts' = Gauges
  /\ shown' = [p \in Properties |-> Blank]

(* Collectors that start show what their flows hold. *)
Collect ==
  /\ collecting' = TRUE
  /\ shown' = [p \in Properties |-> Display(p, flow[p], RangeOf(p))]

NoView ==
  /\ view' = FALSE /\ collecting' = FALSE
  /\ posts' = {}
  /\ shown' = [p \in Properties |-> Blank]

(* onCreate: callbacks, a polling loop from the start, and perhaps the     *)
(* dashboard; if another screen was open, that one is restored.            *)
Create ==
  /\ alive /\ activity = "none"
  /\ activity' = "stopped"
  /\ registered' = TRUE
  /\ turn' = 1
  /\ NewView \/ UNCHANGED <<view, posts, shown>>
  /\ UNCHANGED <<alive, flow, collecting, carVars>>

Start ==
  /\ alive /\ activity = "stopped"
  /\ activity' = "started"
  /\ IF view THEN Collect ELSE UNCHANGED <<collecting, shown>>
  /\ UNCHANGED <<alive, registered, turn, flow, view, posts, carVars>>

Stop ==
  /\ alive /\ activity = "started"
  /\ activity' = "stopped"
  /\ collecting' = FALSE
  /\ UNCHANGED <<alive, registered, turn, flow, view, posts, shown, carVars>>

Destroy ==
  /\ alive /\ activity = "stopped"
  /\ activity' = "none"
  /\ NoView
  /\ UNCHANGED <<alive, registered, turn, flow, carVars>>

(* A tab away from the dashboard, and back to it: the fragment stays, its  *)
(* view does not.                                                          *)
LeaveDashboard ==
  /\ alive /\ activity = "started" /\ view
  /\ NoView
  /\ UNCHANGED <<appVars, flow, carVars>>

ShowDashboard ==
  /\ alive /\ activity = "started" /\ ~view
  /\ view' = TRUE /\ posts' = Gauges
  /\ collecting' = TRUE
  /\ shown' = [p \in Properties |->
                 Display(p, flow[p], IF p \in Gauges THEN "unset" ELSE "set")]
  /\ UNCHANGED <<appVars, flow, carVars>>

(* Mutated form of RunPost: the range alone, nothing shown in it. *)
RunPostRangeOnly(p) ==
  /\ alive /\ activity = "started" /\ p \in posts
  /\ posts' = posts \ {p}
  /\ UNCHANGED <<appVars, flow, view, collecting, shown, carVars>>

(* A post runs when the view has come to the window. *)
RunPost(p) ==
  /\ alive /\ activity = "started" /\ p \in posts
  /\ posts' = posts \ {p}
  /\ shown' = [shown EXCEPT ![p] = Posted(p, flow[p])]
  /\ UNCHANGED <<appVars, flow, view, collecting, carVars>>

-----------------------------------------------------------------------------
(* The car.                                                                *)

(* Mutated forms of Poll: past the last property, and never past the first. *)
PollPastTheLast ==
  /\ alive /\ activity # "none"
  /\ Len(asked) + Len(events) < MaxPending
  /\ asked' = Append(asked, Polled[turn])
  /\ turn' = turn + 1
  /\ UNCHANGED <<alive, activity, registered, flow, viewVars, car, events,
                 changes>>

PollTheFirst ==
  /\ alive /\ activity # "none"
  /\ Len(asked) + Len(events) < MaxPending
  /\ asked' = Append(asked, Polled[1])
  /\ UNCHANGED <<alive, activity, registered, turn, flow, viewVars, car,
                 events, changes>>

(* The loop asks for one property after the other, for as long as its      *)
(* activity exists, in the background too.                                 *)
Poll ==
  /\ alive /\ activity # "none"
  /\ Len(asked) + Len(events) < MaxPending
  /\ asked' = Append(asked, Polled[turn])
  /\ turn' = (turn % Len(Polled)) + 1
  /\ UNCHANGED <<alive, activity, registered, flow, viewVars, car, events,
                 changes>>

(* Nothing catches what setIntProperty throws in the loop: the process     *)
(* ends.                                                                   *)
PollThrows ==
  /\ alive /\ activity # "none"
  /\ alive' = FALSE
  /\ UNCHANGED <<activity, registered, turn, flow, viewVars, carVars>>

(* The service answers in the order it is asked, now and then without a    *)
(* value, or with an error event, which is only logged.                    *)
CarAnswers ==
  /\ asked # <<>>
  /\ asked' = Tail(asked)
  /\ LET Event(value) == [property |-> Head(asked), value |-> value]
     IN \/ /\ events' = Append(events, Event(car[Head(asked)]))
           /\ UNCHANGED changes
        \/ /\ changes < MaxChanges
           /\ changes' = changes + 1
           /\ events' \in {events, Append(events, Event(Missing))}
  /\ UNCHANGED <<appVars, flow, viewVars, car>>

CarChanges ==
  /\ changes < MaxChanges
  /\ changes' = changes + 1
  /\ \E p \in Properties : \E v \in Values[p] \ {car[p]} :
       car' = [car EXCEPT ![p] = v]
  /\ UNCHANGED <<appVars, flow, viewVars, asked, events>>

Keep == UNCHANGED <<alive, flow, shown>>
Die  == alive' = FALSE /\ UNCHANGED <<flow, shown>>

SetFlow(p, v) ==
  /\ flow' = [flow EXCEPT ![p] = v]
  /\ shown' = IF collecting /\ v # flow[p]
              THEN [shown EXCEPT ![p] = Display(p, v, RangeOf(p))]
              ELSE shown
  /\ UNCHANGED alive

(* The callback of a gauge takes a missing value for zero. *)
SetSpeed(p, value) == SetFlow(p, IF value = Missing THEN 0 ELSE value)

(* The callback of a text takes it for 0.0, which is no Int: the cast      *)
(* throws.  The flow is set in the scope of the activity, not without it.  *)
SetDiagnostic(p, value) ==
  IF value = Missing THEN Die
  ELSE IF activity = "none" THEN Keep
  ELSE SetFlow(p, value)

OnChangeEvent ==
  /\ alive /\ events # <<>>
  /\ events' = Tail(events)
  /\ LET p == Head(events).property
         value == Head(events).value
     IN IF ~registered THEN Keep
        ELSE IF p \in Gauges THEN SetSpeed(p, value) ELSE SetDiagnostic(p, value)
  /\ UNCHANGED <<activity, registered, turn, view, collecting, posts, car,
                 asked, changes>>

Next ==
  \/ Create \/ Start \/ Stop \/ Destroy
  \/ LeaveDashboard \/ ShowDashboard
  \/ \E p \in Gauges : RunPost(p)
  \/ Poll \/ PollThrows \/ CarAnswers \/ CarChanges \/ OnChangeEvent

Spec == Init /\ [][Next]_vars

(* The loop goes on (strongly, for the bound on what is under way is only  *)
(* the model's), the service answers, and the main thread runs what is     *)
(* posted to it and delivered.                                             *)
FairSpec ==
  /\ Spec
  /\ SF_vars(Poll)
  /\ WF_vars(CarAnswers)
  /\ WF_vars(OnChangeEvent)
  /\ \A p \in Gauges : WF_vars(RunPost(p))

-----------------------------------------------------------------------------
(* While the dashboard can be seen it shows what its flows hold, whichever *)
(* handlers ran in which order since its view was made: the speed in the   *)
(* range its post has set, a text with the color of what it shows.  Of the *)
(* engine's gauge this is not so; EngineGaugeCatchesUp is about that one.  *)
ViewFollowsFlows ==
  alive /\ collecting =>
    \A p \in Properties \ {"rpm"} : shown[p] = Display(p, flow[p], RangeOf(p))

(* A dashboard that stays on the screen shows in the end what the car has, *)
(* whatever questions were refused and values were missing.                *)
DashboardCatchesUp ==
  \A p \in Properties \ {"rpm"} :
    <>[](alive /\ collecting) => <>[](shown[p] = Display(p, car[p], "set"))

(* The gauge of the engine's speed, in units of "x1000 RPM", shows in the  *)
(* end what its collector makes of the car's value.  It does not: its post *)
(* runs after its collector and shows the value itself, undivided, and the *)
(* flow that keeps its value does not run the collector again.             *)
EngineGaugeCatchesUp ==
  "rpm" \in Properties =>
    (<>[](alive /\ collecting) =>
       <>[](shown["rpm"] = Display("rpm", car["rpm"], "set")))
=============================================================================
