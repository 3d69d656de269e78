--------------------------- MODULE DiagnosticApp ---------------------------
(***************************************************************************)
(* The list of trouble codes of the diagnostic app, class UdsListFragment, *)
(* with its screens, the property service of the car, and the threads of   *)
(* WifiSender.                                                             *)
(*                                                                         *)
(* Navigation makes an instance of the list screen, keeps it under other   *)
(* screens, or destroys it.  Each time its view is made it registers       *)
(* callbacks, and nothing ever unregisters them; each time it is resumed   *)
(* it starts a loop that asks for the codes, which ends when the instance  *)
(* is destroyed.  Everything but the threads of WifiSender runs on the     *)
(* main thread, a handler at a time.                                       *)
(***************************************************************************)
EXTENDS WifiSender, Sequences, FiniteSets

CONSTANTS
  Items,        \* the trouble codes of UdsData
  MaxScreens,   \* bound: how many instances of the list screen are made
  MaxLoops,     \* bound: how many loops an instance starts
  MaxPending,   \* bound: how many questions and events are under way
  MaxFaults     \* bound: how often the car gets faults, and gives no answer,
                \* or one without a text

ASSUME AppAssumption ==
  /\ Screens = 1..MaxScreens
  /\ MaxScreens \in Nat \ {0} /\ MaxLoops \in Nat /\ MaxPending \in Nat
  /\ MaxFaults \in Nat
  /\ Items # {}

(* The dashboard is below all screens; a detail screen has no state. *)
Detail == 0

VARIABLES
  stack,       \* the screens above the dashboard, the topmost last
  saved,       \* the screens to restore when the list is selected
  created,     \* how many instances of the list screen have been made
  foreground,  \* the app is in the foreground
  registered,  \* the instances whose callbacks are registered
  loops,       \* loops[i]: how many loops of instance i run
  existing,    \* UdsData: the codes that exist
  adapters,    \* the instances whose view has an adapter, and shows codes
  shown,       \* shown[i]: the codes the view of instance i shows
  faulty,      \* the car has faults
  asked,       \* what the property service has been asked
  events,      \* the events it has sent
  faultCount   \* how often the car got faults, gave no answer or no text

screenVars  == <<stack, saved, created, foreground, registered, loops, attached>>
listVars    == <<existing, adapters, shown>>
carVars     == <<faulty, asked, events, faultCount>>
appVars == <<alive, screenVars, listVars, carVars, sendVars>>

TypeOK ==
  /\ SendTypeOK
  /\ stack \in Seq(Screens \union {Detail})
  /\ saved \in Seq({"list", "detail"})
  /\ created \in 0..MaxScreens
  /\ foreground \in BOOLEAN
  /\ registered \subseteq Screens
  /\ loops \in [Screens -> Nat]
  /\ existing \subseteq Items
  /\ adapters \subseteq Screens
  /\ shown \in [Screens -> SUBSET Items]
  /\ faulty \in BOOLEAN
  /\ asked \in Seq({"codes", "clear"})
  /\ events \in Seq({"codes", "no codes", "no text", "cleared"})
  /\ faultCount \in 0..MaxFaults

Init ==
  /\ alive = TRUE
  /\ attached = {}
  /\ SendInit
  /\ stack = <<>>
  /\ saved = <<>>
  /\ created = 0
  /\ foreground = TRUE
  /\ registered = {}
  /\ loops = [i \in Screens |-> 0]
  /\ existing = {}
  /\ adapters = {}
  /\ shown = [i \in Screens |-> {}]
  /\ faulty \in BOOLEAN
  /\ asked = <<>>
  /\ events = <<>>
  /\ faultCount = 0

Top(screens) == IF screens = <<>> THEN Detail ELSE screens[Len(screens)]

Visible(i) == foreground /\ Top(stack) = i

Pending == Len(asked) + Len(events)

-----------------------------------------------------------------------------
(* Navigation.  What is left of a screen is its kind.                      *)

Kinds(screens) ==
  [k \in DOMAIN screens |-> IF screens[k] = Detail THEN "detail" ELSE "list"]

ListsUpTo(kinds, k) == Cardinality({j \in 1..k : kinds[j] = "list"})

(* New instances for screens of these kinds. *)
Instances(kinds) ==
  [k \in DOMAIN kinds |->
     IF kinds[k] = "detail" THEN Detail ELSE created + ListsUpTo(kinds, k)]

(* The screens become these.  The one on top gets its view, which shows    *)
(* nothing yet, registers its callbacks and starts a loop; those that are  *)
(* left out are destroyed, and their loops end.                            *)
Show(screens) ==
  LET top  == Top(screens)
      kept == {screens[k] : k \in DOMAIN screens} \ {Detail}
  IN /\ top # Detail => loops[top] < MaxLoops
     /\ stack' = screens
     /\ attached' = kept
     /\ registered' = registered \union ({top} \ {Detail})
     /\ loops' = [i \in Screens |->
                    IF i = top THEN loops[i] + 1
                    ELSE IF i \in kept THEN loops[i] ELSE 0]
     /\ adapters' = adapters \ {top}
     /\ UNCHANGED shown

Navigate == MainIsFree /\ foreground

(* A tab restores the screens above it that were saved, if there are any.  *)
SelectList ==
  LET kinds == IF stack # <<>> THEN Kinds(stack)
               ELSE IF saved # <<>> THEN saved ELSE <<"list">>
      lists == ListsUpTo(kinds, Len(kinds))
  IN /\ Navigate
     /\ created + lists <= MaxScreens
     /\ created' = created + lists
     /\ saved' = <<>>
     /\ Show(Instances(kinds))
     /\ UNCHANGED <<alive, foreground, existing, carVars, sendVars>>

SelectDashboard ==
  /\ Navigate /\ stack # <<>>
  /\ saved' = Kinds(stack)
  /\ Show(<<>>)
  /\ UNCHANGED <<alive, created, foreground, existing, carVars, sendVars>>

(* A click on a code in the list. *)
OpenDetail(i) ==
  /\ Navigate /\ Visible(i)
  /\ i \in adapters /\ shown[i] # {}
  /\ Show(Append(stack, Detail))
  /\ UNCHANGED <<alive, saved, created, foreground, existing, carVars,
                 sendVars>>

(* The button of the detail screen leads to a new list. *)
DetailToList ==
  /\ Navigate /\ stack # <<>> /\ Top(stack) = Detail
  /\ created < MaxScreens
  /\ created' = created + 1
  /\ Show(Append(SubSeq(stack, 1, Len(stack) - 1), created + 1))
  /\ UNCHANGED <<alive, saved, foreground, existing, carVars, sendVars>>

(* The back button of the device. *)
Back ==
  /\ Navigate /\ stack # <<>>
  /\ Show(SubSeq(stack, 1, Len(stack) - 1))
  /\ UNCHANGED <<alive, saved, created, foreground, existing, carVars,
                 sendVars>>

LeaveApp ==
  /\ Navigate
  /\ foreground' = FALSE
  /\ UNCHANGED <<alive, attached, stack, saved, created, registered, loops,
                 listVars, carVars, sendVars>>

(* onResume alone: another loop. *)
ReturnToApp ==
  /\ MainIsFree /\ ~foreground
  /\ foreground' = TRUE
  /\ LET top == Top(stack)
     IN IF top = Detail THEN loops' = loops
        ELSE /\ loops[top] < MaxLoops
             /\ loops' = [loops EXCEPT ![top] = @ + 1]
  /\ UNCHANGED <<alive, attached, stack, saved, created, registered, listVars,
                 carVars, sendVars>>

-----------------------------------------------------------------------------
(* The list, and the property service of the car.                          *)

Ask(question) ==
  /\ Pending < MaxPending
  /\ asked' = Append(asked, question)
  /\ UNCHANGED <<alive, screenVars, listVars, faulty, events, faultCount,
                 sendVars>>

(* Mutated form of Poll: a loop that asks once. *)
PollOnce(i) ==
  /\ MainIsFree /\ loops[i] > 0 /\ Pending < MaxPending
  /\ asked' = Append(asked, "codes")
  /\ loops' = [loops EXCEPT ![i] = @ - 1]
  /\ UNCHANGED <<alive, stack, saved, created, foreground, registered,
                 attached, listVars, faulty, events, faultCount, sendVars>>

(* A loop asks, in the background too. *)
Poll(i) == MainIsFree /\ loops[i] > 0 /\ Ask("codes")

ClearClicked(i) == MainIsFree /\ Visible(i) /\ Ask("clear")

(* Nothing catches what setProperty throws in a loop, or setIntProperty    *)
(* when the codes are to be cleared: the process ends.                     *)
PollThrows(i) ==
  /\ MainIsFree /\ loops[i] > 0
  /\ alive' = FALSE
  /\ UNCHANGED <<screenVars, listVars, carVars, sendVars>>

ClearThrows(i) ==
  /\ MainIsFree /\ Visible(i)
  /\ alive' = FALSE
  /\ UNCHANGED <<screenVars, listVars, carVars, sendVars>>

(* The service answers in the order it is asked.  It may refuse, or, asked *)
(* for the codes, send an event without a text.                            *)
CarAnswers ==
  /\ asked # <<>>
  /\ asked' = Tail(asked)
  /\ \/ /\ Head(asked) = "codes"
        /\ events' = Append(events, IF faulty THEN "codes" ELSE "no codes")
        /\ UNCHANGED <<faulty, faultCount>>
     \/ /\ Head(asked) = "clear"
        /\ faulty' = FALSE
        /\ events' = Append(events, "cleared")
        /\ UNCHANGED faultCount
     \/ /\ faultCount < MaxFaults
        /\ faultCount' = faultCount + 1
        /\ \/ events' = events
           \/ Head(asked) = "codes" /\ events' = Append(events, "no text")
        /\ UNCHANGED faulty
  /\ UNCHANGED <<alive, screenVars, listVars, sendVars>>

CarGetsFaults ==
  /\ ~faulty /\ faultCount < MaxFaults
  /\ faulty' = TRUE
  /\ faultCount' = faultCount + 1
  /\ UNCHANGED <<alive, screenVars, listVars, asked, events, sendVars>>

(* Mutated form of CodesAfter: a code UdsData does not list is added. *)
CodesAfterUnlisted(event) ==
  IF event = "codes" THEN Items \union {"unlisted"} ELSE {}

(* What an event makes of the codes. *)
CodesAfter(event) == IF event = "codes" THEN Items ELSE {}

(* These screens show what exists now. *)
Refresh(screens) ==
  /\ adapters' = adapters \union screens
  /\ shown' = [i \in Screens |-> IF i \in screens THEN existing' ELSE shown[i]]

Die == alive' = FALSE /\ UNCHANGED listVars

(* Mutated forms of OnChangeEvent: a screen is refreshed only when it can  *)
(* be seen, or needs its view to be there.                                 *)
OnChangeEventVisible ==
  /\ MainIsFree /\ events # <<>>
  /\ events' = Tail(events)
  /\ existing' = CodesAfter(Head(events))
  /\ Refresh({i \in registered : Visible(i)})
  /\ UNCHANGED <<alive, screenVars, faulty, asked, faultCount, sendVars>>

OnChangeEventNeedingView ==
  /\ MainIsFree /\ events # <<>>
  /\ events' = Tail(events)
  /\ IF registered \subseteq {Top(stack)} /\ Head(events) # "no text"
     THEN /\ existing' = CodesAfter(Head(events))
          /\ Refresh(registered)
          /\ alive' = alive
     ELSE Die
  /\ UNCHANGED <<screenVars, faulty, asked, faultCount, sendVars>>

(* Every callback that is registered takes the event for a text, sets the  *)
(* codes and shows them on its view, for which it needs the context of its *)
(* screen: without a text, or a context, the process ends.                 *)
OnChangeEvent ==
  /\ MainIsFree /\ events # <<>>
  /\ events' = Tail(events)
  /\ IF registered = {} THEN UNCHANGED <<alive, listVars>>
     ELSE IF registered \subseteq attached /\ Head(events) # "no text"
     THEN /\ existing' = CodesAfter(Head(events))
          /\ Refresh(registered)
          /\ alive' = alive
     ELSE Die
  /\ UNCHANGED <<screenVars, faulty, asked, faultCount, sendVars>>

-----------------------------------------------------------------------------
ClickSend(x, i) ==
  /\ Visible(i)
  /\ \/ ClickSendMessage(x, i)
     \/ ClickSendReport(x, i)
     \/ ReportNotOpened(x)
  /\ UNCHANGED <<stack, saved, created, foreground, registered, loops,
                 listVars, carVars>>

ThreadStep(x) ==
  /\ SendStep(x)
  /\ UNCHANGED <<stack, saved, created, foreground, registered, loops,
                 listVars, carVars>>

Next ==
  \/ SelectList \/ SelectDashboard \/ DetailToList \/ Back
  \/ LeaveApp \/ ReturnToApp
  \/ \E i \in Screens : \/ OpenDetail(i)
                      \/ Poll(i) \/ PollThrows(i)
                      \/ ClearClicked(i) \/ ClearThrows(i)
  \/ CarAnswers \/ CarGetsFaults \/ OnChangeEvent
  \/ \E x \in Sends : ThreadStep(x) \/ \E i \in Screens : ClickSend(x, i)

Spec == Init /\ [][Next]_appVars

(* Loops go on (strongly, for the bound on what is under way is only the   *)
(* model's), the service answers, events are delivered, and threads run.   *)
FairSpec ==
  /\ Spec
  /\ \A i \in Screens : SF_appVars(Poll(i))
  /\ WF_appVars(CarAnswers)
  /\ WF_appVars(OnChangeEvent)
  /\ \A x \in Sends : WF_appVars(ThreadStep(x))

-----------------------------------------------------------------------------
(* Whatever lists there are, a view that shows codes shows those of        *)
(* UdsData, whichever screen the event was asked for.                      *)
ShownIsCurrent ==
  \A i \in attached \intersect adapters : shown[i] = existing

(* Unless the property service throws, or sends an event without a text,   *)
(* the app ends only because of an instance that has been destroyed, its   *)
(* callbacks still registered or its threads still running: lists under    *)
(* other screens, and an app in the background, are safe.                  *)
OnlyCarAndGoneScreensAreFatal ==
  [][alive /\ ~alive' =>
       \/ \E i \in Screens : PollThrows(i) \/ ClearThrows(i)
       \/ events' # events /\ Head(events) = "no text"
       \/ \E i \in Screens \ attached :
            i \in registered \/ \E x \in Sends : sender[x].screen = i]_appVars

(* A list that stays on the screen shows, in the end, whether the car has  *)
(* faults.                                                                 *)
ListCatchesUp ==
  \A i \in Screens :
    <>[](alive /\ Visible(i)) =>
      <>[](i \in adapters /\ shown[i] = IF faulty THEN Items ELSE {})
=============================================================================
