----------------------------- MODULE WifiSender -----------------------------
(***************************************************************************)
(* What the diagnostic app sends over Wi-Fi, class WifiSender, for the     *)
(* buttons of the list of trouble codes.                                   *)
(*                                                                         *)
(* A click runs on the main thread and starts a thread; the thread sends a *)
(* message, or the report file, and reports the result to the screen that  *)
(* was clicked.  All clicks write the same report file.  Actions of the    *)
(* main thread need it to be free: it is busy while it writes the file.    *)
(***************************************************************************)
EXTENDS Naturals

CONSTANTS
  Sends,      \* the clicks on the buttons that send
  Screens,    \* the instances of the list screen
  NoSend      \* the main thread does not write the file

ASSUME NoSendAssumption == NoSend \notin Sends

VARIABLES
  alive,      \* the process of the app runs
  attached,   \* the screens that are attached to the activity
  creating,   \* the click for which the main thread writes the file
  report,     \* the report file
  sender,     \* sender[x]: the thread of click x
  handed,     \* history: what thread x has handed to the network
  rewritten   \* history: the reports that a later click is writing over, or
              \* has left empty, before their thread has read them

sendVars == <<creating, report, sender, handed, rewritten>>

(* The file is written in one piece, and read in one. *)
Contents == {"absent", "empty", "whole"}

Threads ==
  [pc : {"none", "create", "connect", "write", "send", "result", "toast",
         "done"},
   kind : {"message", "report"},
   screen : Screens,
   carried : Contents,
   result : {"none", "sent", "failed"}]

SendTypeOK ==
  /\ alive \in BOOLEAN
  /\ attached \subseteq Screens
  /\ creating \in Sends \union {NoSend}
  /\ report \in Contents
  /\ sender \in [Sends -> Threads]
  /\ handed \in [Sends -> Contents]
  /\ rewritten \subseteq Sends

SendInit ==
  /\ creating = NoSend
  /\ report = "absent"
  /\ sender = [x \in Sends |-> [pc |-> "none", kind |-> "message",
                                screen |-> CHOOSE s \in Screens : TRUE,
                                carried |-> "absent", result |-> "none"]]
  /\ handed = [x \in Sends |-> "absent"]
  /\ rewritten = {}

MainIsFree == alive /\ creating = NoSend

Running(x, step) == alive /\ sender[x].pc = step

(* The threads that have the report still to read. *)
Readers ==
  {x \in Sends : sender[x].kind = "report" /\ sender[x].pc \in {"connect", "write"}}

-----------------------------------------------------------------------------
(* Clicks.  Without a gateway there is a toast and nothing else.           *)

ClickSendMessage(x, screen) ==
  /\ MainIsFree /\ sender[x].pc = "none"
  /\ sender' = [sender EXCEPT ![x] = [@ EXCEPT !.pc = "connect",
                                             !.kind = "message",
                                             !.screen = screen]]
  /\ UNCHANGED <<alive, attached, creating, report, handed, rewritten>>

(* createReportFile() opens the file, which empties it ... *)
ClickSendReport(x, screen) ==
  /\ MainIsFree /\ sender[x].pc = "none"
  /\ creating' = x
  /\ report' = "empty"
  /\ sender' = [sender EXCEPT ![x] = [@ EXCEPT !.pc = "create",
                                             !.kind = "report",
                                             !.screen = screen]]
  /\ rewritten' = rewritten \union Readers
  /\ UNCHANGED <<alive, attached, handed>>

(* ... unless it cannot be opened: then there is a toast. *)
ReportNotOpened(x) ==
  /\ MainIsFree /\ sender[x].pc = "none"
  /\ sender' = [sender EXCEPT ![x] = [@ EXCEPT !.pc = "done",
                                             !.kind = "report",
                                             !.result = "failed"]]
  /\ UNCHANGED <<alive, attached, creating, report, handed, rewritten>>

(* It is written and closed, for the threads of earlier clicks as well; or *)
(* that fails, there is a toast, and the file stays empty for them too.    *)
WriteReport(x) ==
  /\ alive /\ creating = x
  /\ creating' = NoSend
  /\ \/ /\ report' = "whole"
        /\ sender' = [sender EXCEPT ![x].pc = "connect"]
        /\ rewritten' = rewritten \ Readers
     \/ /\ sender' = [sender EXCEPT ![x].pc = "done", ![x].result = "failed"]
        /\ UNCHANGED <<report, rewritten>>
  /\ UNCHANGED <<alive, attached, handed>>

-----------------------------------------------------------------------------
(* The thread.                                                             *)

Finish(x, result) ==
  sender' = [sender EXCEPT ![x].pc = "result", ![x].result = result]

Connect(x) ==
  /\ Running(x, "connect")
  /\ \/ sender' = [sender EXCEPT ![x].pc = "write"]
     \/ Finish(x, "failed")
  /\ UNCHANGED <<alive, attached, creating, report, handed, rewritten>>

(* A PrintWriter throws nothing: what became of the message is not known.  *)
(* Closing the socket may throw.                                           *)
SendMessage(x) ==
  /\ Running(x, "write") /\ sender[x].kind = "message"
  /\ \E content \in {"absent", "whole"} :
       handed' = [handed EXCEPT ![x] = content]
  /\ Finish(x, "sent") \/ Finish(x, "failed")
  /\ UNCHANGED <<alive, attached, creating, report, rewritten>>

ReadReport(x) ==
  /\ Running(x, "write") /\ sender[x].kind = "report"
  /\ sender' = [sender EXCEPT ![x].pc = "send", ![x].carried = report]
  /\ UNCHANGED <<alive, attached, creating, report, handed, rewritten>>

(* The file is written to the stream of the socket itself, which throws. *)
SendReport(x) ==
  /\ Running(x, "send")
  /\ \/ /\ handed' = [handed EXCEPT ![x] = sender[x].carried]
        /\ Finish(x, "sent")
     \/ /\ handed' = handed
        /\ Finish(x, "failed")
  /\ UNCHANGED <<alive, attached, creating, report, rewritten>>

(* onResult posts a toast to the main thread, if it finds its activity;    *)
(* what requireActivity() throws otherwise ends the process.               *)
ReportResult(x) ==
  /\ Running(x, "result")
  /\ IF sender[x].screen \in attached
     THEN /\ sender' = [sender EXCEPT ![x].pc = "toast"]
          /\ alive' = alive
     ELSE /\ sender' = sender
          /\ alive' = FALSE
  /\ UNCHANGED <<attached, creating, report, handed, rewritten>>

(* Mutated form of ShowToast: a screen that is gone is not told. *)
ShowToastOnlyAttached(x) ==
  /\ MainIsFree /\ sender[x].pc = "toast"
  /\ sender[x].screen \in attached
  /\ sender' = [sender EXCEPT ![x].pc = "done"]
  /\ UNCHANGED <<alive, attached, creating, report, handed, rewritten>>

(* The toast needs the context of its screen. *)
ShowToast(x) ==
  /\ MainIsFree /\ sender[x].pc = "toast"
  /\ IF sender[x].screen \in attached
     THEN /\ sender' = [sender EXCEPT ![x].pc = "done"]
          /\ alive' = alive
     ELSE /\ sender' = sender
          /\ alive' = FALSE
  /\ UNCHANGED <<attached, creating, report, handed, rewritten>>

SendStep(x) ==
  \/ WriteReport(x)
  \/ Connect(x)
  \/ SendMessage(x)
  \/ ReadReport(x)
  \/ SendReport(x)
  \/ ReportResult(x)
  \/ ShowToast(x)

-----------------------------------------------------------------------------
(* A report that was sent was whole, exactly unless its thread read the    *)
(* file while a later click was writing it, or had failed to: a later      *)
(* click that has written the file leaves it whole for every thread that   *)
(* has yet to read, and no other luck saves a report.                      *)
ReportIsWholeUnlessRewritten ==
  \A x \in Sends :
    sender[x].kind = "report" /\ sender[x].result = "sent" =>
      (handed[x] = "whole" <=> x \notin rewritten)

(* "Report sent via Wi-Fi" is only said of a report that was whole.  It is *)
(* not so: a second click empties the file under the thread of the first.  *)
SentReportIsWhole ==
  \A x \in Sends :
    sender[x].kind = "report" /\ sender[x].result = "sent" => handed[x] = "whole"

(* Every click that sends something is answered by a toast, unless the app *)
(* ends.                                                                   *)
EveryClickIsAnswered ==
  \A x \in Sends :
    sender[x].pc \in {"create", "connect"} ~> sender[x].pc = "done" \/ ~alive
=============================================================================
