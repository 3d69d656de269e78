------------------------ MODULE DiagnosticAppProofs ------------------------
(***************************************************************************)
(* Proofs about the list of trouble codes and the report it sends, for any *)
(* number of screens, loops, codes and clicks.                             *)
(*                                                                         *)
(* Several threads and the main thread share one report file.  While the   *)
(* main thread writes it, whoever still has it to read is in rewritten,    *)
(* and stays there if the writing fails; at any other time the file is     *)
(* whole for a reader that is not.                                         *)
(*                                                                         *)
(* A screen that is made gets a number no screen had before, so it starts  *)
(* without an adapter; a view gets its adapter from a callback that it has *)
(* registered itself, and callbacks are never unregistered, so every view  *)
(* that shows codes is shown the new ones.                                 *)
(***************************************************************************)
EXTENDS DiagnosticApp, FiniteSetTheorems, SequenceTheorems, TLAPS

SendTypes ==
  /\ creating \in Sends \union {NoSend}
  /\ report \in Contents
  /\ sender \in [Sends -> Threads]
  /\ handed \in [Sends -> Contents]
  /\ rewritten \subseteq Sends

(* The file is written for a thread that has yet to start. *)
Writing ==
  creating # NoSend =>
    /\ sender[creating].pc = "create"
    /\ sender[creating].kind = "report"
    /\ Readers \subseteq rewritten

FileIsWhole ==
  creating = NoSend => \A x \in Readers : x \notin rewritten => report = "whole"

CarriesWhole ==
  \A x \in Sends : sender[x].pc = "send" /\ x \notin rewritten =>
                     sender[x].carried = "whole"

NoResultYet ==
  \A x \in Sends : sender[x].pc \in {"none", "create", "connect", "write", "send"}
                     => sender[x].result = "none"

ReportArrivesWhole ==
  \A x \in Sends :
    /\ sender[x].kind = "report" /\ sender[x].result = "sent"
    /\ x \notin rewritten
    => handed[x] = "whole"

IInv ==
  /\ SendTypes
  /\ Writing /\ FileIsWhole
  /\ CarriesWhole /\ NoResultYet
  /\ ReportArrivesWhole

LEMMA ScreensExist == Screens # {}
  <1>1. Screens = 1..MaxScreens /\ MaxScreens \in Nat /\ MaxScreens # 0
    BY AppAssumption
  <1>2. 1 \in 1..MaxScreens
    BY <1>1
  <1>3. QED
    BY <1>1, <1>2

LEMMA InitInv == Init => IInv
  <1> SUFFICES ASSUME Init PROVE IInv
    OBVIOUS
  <1> DEFINE first == CHOOSE s \in Screens : TRUE
  <1>1. first \in Screens
    BY ScreensExist
  <1> DEFINE none == [pc |-> "none", kind |-> "message", screen |-> first,
                      carried |-> "absent", result |-> "none"]
  <1>2. none \in Threads
    BY <1>1 DEF Threads, Contents
  <1>3. /\ sender = [x \in Sends |-> none]
        /\ creating = NoSend /\ report = "absent" /\ rewritten = {}
        /\ handed = [x \in Sends |-> "absent"]
    BY DEF Init, SendInit
  <1> HIDE DEF first
  <1>4. SendTypes
    BY <1>2, <1>3 DEF SendTypes, Contents
  <1>5. \A x \in Sends : /\ sender[x].pc = "none"
                         /\ sender[x].kind = "message"
                         /\ sender[x].result = "none"
    BY <1>3
  <1>6. QED
    BY <1>3, <1>4, <1>5
    DEF IInv, Writing, FileIsWhole, CarriesWhole, NoResultYet,
        ReportArrivesWhole, Readers

(* What every step of one thread x has to show: the other threads are as   *)
(* they were.                                                              *)
LEMMA OneThread ==
  ASSUME IInv, NEW x \in Sends, NEW t \in Threads,
         sender' = [sender EXCEPT ![x] = t]
  PROVE  /\ sender' \in [Sends -> Threads]
         /\ sender'[x] = t
         /\ \A y \in Sends \ {x} : sender'[y] = sender[y]
  BY DEF IInv, SendTypes

(* What the steps of a thread that runs have in common, by the step. *)
Moves(x, t) ==
  /\ sender' = [sender EXCEPT ![x] = t]
  /\ t.kind = sender[x].kind
  /\ \/ /\ sender[x].pc = "connect" /\ t.pc \in {"write", "result"}
        /\ t.result \in {sender[x].result, "failed"}
        /\ t.pc = "write" => t.result = sender[x].result
        /\ handed' = handed
     \/ /\ sender[x].pc = "write" /\ sender[x].kind = "message"
        /\ t.pc = "result"
        /\ \E c \in Contents : handed' = [handed EXCEPT ![x] = c]
     \/ /\ sender[x].pc = "write" /\ sender[x].kind = "report"
        /\ t.pc = "send" /\ t.carried = report
        /\ t.result = sender[x].result
        /\ handed' = handed
     \/ /\ sender[x].pc = "send" /\ t.pc = "result"
        /\ \/ t.result = "sent"
              /\ handed' = [handed EXCEPT ![x] = sender[x].carried]
           \/ t.result = "failed" /\ handed' = handed
     \/ /\ sender[x].pc \in {"result", "toast"}
        /\ t.pc \in {"result", "toast", "done"}
        /\ t.result = sender[x].result
        /\ handed' = handed

LEMMA ThreadMoves ==
  ASSUME SendTypes, NEW x \in Sends,
         Connect(x) \/ SendMessage(x) \/ ReadReport(x) \/ SendReport(x)
           \/ ReportResult(x) \/ ShowToast(x)
  PROVE  /\ creating' = creating /\ report' = report /\ rewritten' = rewritten
         /\ \E t \in Threads : Moves(x, t)
  <1>1. /\ creating' = creating /\ report' = report /\ rewritten' = rewritten
    BY DEF Connect, SendMessage, ReadReport, SendReport, ReportResult, ShowToast
  <1>2. sender[x] \in Threads /\ sender \in [Sends -> Threads]
          /\ report \in Contents
    BY DEF SendTypes
  <1> DEFINE Step(pc, carried, result) ==
               [sender[x] EXCEPT !.pc = pc, !.carried = carried,
                                 !.result = result]
             Old == sender[x]
  <1>3. ASSUME NEW pc \in {"write", "send", "result", "toast", "done"},
               NEW carried \in Contents,
               NEW result \in {"none", "sent", "failed"}
        PROVE  /\ Step(pc, carried, result) \in Threads
               /\ Step(pc, carried, result).pc = pc
               /\ Step(pc, carried, result).kind = sender[x].kind
               /\ Step(pc, carried, result).carried = carried
               /\ Step(pc, carried, result).result = result
    BY <1>2 DEF Threads
  <1>4. Old.carried \in Contents /\ Old.result \in {"none", "sent", "failed"}
    BY <1>2 DEF Threads
  <1> HIDE DEF Step
  <1>5. CASE Connect(x)
    <2>1. \/ sender' = [sender EXCEPT ![x] = Step("write", Old.carried, Old.result)]
          \/ sender' = [sender EXCEPT ![x] = Step("result", Old.carried, "failed")]
      BY <1>2, <1>5 DEF Connect, Finish, Threads, Step
    <2>2. sender[x].pc = "connect" /\ handed' = handed
      BY <1>5 DEF Connect, Running
    <2>3. QED
      BY <1>1, <1>3, <1>4, <2>1, <2>2 DEF Moves
  <1>6. CASE SendMessage(x)
    <2>1. PICK result \in {"sent", "failed"} :
            sender' = [sender EXCEPT ![x] = Step("result", Old.carried, result)]
      <3>1. \E result \in {"sent", "failed"} :
              sender' = [sender EXCEPT ![x].pc = "result", ![x].result = result]
        BY <1>6 DEF SendMessage, Finish
      <3>2. QED
        BY <1>2, <3>1 DEF Threads, Step
    <2> DEFINE t == Step("result", Old.carried, result)
    <2>2. /\ sender[x].pc = "write" /\ sender[x].kind = "message"
          /\ \E c \in Contents : handed' = [handed EXCEPT ![x] = c]
      BY <1>6 DEF SendMessage, Running, Contents
    <2>3. t \in Threads /\ t.pc = "result" /\ t.kind = sender[x].kind
      BY <1>3, <1>4
    <2> HIDE DEF t
    <2>4. sender' = [sender EXCEPT ![x] = t]
      BY <2>1 DEF t
    <2>5. Moves(x, t)
      BY <2>2, <2>3, <2>4 DEF Moves
    <2>6. QED
      BY <1>1, <2>3, <2>5
  <1>7. CASE ReadReport(x)
    <2> DEFINE t == Step("send", report, Old.result)
    <2>1. sender' = [sender EXCEPT ![x] = t]
      BY <1>2, <1>7 DEF ReadReport, Threads, Step
    <2>2. /\ sender[x].pc = "write" /\ sender[x].kind = "report"
          /\ handed' = handed
      BY <1>7 DEF ReadReport, Running
    <2>3. /\ t \in Threads /\ t.pc = "send" /\ t.kind = sender[x].kind
          /\ t.carried = report /\ t.result = sender[x].result
      BY <1>2, <1>3, <1>4
    <2> HIDE DEF t
    <2>4. Moves(x, t)
      BY <2>1, <2>2, <2>3 DEF Moves
    <2>5. QED
      BY <1>1, <2>3, <2>4
  <1>8. CASE SendReport(x)
    <2>1. \/ /\ sender' = [sender EXCEPT ![x] = Step("result", Old.carried, "sent")]
             /\ handed' = [handed EXCEPT ![x] = sender[x].carried]
          \/ /\ sender' = [sender EXCEPT ![x] = Step("result", Old.carried, "failed")]
             /\ handed' = handed
      BY <1>2, <1>8 DEF SendReport, Finish, Threads, Step
    <2>2. sender[x].pc = "send"
      BY <1>8 DEF SendReport, Running
    <2>3. QED
      BY <1>1, <1>3, <1>4, <2>1, <2>2 DEF Moves
  <1>9. CASE ReportResult(x) \/ ShowToast(x)
    <2>1. PICK pc \in {"result", "toast", "done"} :
            sender' = [sender EXCEPT ![x] = Step(pc, Old.carried, Old.result)]
      <3>1. sender' = sender \/ sender' = [sender EXCEPT ![x].pc = "toast"]
              \/ sender' = [sender EXCEPT ![x].pc = "done"]
        BY <1>9 DEF ReportResult, ShowToast
      <3>2. sender[x] = Step(Old.pc, Old.carried, Old.result)
        BY <1>2 DEF Threads, Step
      <3>3. CASE sender' = sender
        <4>1. Old.pc \in {"result", "toast"}
          BY <1>9 DEF ReportResult, ShowToast, Running
        <4>2. sender' = [sender EXCEPT ![x] = Old]
          BY <1>2, <3>3
        <4>3. QED
          BY <3>2, <4>1, <4>2
      <3>4. CASE sender' = [sender EXCEPT ![x].pc = "toast"]
        BY <1>2, <3>4 DEF Threads, Step
      <3>5. CASE sender' = [sender EXCEPT ![x].pc = "done"]
        BY <1>2, <3>5 DEF Threads, Step
      <3>6. QED
        BY <3>1, <3>3, <3>4, <3>5
    <2>2. sender[x].pc \in {"result", "toast"} /\ handed' = handed
      BY <1>9 DEF ReportResult, ShowToast, Running
    <2> DEFINE t == Step(pc, Old.carried, Old.result)
    <2>3. /\ t \in Threads /\ t.pc = pc /\ t.kind = sender[x].kind
          /\ t.result = sender[x].result
      BY <1>3, <1>4
    <2> HIDE DEF t
    <2>4. sender' = [sender EXCEPT ![x] = t]
      BY <2>1 DEF t
    <2>5. Moves(x, t)
      BY <2>2, <2>3, <2>4 DEF Moves
    <2>6. QED
      BY <1>1, <2>3, <2>5
  <1>10. QED
    BY <1>5, <1>6, <1>7, <1>8, <1>9

(* A thread that runs keeps the invariant: it becomes no reader, what it   *)
(* reads is whole unless the file was written again, and it hands over     *)
(* what it has read.                                                       *)
LEMMA MovesInv ==
  ASSUME IInv, NEW x \in Sends, NEW t \in Threads, Moves(x, t),
         creating' = creating, report' = report, rewritten' = rewritten
  PROVE  IInv'
  <1>1. /\ SendTypes /\ Writing /\ FileIsWhole /\ CarriesWhole /\ NoResultYet
        /\ ReportArrivesWhole
    BY DEF IInv
  <1>2. sender' = [sender EXCEPT ![x] = t]
    BY DEF Moves
  <1>3. /\ sender' \in [Sends -> Threads] /\ sender'[x] = t
        /\ \A y \in Sends \ {x} : sender'[y] = sender[y]
    BY <1>1, <1>2, OneThread
  <1>4. /\ handed' \in [Sends -> Contents]
        /\ \A y \in Sends \ {x} : handed'[y] = handed[y]
    <2>1. handed \in [Sends -> Contents] /\ sender[x].carried \in Contents
      BY <1>1 DEF SendTypes, Threads
    <2>2. handed' = handed \/ \E c \in Contents : handed' = [handed EXCEPT ![x] = c]
      BY <2>1 DEF Moves
    <2>3. QED
      BY <2>1, <2>2
  <1>5. SendTypes'
    BY <1>1, <1>3, <1>4 DEF SendTypes
  <1>6. Readers' \subseteq Readers
    <2>1. t.kind = sender[x].kind /\ (t.pc \in {"connect", "write"} =>
                                       sender[x].pc = "connect")
      BY DEF Moves
    <2>2. QED
      BY <1>3, <2>1 DEF Readers
  <1>7. Writing'
    <2>1. sender[x].pc # "create"
      BY DEF Moves
    <2>2. creating # NoSend => creating \in Sends \ {x}
      BY <1>1, <2>1 DEF SendTypes, Writing
    <2>3. creating # NoSend => sender'[creating] = sender[creating]
      BY <1>3, <2>2
    <2>4. QED
      BY <1>1, <1>6, <2>3 DEF Writing
  <1>8. FileIsWhole'
    BY <1>1, <1>6 DEF FileIsWhole
  <1>9. CarriesWhole'
    <2>1. ASSUME t.pc = "send", x \notin rewritten
          PROVE  t.carried = "whole"
      <3>1. /\ sender[x].pc = "write" /\ sender[x].kind = "report"
            /\ t.carried = report
        BY <2>1 DEF Moves
      <3>2. x \in Readers
        BY <3>1 DEF Readers
      <3>3. creating = NoSend
        BY <1>1, <2>1, <3>2 DEF Writing
      <3>4. QED
        BY <1>1, <2>1, <3>1, <3>2, <3>3 DEF FileIsWhole
    <2>2. ASSUME NEW y \in Sends, y # x, sender'[y].pc = "send",
                 y \notin rewritten
          PROVE  sender'[y].carried = "whole"
      BY <1>1, <1>3, <2>2 DEF CarriesWhole
    <2>3. QED
      BY <1>3, <2>1, <2>2 DEF CarriesWhole
  <1>10. NoResultYet'
    <2>1. t.pc \in {"none", "create", "connect", "write", "send"}
            => t.result = "none"
      BY <1>1 DEF Moves, NoResultYet
    <2>2. QED
      BY <1>1, <1>3, <2>1 DEF NoResultYet
  <1>11. ReportArrivesWhole'
    <2>1. ASSUME t.kind = "report", t.result = "sent", x \notin rewritten
          PROVE  handed'[x] = "whole"
      <3>1. CASE sender[x].pc = "send"
        <4>1. handed' = [handed EXCEPT ![x] = sender[x].carried]
          BY <2>1, <3>1 DEF Moves
        <4>2. sender[x].carried = "whole"
          BY <1>1, <2>1, <3>1 DEF CarriesWhole
        <4>3. QED
          BY <1>1, <4>1, <4>2 DEF SendTypes
      <3>2. CASE sender[x].pc # "send"
        <4>1. /\ sender[x].pc \in {"connect", "write"} => t.result # "sent"
          BY <1>1, <2>1, <3>2 DEF Moves, NoResultYet
        <4>2. sender[x].pc \in {"result", "toast"} /\ handed' = handed
                /\ t.result = sender[x].result /\ t.kind = sender[x].kind
          BY <2>1, <3>2, <4>1 DEF Moves
        <4>3. QED
          BY <1>1, <2>1, <4>2 DEF ReportArrivesWhole
      <3>3. QED
        BY <3>1, <3>2
    <2>2. ASSUME NEW y \in Sends, y # x, sender'[y].kind = "report",
                 sender'[y].result = "sent", y \notin rewritten
          PROVE  handed'[y] = "whole"
      BY <1>1, <1>3, <1>4, <2>2 DEF ReportArrivesWhole
    <2>3. QED
      BY <1>3, <2>1, <2>2 DEF ReportArrivesWhole
  <1>12. QED
    BY <1>5, <1>7, <1>8, <1>9, <1>10, <1>11 DEF IInv

-----------------------------------------------------------------------------
(* The steps of the main thread.                                           *)

LEMMA ClickSendMessageInv ==
  ASSUME IInv, NEW x \in Sends, NEW i \in Screens, ClickSendMessage(x, i)
  PROVE  IInv'
  <1>1. /\ SendTypes /\ Writing /\ FileIsWhole /\ CarriesWhole /\ NoResultYet
        /\ ReportArrivesWhole
    BY DEF IInv
  <1>2. /\ sender[x].pc = "none" /\ creating = NoSend /\ UNCHANGED creating
        /\ UNCHANGED report /\ UNCHANGED handed /\ UNCHANGED rewritten
        /\ sender' = [sender EXCEPT ![x] =
             [@ EXCEPT !.pc = "connect", !.kind = "message", !.screen = i]]
    BY DEF ClickSendMessage, MainIsFree
  <1>3. /\ sender' \in [Sends -> Threads]
        /\ sender'[x].pc = "connect" /\ sender'[x].kind = "message"
        /\ sender'[x].result = sender[x].result
        /\ \A y \in Sends \ {x} : sender'[y] = sender[y]
    <2>1. sender \in [Sends -> Threads] /\ sender[x] \in Threads
      BY <1>1 DEF SendTypes
    <2> DEFINE t == [sender[x] EXCEPT !.pc = "connect", !.kind = "message",
                           !.screen = i]
    <2>2. /\ t \in Threads /\ t.pc = "connect" /\ t.kind = "message"
          /\ t.result = sender[x].result
      BY <2>1 DEF Threads
    <2>3. sender' = [sender EXCEPT ![x] = t]
      BY <1>2
    <2> HIDE DEF t
    <2>4. QED
      BY <2>1, <2>2, <2>3
  <1>4. Readers' \subseteq Readers
    BY <1>3 DEF Readers
  <1>5. SendTypes'
    BY <1>1, <1>2, <1>3 DEF SendTypes
  <1>6. Writing' /\ FileIsWhole'
    BY <1>1, <1>2, <1>4 DEF Writing, FileIsWhole
  <1>7. CarriesWhole' /\ NoResultYet' /\ ReportArrivesWhole'
    BY <1>1, <1>2, <1>3 DEF CarriesWhole, NoResultYet, ReportArrivesWhole
  <1>8. QED
    BY <1>5, <1>6, <1>7 DEF IInv

(* Opening the file empties it under whoever has it still to read. *)
LEMMA ClickSendReportInv ==
  ASSUME IInv, NEW x \in Sends, NEW i \in Screens, ClickSendReport(x, i)
  PROVE  IInv'
  <1>1. /\ SendTypes /\ Writing /\ FileIsWhole /\ CarriesWhole /\ NoResultYet
        /\ ReportArrivesWhole
    BY DEF IInv
  <1>2. /\ sender[x].pc = "none" /\ creating' = x /\ report' = "empty"
        /\ UNCHANGED handed /\ rewritten' = rewritten \union Readers
        /\ sender' = [sender EXCEPT ![x] =
             [@ EXCEPT !.pc = "create", !.kind = "report", !.screen = i]]
    BY DEF ClickSendReport
  <1>3. /\ sender' \in [Sends -> Threads]
        /\ sender'[x].pc = "create" /\ sender'[x].kind = "report"
        /\ sender'[x].result = sender[x].result
        /\ \A y \in Sends \ {x} : sender'[y] = sender[y]
    <2>1. sender \in [Sends -> Threads] /\ sender[x] \in Threads
      BY <1>1 DEF SendTypes
    <2> DEFINE t == [sender[x] EXCEPT !.pc = "create", !.kind = "report",
                           !.screen = i]
    <2>2. /\ t \in Threads /\ t.pc = "create" /\ t.kind = "report"
          /\ t.result = sender[x].result
      BY <2>1 DEF Threads
    <2>3. sender' = [sender EXCEPT ![x] = t]
      BY <1>2
    <2> HIDE DEF t
    <2>4. QED
      BY <2>1, <2>2, <2>3
  <1>4. Readers' \subseteq Readers /\ Readers \subseteq Sends
    BY <1>3 DEF Readers
  <1>5. SendTypes'
    BY <1>1, <1>2, <1>3, <1>4 DEF SendTypes, Contents
  <1>6. Writing' /\ FileIsWhole'
    BY <1>2, <1>3, <1>4, NoSendAssumption DEF Writing, FileIsWhole
  <1>7. CarriesWhole' /\ NoResultYet' /\ ReportArrivesWhole'
    BY <1>1, <1>2, <1>3 DEF CarriesWhole, NoResultYet, ReportArrivesWhole
  <1>8. QED
    BY <1>5, <1>6, <1>7 DEF IInv

LEMMA ReportNotOpenedInv ==
  ASSUME IInv, NEW x \in Sends, ReportNotOpened(x)
  PROVE  IInv'
  <1>1. /\ SendTypes /\ Writing /\ FileIsWhole /\ CarriesWhole /\ NoResultYet
        /\ ReportArrivesWhole
    BY DEF IInv
  <1>2. /\ creating = NoSend /\ UNCHANGED creating
        /\ UNCHANGED report /\ UNCHANGED handed /\ UNCHANGED rewritten
        /\ sender' = [sender EXCEPT ![x] =
             [@ EXCEPT !.pc = "done", !.kind = "report", !.result = "failed"]]
    BY DEF ReportNotOpened, MainIsFree
  <1>3. /\ sender' \in [Sends -> Threads]
        /\ sender'[x].pc = "done" /\ sender'[x].result = "failed"
        /\ \A y \in Sends \ {x} : sender'[y] = sender[y]
    <2>1. sender \in [Sends -> Threads] /\ sender[x] \in Threads
      BY <1>1 DEF SendTypes
    <2> DEFINE t == [sender[x] EXCEPT !.pc = "done", !.kind = "report",
                           !.result = "failed"]
    <2>2. /\ t \in Threads /\ t.pc = "done" /\ t.kind = "report"
          /\ t.result = "failed"
      BY <2>1 DEF Threads
    <2>3. sender' = [sender EXCEPT ![x] = t]
      BY <1>2
    <2> HIDE DEF t
    <2>4. QED
      BY <2>1, <2>2, <2>3
  <1>4. Readers' \subseteq Readers
    BY <1>3 DEF Readers
  <1>5. SendTypes'
    BY <1>1, <1>2, <1>3 DEF SendTypes
  <1>6. Writing' /\ FileIsWhole'
    BY <1>1, <1>2, <1>4 DEF Writing, FileIsWhole
  <1>7. CarriesWhole' /\ NoResultYet' /\ ReportArrivesWhole'
    BY <1>1, <1>2, <1>3 DEF CarriesWhole, NoResultYet, ReportArrivesWhole
  <1>8. QED
    BY <1>5, <1>6, <1>7 DEF IInv

(* The thread starts with a file that is whole and closed. *)
LEMMA WriteReportInv ==
  ASSUME IInv, NEW x \in Sends, WriteReport(x)
  PROVE  IInv'
  <1>1. /\ SendTypes /\ Writing /\ FileIsWhole /\ CarriesWhole /\ NoResultYet
        /\ ReportArrivesWhole
    BY DEF IInv
  <1>2. /\ creating = x /\ creating' = NoSend
        /\ UNCHANGED handed
    BY DEF WriteReport
  <1>3. /\ sender[x].pc = "create" /\ sender[x].result = "none"
        /\ Readers \subseteq rewritten
    BY <1>1, <1>2, NoSendAssumption DEF Writing, NoResultYet
  <1>4. CASE /\ report' = "whole" /\ rewritten' = rewritten \ Readers
             /\ sender' = [sender EXCEPT ![x].pc = "connect"]
    <2>1. /\ sender' \in [Sends -> Threads]
          /\ sender'[x].pc = "connect" /\ sender'[x].result = "none"
          /\ \A y \in Sends \ {x} : sender'[y] = sender[y]
      BY <1>1, <1>3, <1>4 DEF SendTypes, Threads
    <2>2. SendTypes'
      BY <1>1, <1>2, <1>4, <2>1 DEF SendTypes, Contents
    <2>3. Writing' /\ FileIsWhole'
      BY <1>2, <1>4 DEF Writing, FileIsWhole
    <2>4. NoResultYet'
      BY <1>1, <2>1 DEF NoResultYet
    <2>5. \A y \in Sends : y \notin rewritten' => y \notin rewritten \/ y \in Readers
      BY <1>4
    <2>6. CarriesWhole'
      BY <1>1, <2>1, <2>5 DEF CarriesWhole, Readers
    <2>7. \A y \in Readers : sender[y].result = "none"
      BY <1>1 DEF NoResultYet, Readers
    <2>8. ReportArrivesWhole'
      BY <1>1, <1>2, <2>1, <2>5, <2>7 DEF ReportArrivesWhole
    <2>9. QED
      BY <2>2, <2>3, <2>4, <2>6, <2>8 DEF IInv
  <1>5. CASE /\ report' = report /\ rewritten' = rewritten
             /\ sender' = [sender EXCEPT ![x].pc = "done",
                                         ![x].result = "failed"]
    <2>1. /\ sender' \in [Sends -> Threads]
          /\ sender'[x].pc = "done" /\ sender'[x].result = "failed"
          /\ \A y \in Sends \ {x} : sender'[y] = sender[y]
      BY <1>1, <1>3, <1>5 DEF SendTypes, Threads
    <2>2. SendTypes'
      BY <1>1, <1>2, <1>5, <2>1 DEF SendTypes
    <2>3. Readers' \subseteq rewritten
      BY <1>3, <2>1 DEF Readers
    <2>4. Writing' /\ FileIsWhole'
      BY <1>2, <1>5, <2>3 DEF Writing, FileIsWhole
    <2>5. CarriesWhole' /\ NoResultYet' /\ ReportArrivesWhole'
      BY <1>1, <1>2, <1>5, <2>1 DEF CarriesWhole, NoResultYet, ReportArrivesWhole
    <2>6. QED
      BY <2>2, <2>4, <2>5 DEF IInv
  <1>6. QED
    BY <1>4, <1>5 DEF WriteReport

-----------------------------------------------------------------------------
(* Navigation, the polling loops and the property service leave the clicks *)
(* and the file alone.                                                     *)
LEMMA RestInv ==
  ASSUME IInv, UNCHANGED sendVars
  PROVE  IInv'
  BY DEF IInv, sendVars, SendTypes, Writing, FileIsWhole, Readers, CarriesWhole,
         NoResultYet, ReportArrivesWhole

LEMMA OtherSteps ==
  \/ SelectList \/ SelectDashboard \/ DetailToList \/ Back
  \/ LeaveApp \/ ReturnToApp
  \/ (\E i \in Screens : \/ OpenDetail(i) \/ Poll(i) \/ PollThrows(i)
                         \/ ClearClicked(i) \/ ClearThrows(i))
  \/ CarAnswers \/ CarGetsFaults \/ OnChangeEvent
  => UNCHANGED sendVars
  BY DEF SelectList, SelectDashboard, DetailToList, Back, LeaveApp, ReturnToApp,
         OpenDetail, Poll, PollThrows, ClearClicked, ClearThrows, Ask,
         CarAnswers, CarGetsFaults, OnChangeEvent

(* The invariant holds always. *)
THEOREM Invariance == Spec => []IInv
  <1>1. Init => IInv
    BY InitInv
  <1>2. IInv /\ [Next]_appVars => IInv'
    <2> SUFFICES ASSUME IInv, [Next]_appVars PROVE IInv'
      OBVIOUS
    <2>1. CASE \E x \in Sends : ThreadStep(x)
      <3>1. PICK x \in Sends : SendStep(x)
        BY <2>1 DEF ThreadStep
      <3>2. CASE WriteReport(x)
        BY <3>2, WriteReportInv
      <3>3. CASE ~WriteReport(x)
        <4>1. SendTypes
          BY DEF IInv
        <4>2. \/ Connect(x) \/ SendMessage(x) \/ ReadReport(x)
              \/ SendReport(x) \/ ReportResult(x) \/ ShowToast(x)
          BY <3>1, <3>3 DEF SendStep
        <4>3. QED
          BY <4>1, <4>2, ThreadMoves, MovesInv
      <3>4. QED
        BY <3>2, <3>3
    <2>2. CASE \E x \in Sends, i \in Screens : ClickSend(x, i)
      BY <2>2, ClickSendMessageInv, ClickSendReportInv, ReportNotOpenedInv
      DEF ClickSend
    <2>3. CASE UNCHANGED appVars
      BY <2>3, RestInv DEF appVars
    <2>4. CASE UNCHANGED sendVars
      BY <2>4, RestInv
    <2>5. QED
      BY <2>1, <2>2, <2>3, <2>4, OtherSteps DEF Next
  <1>3. QED
    BY <1>1, <1>2, PTL DEF Spec

(* A report that is written over, or left empty, is lost to its thread for *)
(* good: what the thread finds, carries and hands over is not whole.       *)
Lost(x) ==
  /\ sender[x].kind = "report"
  /\ sender[x].pc \notin {"none", "create"}
  /\ sender[x].pc \in {"connect", "write"} => report # "whole"
  /\ sender[x].pc = "send" => sender[x].carried # "whole"
  /\ sender[x].result = "sent" => handed[x] # "whole"

RewrittenAreLost == \A x \in rewritten : Lost(x)

LEMMA MovesLost ==
  ASSUME IInv, RewrittenAreLost, NEW x \in Sends, NEW t \in Threads, Moves(x, t),
         creating' = creating, report' = report, rewritten' = rewritten
  PROVE  RewrittenAreLost'
  <1>1. SendTypes /\ NoResultYet
    BY DEF IInv
  <1>2. /\ sender' \in [Sends -> Threads] /\ sender'[x] = t
        /\ \A y \in Sends \ {x} : sender'[y] = sender[y]
    BY OneThread DEF Moves
  <1>3. \A y \in Sends \ {x} : handed'[y] = handed[y]
    <2>1. handed \in [Sends -> Contents]
      BY <1>1 DEF SendTypes
    <2>2. handed' = handed \/ \E c : handed' = [handed EXCEPT ![x] = c]
      BY DEF Moves
    <2>3. QED
      BY <2>1, <2>2
  <1>4. ASSUME NEW y \in rewritten, y # x PROVE Lost(y)'
    <2>1. y \in Sends /\ Lost(y)
      BY <1>1, <1>4 DEF SendTypes, RewrittenAreLost
    <2>2. sender'[y] = sender[y] /\ handed'[y] = handed[y]
      BY <1>2, <1>3, <1>4, <2>1
    <2>3. QED
      BY <2>1, <2>2 DEF Lost
  <1>5. ASSUME x \in rewritten PROVE Lost(x)'
    <2>1. Lost(x)
      BY <1>5 DEF RewrittenAreLost
    <2>2. t.kind = "report" /\ t.pc \notin {"none", "create"}
      BY <2>1 DEF Lost, Moves
    <2>3. t.pc \in {"connect", "write"} => report # "whole"
      BY <2>1 DEF Lost, Moves
    <2>4. t.pc = "send" => t.carried # "whole"
      BY <2>1 DEF Lost, Moves
    <2>5. ASSUME t.result = "sent" PROVE handed'[x] # "whole"
      <3>1. CASE sender[x].pc = "send"
        <4>1. handed' = [handed EXCEPT ![x] = sender[x].carried]
          BY <2>5, <3>1 DEF Moves
        <4>2. sender[x].carried # "whole"
          BY <2>1, <3>1 DEF Lost
        <4>3. QED
          BY <1>1, <4>1, <4>2 DEF SendTypes
      <3>2. CASE sender[x].pc # "send"
        <4>1. sender[x].pc \in {"connect", "write"} => sender[x].result = "none"
          BY <1>1 DEF NoResultYet
        <4>2. handed' = handed /\ t.result = sender[x].result
          BY <2>1, <2>5, <3>2, <4>1 DEF Moves, Lost
        <4>3. QED
          BY <2>1, <2>5, <4>2 DEF Lost
      <3>3. QED
        BY <3>1, <3>2
    <2>6. QED
      BY <1>2, <2>2, <2>3, <2>4, <2>5 DEF Lost
  <1>6. QED
    BY <1>4, <1>5 DEF RewrittenAreLost

(* A click changes no thread that has started, and empties the file. *)
LEMMA ClickLost ==
  ASSUME IInv, RewrittenAreLost, NEW x \in Sends, NEW i \in Screens,
         ClickSend(x, i)
  PROVE  RewrittenAreLost'
  <1>1. SendTypes /\ NoResultYet
    BY DEF IInv
  <1>2. /\ sender[x].pc = "none" /\ UNCHANGED handed
        /\ report' = report \/ report' = "empty"
        /\ rewritten' = rewritten \/ rewritten' = rewritten \union Readers
        /\ \E t : sender' = [sender EXCEPT ![x] = t]
        /\ rewritten' # rewritten => report' = "empty"
    BY DEF ClickSend, ClickSendMessage, ClickSendReport, ReportNotOpened
  <1>3. \A y \in Sends \ {x} : sender'[y] = sender[y]
    BY <1>1, <1>2 DEF SendTypes
  <1>4. ASSUME NEW y \in rewritten PROVE Lost(y)'
    <2>1. y \in Sends /\ Lost(y)
      BY <1>1, <1>4 DEF SendTypes, RewrittenAreLost
    <2>2. sender'[y] = sender[y] /\ handed'[y] = handed[y]
      BY <1>2, <1>3, <2>1 DEF Lost
    <2>3. QED
      BY <1>2, <2>1, <2>2 DEF Lost
  <1>5. ASSUME NEW y \in Readers, report' = "empty" PROVE Lost(y)'
    <2>1. /\ y \in Sends /\ y # x /\ sender[y].kind = "report"
          /\ sender[y].pc \in {"connect", "write"}
      BY <1>2, <1>5 DEF Readers
    <2>2. sender'[y] = sender[y] /\ sender[y].result = "none"
      BY <1>1, <1>3, <2>1 DEF NoResultYet
    <2>3. QED
      BY <1>5, <2>1, <2>2 DEF Lost
  <1>6. QED
    BY <1>2, <1>4, <1>5 DEF RewrittenAreLost

(* Whoever has the file still to read is not lost any more once it is      *)
(* written; the others have read it before.                                *)
LEMMA WriteLost ==
  ASSUME IInv, RewrittenAreLost, NEW x \in Sends, WriteReport(x)
  PROVE  RewrittenAreLost'
  <1>1. SendTypes /\ Writing
    BY DEF IInv
  <1>2. sender[x].pc = "create" /\ UNCHANGED handed
    BY <1>1, NoSendAssumption DEF Writing, WriteReport
  <1>3. /\ \E t : sender' = [sender EXCEPT ![x] = t]
        /\ \/ rewritten' = rewritten \ Readers
           \/ rewritten' = rewritten /\ report' = report
    <2>1. CASE sender' = [sender EXCEPT ![x].pc = "connect"]
      BY <2>1 DEF WriteReport
    <2>2. CASE sender' = [sender EXCEPT ![x].pc = "done", ![x].result = "failed"]
      BY <2>2 DEF WriteReport
    <2>3. QED
      BY <2>1, <2>2 DEF WriteReport
  <1>4. SUFFICES ASSUME NEW y \in rewritten' PROVE Lost(y)'
    BY DEF RewrittenAreLost
  <1>5. y \in Sends /\ y \in rewritten /\ Lost(y)
    BY <1>1, <1>3, <1>4 DEF SendTypes, RewrittenAreLost
  <1>6. sender'[y] = sender[y] /\ handed'[y] = handed[y]
    BY <1>1, <1>2, <1>3, <1>5 DEF SendTypes, Lost
  <1>7. sender[y].pc \in {"connect", "write"} => report' = report
    BY <1>3, <1>4, <1>5 DEF Lost, Readers
  <1>8. QED
    BY <1>5, <1>6, <1>7 DEF Lost

(* For any number of clicks, screens and loops: a report that was sent was *)
(* whole, exactly unless its thread read it while createReportFile, for a  *)
(* later click, had it open, or had failed to write it                     *)
(* (WifiSender.sendFile).                                                  *)
THEOREM ReportsArriveWhole == Spec => []ReportIsWholeUnlessRewritten
  <1>1. Init => RewrittenAreLost
    BY DEF Init, SendInit, RewrittenAreLost
  <1>2. IInv /\ RewrittenAreLost /\ [Next]_appVars => RewrittenAreLost'
    <2> SUFFICES ASSUME IInv, RewrittenAreLost, [Next]_appVars
                 PROVE  RewrittenAreLost'
      OBVIOUS
    <2>1. CASE \E x \in Sends : ThreadStep(x)
      <3>1. PICK x \in Sends : SendStep(x)
        BY <2>1 DEF ThreadStep
      <3>2. CASE WriteReport(x)
        BY <3>2, WriteLost
      <3>3. CASE ~WriteReport(x)
        <4>1. SendTypes
          BY DEF IInv
        <4>2. \/ Connect(x) \/ SendMessage(x) \/ ReadReport(x)
              \/ SendReport(x) \/ ReportResult(x) \/ ShowToast(x)
          BY <3>1, <3>3 DEF SendStep
        <4>3. QED
          BY <4>1, <4>2, ThreadMoves, MovesLost
      <3>4. QED
        BY <3>2, <3>3
    <2>2. CASE \E x \in Sends, i \in Screens : ClickSend(x, i)
      BY <2>2, ClickLost
    <2>3. CASE UNCHANGED sendVars
      BY <2>3 DEF sendVars, RewrittenAreLost, Lost
    <2>4. QED
      BY <2>1, <2>2, <2>3, OtherSteps DEF Next, appVars, sendVars
  <1>3. IInv /\ RewrittenAreLost => ReportIsWholeUnlessRewritten
    BY DEF IInv, SendTypes, ReportArrivesWhole, RewrittenAreLost, Lost,
           ReportIsWholeUnlessRewritten
  <1>4. QED
    BY <1>1, <1>2, <1>3, Invariance, PTL DEF Spec

-----------------------------------------------------------------------------
Questions == {"codes", "clear"}
Reports   == {"codes", "no codes", "no text", "cleared"}

ListTypes ==
  /\ alive \in BOOLEAN
  /\ attached \subseteq Screens
  /\ stack \in Seq(Screens \union {Detail})
  /\ saved \in Seq({"list", "detail"})
  /\ created \in 0..MaxScreens
  /\ foreground \in BOOLEAN
  /\ registered \subseteq Screens
  /\ loops \in [Screens -> Nat]
  /\ existing \subseteq Items
  /\ adapters \subseteq Screens
  /\ shown \in [Screens -> SUBSET Items]
  /\ faulty \in BOOLEAN
  /\ asked \in Seq(Questions)
  /\ events \in Seq(Reports)
  /\ faultCount \in 0..MaxFaults

(* The instances of the list among these screens. *)
Lists(screens) == {screens[k] : k \in DOMAIN screens} \ {Detail}

(* The screens of the stack are the attached ones, each has had a number,  *)
(* and whoever has an adapter has its callbacks registered.                *)
Numbered ==
  /\ attached = Lists(stack)
  /\ attached \subseteq 1..created
  /\ adapters \subseteq registered
  /\ registered \subseteq 1..created

ListInv ==
  /\ ListTypes
  /\ Numbered
  /\ ShownIsCurrent

LEMMA ListInvInitially == Init => ListInv
<1> SUFFICES ASSUME Init PROVE ListInv
  OBVIOUS
<1>1. MaxScreens \in Nat /\ MaxFaults \in Nat
  BY AppAssumption
<1>2. ListTypes
  BY <1>1 DEF Init, ListTypes
<1>3. Numbered
  <2>1. DOMAIN stack = {}
    BY DEF Init
  <2>2. Lists(stack) = {}
    BY <2>1 DEF Lists
  <2> QED BY <2>2 DEF Init, Numbered
<1>4. ShownIsCurrent
  BY DEF Init, ShownIsCurrent
<1> QED BY <1>2, <1>3, <1>4 DEF ListInv

-----------------------------------------------------------------------------
(* Sequences and counts. *)

(* A function on 1..n is a sequence. *)
LEMMA FunctionIsSeq ==
  ASSUME NEW S, NEW n \in Nat, NEW f \in [1..n -> S]
  PROVE  f \in Seq(S) /\ Len(f) = n
<1>1. f \in Seq(S)
  BY SeqDef
<1> QED BY <1>1, LenProperties

(* The screen on top is one of the screens, or none is. *)
LEMMA TopIsThere ==
  ASSUME NEW screens \in Seq(Screens \union {Detail})
  PROVE  /\ Top(screens) \in Screens \union {Detail}
         /\ Top(screens) # Detail => Top(screens) \in Lists(screens)
<1>1. CASE screens = <<>>
  BY <1>1 DEF Top
<1>2. CASE screens # <<>>
  <2>1. Len(screens) \in 1..Len(screens) /\ DOMAIN screens = 1..Len(screens)
    BY <1>2, EmptySeq, LenProperties
  <2>2. screens[Len(screens)] \in Screens \union {Detail}
    BY <2>1, ElementOfSeq
  <2> QED BY <1>2, <2>1, <2>2 DEF Top, Lists
<1> QED BY <1>1, <1>2

LEMMA KindsType ==
  ASSUME NEW screens \in Seq(Screens \union {Detail})
  PROVE  Kinds(screens) \in Seq({"list", "detail"})
<1>1. DOMAIN screens = 1..Len(screens) /\ Len(screens) \in Nat
  BY LenProperties
<1>2. Kinds(screens) \in [1..Len(screens) -> {"list", "detail"}]
  BY <1>1 DEF Kinds
<1> QED BY <1>1, <1>2, FunctionIsSeq

(* Counting lists from the front: at least one up to any list, and no more *)
(* than there are.                                                         *)
LEMMA ListsCount ==
  ASSUME NEW kinds \in Seq({"list", "detail"}), NEW k \in 0..Len(kinds)
  PROVE  /\ ListsUpTo(kinds, k) \in Nat
         /\ ListsUpTo(kinds, k) <= ListsUpTo(kinds, Len(kinds))
         /\ k # 0 /\ kinds[k] = "list" => ListsUpTo(kinds, k) >= 1
<1> DEFINE Those(m) == {j \in 1..m : kinds[j] = "list"}
<1>1. Len(kinds) \in Nat /\ k \in Nat
  OBVIOUS
<1>2. ASSUME NEW m \in 0..Len(kinds)
      PROVE  IsFiniteSet(Those(m)) /\ Cardinality(Those(m)) \in Nat
  <2>1. IsFiniteSet(1..m)
    BY <1>1, FS_Interval
  <2>2. IsFiniteSet(Those(m))
    BY <2>1, FS_Subset
  <2> QED BY <2>2, FS_CardinalityType
<1>3. Those(k) \subseteq Those(Len(kinds))
  BY <1>1
<1>4. Cardinality(Those(k)) <= Cardinality(Those(Len(kinds)))
  BY <1>1, <1>2, <1>3, FS_Subset
<1>5. ASSUME k # 0, kinds[k] = "list"
      PROVE  Cardinality(Those(k)) >= 1
  <2>1. k \in Those(k)
    BY <1>1, <1>5
  <2>2. Cardinality(Those(k)) # 0
    BY <1>2, <2>1, FS_EmptySet
  <2>3. Cardinality(Those(k)) \in Nat
    BY <1>1, <1>2
  <2> HIDE DEF Those
  <2> QED BY <2>2, <2>3
<1> QED BY <1>2, <1>4, <1>5 DEF ListsUpTo

(* New instances have numbers nobody had. *)
LEMMA InstancesAreNew ==
  ASSUME created \in 0..MaxScreens,
         NEW kinds \in Seq({"list", "detail"}),
         created + ListsUpTo(kinds, Len(kinds)) <= MaxScreens
  PROVE  /\ Instances(kinds) \in Seq(Screens \union {Detail})
         /\ Lists(Instances(kinds))
              \subseteq (created + 1)..(created + ListsUpTo(kinds, Len(kinds)))
<1> DEFINE lists == ListsUpTo(kinds, Len(kinds))
<1>1. DOMAIN kinds = 1..Len(kinds) /\ Len(kinds) \in Nat /\ MaxScreens \in Nat
  BY LenProperties, AppAssumption
<1>2. lists \in Nat
  BY <1>1, ListsCount
<1>3. ASSUME NEW k \in 1..Len(kinds), kinds[k] # "detail"
      PROVE  created + ListsUpTo(kinds, k) \in (created + 1)..(created + lists)
  <2>1. kinds[k] = "list"
    BY <1>3, ElementOfSeq
  <2>2. k \in 0..Len(kinds) /\ k # 0
    BY <1>1
  <2>3. /\ ListsUpTo(kinds, k) \in Nat /\ ListsUpTo(kinds, k) <= lists
        /\ ListsUpTo(kinds, k) >= 1
    BY <2>1, <2>2, ListsCount
  <2> HIDE DEF lists
  <2> QED BY <1>2, <2>3
<1>4. \A k \in 1..Len(kinds) :
        Instances(kinds)[k] \in {Detail} \union (created + 1)..(created + lists)
  BY <1>1, <1>3 DEF Instances
<1>5. DOMAIN Instances(kinds) = 1..Len(kinds)
  BY <1>1 DEF Instances
<1>6. (created + 1)..(created + lists) \subseteq Screens
  <2> HIDE DEF lists
  <2> QED BY <1>1, <1>2, AppAssumption DEF lists
<1>7. Instances(kinds) \in [1..Len(kinds) -> Screens \union {Detail}]
  BY <1>1, <1>4, <1>6 DEF Instances
<1> QED BY <1>1, <1>4, <1>5, <1>7, FunctionIsSeq DEF Lists

-----------------------------------------------------------------------------
(* The screens become others, of which each is one that is there already   *)
(* or has a new number: the top one loses its adapter, a new one has none. *)
LEMMA ShowStep ==
  ASSUME ListInv, alive,
         NEW screens \in Seq(Screens \union {Detail}),
         created' \in created..MaxScreens,
         Lists(screens) \subseteq 1..created',
         Lists(screens) \intersect 1..created \subseteq attached,
         saved' \in Seq({"list", "detail"}),
         Show(screens),
         UNCHANGED <<alive, foreground, existing, carVars>>
  PROVE  ListInv'
<1> DEFINE top == Top(screens)
           kept == Lists(screens)
<1>1. /\ top # Detail => top \in kept
      /\ top \in Screens \union {Detail}
  BY TopIsThere
<1>2. /\ stack' = screens
      /\ attached' = kept
      /\ registered' = registered \union ({top} \ {Detail})
      /\ loops' = [i \in Screens |->
                     IF i = top THEN loops[i] + 1
                     ELSE IF i \in kept THEN loops[i] ELSE 0]
      /\ adapters' = adapters \ {top}
      /\ shown' = shown
  BY DEF Show, Lists
<1>3. /\ created \in Nat /\ created' \in Nat /\ created <= created'
      /\ created' \in 0..MaxScreens /\ created' <= MaxScreens
      /\ Screens = 1..MaxScreens /\ MaxScreens \in Nat
  <2>1. Screens = 1..MaxScreens /\ MaxScreens \in Nat /\ created \in 0..MaxScreens
    BY AppAssumption DEF ListInv, ListTypes
  <2> QED BY <2>1
<1>4. kept \subseteq Screens
  <2>1. 1..created' \subseteq 1..MaxScreens
    BY <1>3
  <2> QED BY <1>3, <2>1
<1> HIDE DEF top, kept
<1>5. loops' \in [Screens -> Nat]
  <2>1. \A i \in Screens : loops[i] \in Nat
    BY DEF ListInv, ListTypes
  <2> QED BY <1>2, <2>1
<1>6. /\ 1..created \subseteq 1..created'
      /\ kept \subseteq 1..created'
      /\ kept \intersect 1..created \subseteq attached
  BY <1>3 DEF kept
<1> USE DEF ListInv, ListTypes, carVars
<1>7. ListTypes'
  BY <1>1, <1>2, <1>3, <1>4, <1>5
<1>8. Numbered'
  <2>1. registered' \subseteq 1..created'
    BY <1>1, <1>2, <1>6 DEF Numbered
  <2> QED BY <1>2, <1>6, <2>1 DEF Numbered, kept
<1>9. ShownIsCurrent'
  <2>1. ASSUME NEW i \in attached', i \in adapters'
        PROVE  shown'[i] = existing'
    <3>1. i \in adapters /\ i \in 1..created /\ i \in kept
      BY <1>2, <2>1 DEF Numbered
    <3>2. i \in attached
      BY <1>6, <3>1
    <3> QED BY <1>2, <3>1, <3>2 DEF ShownIsCurrent
  <2> QED BY <2>1 DEF ShownIsCurrent
<1> QED BY <1>7, <1>8, <1>9

(* Screens on top of others, and screens left out at the top. *)
LEMMA ListsOfStack ==
  ASSUME NEW screens \in Seq(Screens \union {Detail})
  PROVE  /\ \A i \in Screens \union {Detail} :
              /\ Append(screens, i) \in Seq(Screens \union {Detail})
              /\ Lists(Append(screens, i)) = Lists(screens) \union ({i} \ {Detail})
         /\ screens # <<>> =>
              /\ SubSeq(screens, 1, Len(screens) - 1) \in Seq(Screens \union {Detail})
              /\ Lists(SubSeq(screens, 1, Len(screens) - 1)) \subseteq Lists(screens)
<1>1. Len(screens) \in Nat /\ DOMAIN screens = 1..Len(screens)
  BY LenProperties
<1>2. ASSUME NEW i \in Screens \union {Detail}
      PROVE  /\ Append(screens, i) \in Seq(Screens \union {Detail})
             /\ Lists(Append(screens, i)) = Lists(screens) \union ({i} \ {Detail})
  <2>1. /\ Append(screens, i) \in Seq(Screens \union {Detail})
        /\ Len(Append(screens, i)) = Len(screens) + 1
        /\ \A k \in 1..Len(screens) : Append(screens, i)[k] = screens[k]
        /\ Append(screens, i)[Len(screens) + 1] = i
    BY AppendProperties
  <2>2. DOMAIN Append(screens, i) = 1..(Len(screens) + 1)
    BY <2>1, LenProperties
  <2>3. \A k : k \in 1..(Len(screens) + 1)
               <=> k \in 1..Len(screens) \/ k = Len(screens) + 1
    BY <1>1
  <2> QED BY <1>1, <2>1, <2>2, <2>3 DEF Lists
<1>3. ASSUME screens # <<>>
      PROVE  /\ SubSeq(screens, 1, Len(screens) - 1) \in Seq(Screens \union {Detail})
             /\ Lists(SubSeq(screens, 1, Len(screens) - 1)) \subseteq Lists(screens)
  <2> DEFINE n == Len(screens) - 1
             below == SubSeq(screens, 1, n)
  <2>1. n \in Nat /\ n <= Len(screens)
    BY <1>3, EmptySeq
  <2>2. \A k \in 1..n : k \in 1..Len(screens) /\ screens[k] \in Screens \union {Detail}
    BY <1>1, <2>1, ElementOfSeq
  <2>3. /\ below \in Seq(Screens \union {Detail})
        /\ Len(below) = n
        /\ \A k \in 1..n : below[k] = screens[k]
    <3> HIDE DEF n
    <3>1. /\ SubSeq(screens, 1, n) \in Seq(Screens \union {Detail})
          /\ Len(SubSeq(screens, 1, n)) = IF 1 <= n THEN n - 1 + 1 ELSE 0
          /\ \A k \in 1..(n - 1 + 1) : SubSeq(screens, 1, n)[k] = screens[1 + k - 1]
      BY <2>1, <2>2, SubSeqProperties
    <3> QED BY <2>1, <3>1
  <2>4. DOMAIN below = 1..n
    BY <2>3, LenProperties
  <2> QED BY <1>1, <2>2, <2>3, <2>4 DEF Lists
<1> QED BY <1>2, <1>3

(* Going from screen to screen. *)
LEMMA NavigationStep ==
  ASSUME ListInv,
         \/ SelectList \/ SelectDashboard \/ DetailToList \/ Back
         \/ \E i \in Screens : OpenDetail(i)
  PROVE  ListInv'
<1>1. /\ stack \in Seq(Screens \union {Detail})
      /\ saved \in Seq({"list", "detail"})
      /\ Kinds(stack) \in Seq({"list", "detail"})
      /\ attached = Lists(stack) /\ Lists(stack) \subseteq 1..created
  BY KindsType DEF ListInv, ListTypes, Numbered
<1>2. created \in 0..MaxScreens /\ MaxScreens \in Nat /\ Screens = 1..MaxScreens
  BY AppAssumption DEF ListInv, ListTypes
<1>3. CASE SelectList
  <2> DEFINE kinds == IF stack # <<>> THEN Kinds(stack)
                      ELSE IF saved # <<>> THEN saved ELSE <<"list">>
             lists == ListsUpTo(kinds, Len(kinds))
  <2>1. kinds \in Seq({"list", "detail"})
    <3>1. <<"list">> \in Seq({"list", "detail"})
      OBVIOUS
    <3> QED BY <1>1, <3>1, Zenon
  <2>2. /\ alive /\ created + lists <= MaxScreens /\ created' = created + lists
        /\ saved' = <<>> /\ Show(Instances(kinds))
        /\ UNCHANGED <<alive, foreground, existing, carVars>>
    BY <1>3 DEF SelectList, Navigate, MainIsFree
  <2> HIDE DEF kinds
  <2>3. lists \in Nat
    <3>1. Len(kinds) \in 0..Len(kinds)
      BY <2>1, LenProperties
    <3> QED BY <2>1, <3>1, ListsCount
  <2>4. /\ Instances(kinds) \in Seq(Screens \union {Detail})
        /\ Lists(Instances(kinds)) \subseteq (created + 1)..(created + lists)
    BY <1>2, <2>1, <2>2, InstancesAreNew
  <2> HIDE DEF lists
  <2>5. /\ created' \in created..MaxScreens
        /\ (created + 1)..(created + lists) \subseteq 1..created'
        /\ (created + 1)..(created + lists) \intersect 1..created = {}
    BY <1>2, <2>2, <2>3
  <2>6. /\ Lists(Instances(kinds)) \subseteq 1..created'
        /\ Lists(Instances(kinds)) \intersect 1..created \subseteq attached
    BY <2>4, <2>5
  <2>7. saved' \in Seq({"list", "detail"})
    BY <2>2
  <2> QED BY <2>2, <2>4, <2>5, <2>6, <2>7, ShowStep
<1>4. ASSUME NEW screens \in Seq(Screens \union {Detail}),
             Lists(screens) \subseteq attached,
             alive, created' = created, saved' \in Seq({"list", "detail"}),
             Show(screens), UNCHANGED <<alive, foreground, existing, carVars>>
      PROVE  ListInv'
  <2>1. created' \in created..MaxScreens
    BY <1>2, <1>4
  <2>2. /\ Lists(screens) \subseteq 1..created'
        /\ Lists(screens) \intersect 1..created \subseteq attached
    BY <1>1, <1>4
  <2> QED BY <1>4, <2>1, <2>2, ShowStep
<1>5. CASE SelectDashboard
  <2>1. <<>> \in Seq(Screens \union {Detail}) /\ Lists(<<>>) \subseteq attached
    BY DEF Lists
  <2> QED BY <1>1, <1>4, <1>5, <2>1 DEF SelectDashboard, Navigate, MainIsFree
<1>6. CASE Back
  <2>1. /\ SubSeq(stack, 1, Len(stack) - 1) \in Seq(Screens \union {Detail})
        /\ Lists(SubSeq(stack, 1, Len(stack) - 1)) \subseteq attached
    BY <1>1, <1>6, ListsOfStack DEF Back
  <2> QED BY <1>1, <1>4, <1>6, <2>1 DEF Back, Navigate, MainIsFree
<1>7. ASSUME NEW i \in Screens, OpenDetail(i)
      PROVE  ListInv'
  <2>1. /\ Append(stack, Detail) \in Seq(Screens \union {Detail})
        /\ Lists(Append(stack, Detail)) \subseteq attached
    BY <1>1, ListsOfStack
  <2> QED BY <1>1, <1>4, <1>7, <2>1 DEF OpenDetail, Navigate, MainIsFree
<1>8. CASE DetailToList
  <2> DEFINE below == SubSeq(stack, 1, Len(stack) - 1)
             screens == Append(below, created + 1)
  <2>1. /\ alive /\ stack # <<>> /\ created < MaxScreens /\ created' = created + 1
        /\ saved' = saved /\ Show(screens)
        /\ UNCHANGED <<alive, foreground, existing, carVars>>
    BY <1>8 DEF DetailToList, Navigate, MainIsFree
  <2>2. below \in Seq(Screens \union {Detail}) /\ Lists(below) \subseteq attached
    BY <1>1, <2>1, ListsOfStack
  <2>3. created + 1 \in Screens /\ created' \in created..MaxScreens
    BY <1>2, <2>1
  <2> HIDE DEF below
  <2>4. /\ screens \in Seq(Screens \union {Detail})
        /\ Lists(screens) \subseteq attached \union {created + 1}
    BY <2>2, <2>3, ListsOfStack
  <2>5. /\ 1..created \subseteq 1..created'
        /\ created + 1 \in 1..created'
        /\ created + 1 \notin 1..created
    BY <1>2, <2>1
  <2> HIDE DEF screens
  <2>6. /\ Lists(screens) \subseteq 1..created'
        /\ Lists(screens) \intersect 1..created \subseteq attached
    BY <1>1, <2>4, <2>5
  <2> QED BY <1>1, <2>1, <2>3, <2>4, <2>6, ShowStep
<1> QED BY <1>3, <1>5, <1>6, <1>7, <1>8

(* An event, and the other steps of the main thread and the car: only      *)
(* OnChangeEvent touches the codes, and it shows them on every view that   *)
(* has an adapter, or ends the app.                                        *)
LEMMA ListStep ==
  ASSUME ListInv, ListTypes',
         \/ LeaveApp \/ ReturnToApp \/ CarAnswers \/ CarGetsFaults
         \/ OnChangeEvent
         \/ \E i \in Screens : \/ Poll(i) \/ PollThrows(i)
                             \/ ClearClicked(i) \/ ClearThrows(i)
  PROVE  ListInv'
<1>1. CASE UNCHANGED <<attached, stack, created, registered, listVars>>
  BY <1>1 DEF ListInv, Numbered, ShownIsCurrent, listVars
<1>2. CASE \/ LeaveApp \/ ReturnToApp \/ CarAnswers \/ CarGetsFaults
           \/ \E i \in Screens : \/ Poll(i) \/ PollThrows(i)
                               \/ ClearClicked(i) \/ ClearThrows(i)
  BY <1>1, <1>2
  DEF LeaveApp, ReturnToApp, CarAnswers, CarGetsFaults, Poll, PollThrows,
      ClearClicked, ClearThrows, Ask, screenVars
<1>3. CASE OnChangeEvent
  <2>1. UNCHANGED screenVars
    BY <1>3 DEF OnChangeEvent
  <2>2. CASE registered = {}
    BY <1>1, <1>3, <2>1, <2>2 DEF OnChangeEvent, screenVars
  <2>3. CASE /\ registered # {} /\ registered \subseteq attached
             /\ Head(events) # "no text"
    <3>1. /\ adapters' = adapters \union registered
          /\ shown' = [i \in Screens |->
                         IF i \in registered THEN existing' ELSE shown[i]]
      BY <1>3, <2>3 DEF OnChangeEvent, Refresh
    <3>2. adapters' \subseteq registered /\ registered \subseteq Screens
      BY <3>1 DEF ListInv, Numbered, ListTypes
    <3>3. ShownIsCurrent'
      BY <3>1, <3>2 DEF ShownIsCurrent
    <3>4. Numbered'
      BY <2>1, <3>2 DEF ListInv, Numbered, screenVars
    <3> QED BY <3>3, <3>4 DEF ListInv
  <2>4. CASE UNCHANGED listVars
    BY <1>1, <2>1, <2>4 DEF screenVars
  <2> QED BY <1>3, <2>2, <2>3, <2>4 DEF OnChangeEvent, Die
<1> QED BY <1>2, <1>3

(* The types of what these steps change. *)
LEMMA ListTypesStep ==
  ASSUME ListInv,
         \/ LeaveApp \/ ReturnToApp \/ CarAnswers \/ CarGetsFaults
         \/ OnChangeEvent
         \/ \E i \in Screens : \/ Poll(i) \/ PollThrows(i)
                             \/ ClearClicked(i) \/ ClearThrows(i)
  PROVE  ListTypes'
<1>1. ListTypes
  BY DEF ListInv
<1>2. CASE LeaveApp
  BY <1>1, <1>2 DEF LeaveApp, ListTypes, listVars, carVars
<1>3. CASE ReturnToApp
  <2>1. loops' \in [Screens -> Nat]
    <3>1. loops \in [Screens -> Nat]
      BY <1>1 DEF ListTypes
    <3>2. \/ loops' = loops
          \/ loops' = [loops EXCEPT ![Top(stack)] = loops[Top(stack)] + 1]
      BY <1>3 DEF ReturnToApp
    <3> QED BY <3>1, <3>2
  <2> QED BY <1>1, <1>3, <2>1 DEF ReturnToApp, ListTypes, listVars, carVars
<1>4. ASSUME NEW i \in Screens, Poll(i) \/ ClearClicked(i)
      PROVE  ListTypes'
  <2>1. "codes" \in Questions /\ "clear" \in Questions
    BY DEF Questions
  <2>2. asked \in Seq(Questions)
    BY <1>1 DEF ListTypes
  <2>3. PICK question \in Questions : Ask(question)
    BY <1>4, <2>1 DEF Poll, ClearClicked
  <2>4. asked' \in Seq(Questions)
    BY <2>2, <2>3, AppendProperties DEF Ask
  <2> QED BY <1>1, <2>3, <2>4 DEF Ask, ListTypes, screenVars, listVars
<1>9. ASSUME NEW i \in Screens, PollThrows(i) \/ ClearThrows(i)
      PROVE  ListTypes'
  BY <1>1, <1>9
  DEF PollThrows, ClearThrows, ListTypes, screenVars, listVars, carVars
<1>5. MaxFaults \in Nat
  BY AppAssumption
<1>6. CASE CarAnswers
  <2>1. asked \in Seq(Questions) /\ events \in Seq(Reports)
        /\ faultCount \in 0..MaxFaults /\ faulty \in BOOLEAN
    BY <1>1 DEF ListTypes
  <2>2. asked' \in Seq(Questions)
    BY <1>6, <2>1, HeadTailProperties DEF CarAnswers
  <2>3. events' \in Seq(Reports)
    <3>1. /\ "codes" \in Reports /\ "no codes" \in Reports
          /\ "no text" \in Reports /\ "cleared" \in Reports
      BY DEF Reports
    <3>2. events' = events \/ \E message \in Reports : events' = Append(events, message)
      BY <1>6, <3>1 DEF CarAnswers
    <3> QED BY <2>1, <3>2, AppendProperties
  <2>4. faultCount' \in 0..MaxFaults /\ faulty' \in BOOLEAN
    <3>1. /\ faulty' = faulty \/ faulty' = FALSE
          /\ \/ faultCount' = faultCount
             \/ faultCount < MaxFaults /\ faultCount' = faultCount + 1
      BY <1>6 DEF CarAnswers
    <3>2. faulty' \in BOOLEAN
      BY <2>1, <3>1
    <3>3. faultCount' \in 0..MaxFaults
      BY <1>5, <2>1, <3>1
    <3> QED BY <3>2, <3>3
  <2> QED
    BY <1>1, <1>6, <2>2, <2>3, <2>4
    DEF CarAnswers, ListTypes, screenVars, listVars
<1>7. CASE CarGetsFaults
  <2>1. faultCount' \in 0..MaxFaults /\ faulty' \in BOOLEAN
    BY <1>1, <1>5, <1>7 DEF CarGetsFaults, ListTypes
  <2> QED BY <1>1, <1>7, <2>1 DEF CarGetsFaults, ListTypes, screenVars, listVars
<1>8. CASE OnChangeEvent
  <2>1. events' \in Seq(Reports)
    <3>1. events \in Seq(Reports) /\ events # <<>> /\ events' = Tail(events)
      BY <1>1, <1>8 DEF OnChangeEvent, ListTypes
    <3> QED BY <3>1, HeadTailProperties
  <2>2. existing' \subseteq Items
    BY <1>1, <1>8 DEF OnChangeEvent, CodesAfter, Die, ListTypes, listVars
  <2>3. adapters' \subseteq Screens /\ shown' \in [Screens -> SUBSET Items]
    BY <1>1, <1>8, <2>2 DEF OnChangeEvent, Refresh, Die, ListTypes, listVars
  <2>4. alive' \in BOOLEAN
    BY <1>1, <1>8 DEF OnChangeEvent, Die, ListTypes
  <2> QED
    BY <1>1, <1>8, <2>1, <2>2, <2>3, <2>4
    DEF OnChangeEvent, ListTypes, screenVars
<1> QED BY <1>2, <1>3, <1>4, <1>6, <1>7, <1>8, <1>9

(* The threads of WifiSender and the clicks that start them touch neither  *)
(* screens nor codes.                                                      *)
LEMMA SendingStep ==
  ASSUME ListInv,
         \E x \in Sends : ThreadStep(x) \/ \E i \in Screens : ClickSend(x, i)
  PROVE  ListInv'
<1>1. PICK x \in Sends : ThreadStep(x) \/ \E i \in Screens : ClickSend(x, i)
  OBVIOUS
<1>2. /\ UNCHANGED <<attached, stack, saved, created, foreground, registered,
                      loops, listVars, carVars>>
      /\ alive
  BY <1>1
  DEF ThreadStep, ClickSend, SendStep, WriteReport, Connect, SendMessage,
      ReadReport, SendReport, ReportResult, ShowToast, ClickSendMessage,
      ClickSendReport, ReportNotOpened, Running, MainIsFree
<1>3. ListTypes' /\ Numbered' /\ ShownIsCurrent'
  <2>1. alive' \in BOOLEAN
    BY <1>1, <1>2
    DEF ThreadStep, ClickSend, SendStep, WriteReport, Connect, SendMessage,
        ReadReport, SendReport, ReportResult, ShowToast, ClickSendMessage,
        ClickSendReport, ReportNotOpened
  <2> QED
    BY <1>2, <2>1
    DEF ListInv, ListTypes, Numbered, ShownIsCurrent, listVars, carVars
<1> QED BY <1>3 DEF ListInv

(* The invariant of the list holds always. *)
THEOREM ListInvariance == Spec => []ListInv
<1>1. ASSUME ListInv, [Next]_appVars
      PROVE  ListInv'
  <2>1. CASE UNCHANGED appVars
    BY <1>1, <2>1
    DEF appVars, screenVars, listVars, carVars, sendVars, ListInv, ListTypes,
        Numbered, ShownIsCurrent
  <2> QED
    BY <1>1, <2>1, NavigationStep, ListTypesStep, ListStep, SendingStep
    DEF Next
<1> QED BY ListInvInitially, <1>1, PTL DEF Spec

(* The state of the app has its type in every reachable state. *)
THEOREM TypeCorrect == Spec => []TypeOK
<1>1. IInv /\ ListInv => TypeOK
  BY DEF IInv, SendTypes, ListInv, ListTypes, TypeOK, SendTypeOK,
         Questions, Reports
<1> QED BY <1>1, Invariance, ListInvariance, PTL

(* Whichever instances of the list there are, and whichever of them asked, *)
(* a view that shows codes shows the current ones: every callback of every *)
(* screen that was ever there runs for every event.                        *)
THEOREM ViewsAreCurrent == Spec => []ShownIsCurrent
<1>1. ListInv => ShownIsCurrent
  BY DEF ListInv
<1> QED BY <1>1, ListInvariance, PTL

(* However many screens, clicks and events there are: unless setProperty   *)
(* throws or an event has no text (UdsListFragment.kt, onChangeEvent), the *)
(* app ends only over a screen that is gone and whose callbacks or threads *)
(* are not.                                                                *)
THEOREM OnlyGoneScreensEndTheApp == Spec => OnlyCarAndGoneScreensAreFatal
<1> DEFINE Fatal ==
      \/ \E i \in Screens : PollThrows(i) \/ ClearThrows(i)
      \/ events' # events /\ Head(events) = "no text"
      \/ \E i \in Screens \ attached :
           i \in registered \/ \E x \in Sends : sender[x].screen = i
<1>1. ASSUME ListInv, IInv, [Next]_appVars, alive, ~alive'
      PROVE  Fatal
  <2>1. CASE OnChangeEvent
    <3>1. ~(registered \subseteq attached) \/ Head(events) = "no text"
      BY <1>1, <2>1 DEF OnChangeEvent
    <3>2. registered \subseteq Screens
      BY <1>1 DEF ListInv, ListTypes
    <3>3. events \in Seq(Reports) /\ events # <<>> /\ events' = Tail(events)
      BY <1>1, <2>1 DEF OnChangeEvent, ListInv, ListTypes
    <3>4. events' # events
      BY <3>3, HeadTailProperties
    <3> QED BY <3>1, <3>2, <3>4
  <2>2. CASE \E x \in Sends : ThreadStep(x)
    <3>1. PICK x \in Sends : SendStep(x)
      BY <2>2 DEF ThreadStep
    <3>2. sender[x].screen \notin attached
      BY <1>1, <3>1
      DEF SendStep, WriteReport, Connect, SendMessage, ReadReport, SendReport,
          ReportResult, ShowToast
    <3>3. sender[x].screen \in Screens
      BY <1>1 DEF IInv, SendTypes, Threads
    <3> QED BY <3>2, <3>3
  <2>3. CASE \E i \in Screens : PollThrows(i) \/ ClearThrows(i)
    BY <2>3
  <2>4. CASE \/ SelectList \/ SelectDashboard \/ DetailToList \/ Back
             \/ LeaveApp \/ ReturnToApp \/ CarAnswers \/ CarGetsFaults
             \/ \E i \in Screens : OpenDetail(i) \/ Poll(i) \/ ClearClicked(i)
             \/ \E x \in Sends, i \in Screens : ClickSend(x, i)
             \/ UNCHANGED appVars
    BY <1>1, <2>4
    DEF SelectList, SelectDashboard, DetailToList, Back, LeaveApp, ReturnToApp,
        CarAnswers, CarGetsFaults, OpenDetail, Poll, ClearClicked, Ask,
        ClickSend, ClickSendMessage, ClickSendReport, ReportNotOpened, appVars
  <2> QED BY <1>1, <2>1, <2>2, <2>3, <2>4 DEF Next
<1>2. ListInv /\ IInv /\ [Next]_appVars => [alive /\ ~alive' => Fatal]_appVars
  BY <1>1
<1> QED
  BY <1>2, ListInvariance, Invariance, PTL
  DEF Spec, OnlyCarAndGoneScreensAreFatal
=============================================================================
