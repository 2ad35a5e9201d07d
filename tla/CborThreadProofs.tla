-------------------------- MODULE CborThreadProofs --------------------------
(***************************************************************************)
(* Proofs about CborThread for any lengths and any queues of more than one *)
(* place.  The two cores take turns: Phases lists where both of them and   *)
(* both queues can be at once, and with it no event is left over from one  *)
(* command to the next.  What the answer says follows the handler's        *)
(* outcome from phase to phase while no callback touches apdu; the parts   *)
(* of a frame still to be read follow from the bytes that are left.        *)
(***************************************************************************)
EXTENDS CborThread, SequenceTheorems, TLAPS

At(u, cards, tc, tu) == usb = u /\ card \in cards /\ toCard = tc /\ toUsb = tu

Working == {"run", "return", "status", "size", "finish"}

\* No command is in progress.
Resting == At("idle", {"off", "idle"}, <<>>, <<>>)

\* A command is handed over, and the thread has not acknowledged it.
HandedOver ==
    /\ runs = 0
    /\ \/ At("sent", {"idle"}, <<"COMMAND">>, <<>>)
       \/ At("sent", {"ack"}, <<>>, <<>>) /\ event = "COMMAND"

\* The thread is ahead of the USB core, which has yet to take the acknowledgement.
Ahead ==
    /\ runs = 1
    /\ \/ At("sent", Working, <<>>, <<"ACK">>)
       \/ At("sent", {"await"}, <<>>, <<"ACK", "PRESS_BUTTON">>)
       \/ At("sent", {"idle"}, <<>>, <<"ACK", "EXEC_FINISHED">>)

\* Both know of the command.
InProgress ==
    /\ runs = 1
    /\ \/ At("busy", Working \cup {"touched"}, <<>>, <<>>)
       \/ At("busy", {"await"}, <<>>, <<"PRESS_BUTTON">>)
       \/ At("button", {"await"}, <<>>, <<>>)
       \/ At("busy", {"await"}, <<"PRESSED">>, <<>>) /\ pressed
       \/ At("busy", {"await"}, <<"TIMEOUT">>, <<>>)
       \/ At("busy", {"idle"}, <<>>, <<"EXEC_FINISHED">>)

\* The thread is being stopped.
Stopping ==
    \/ At("leaving", {"idle"}, <<"EXIT">>, <<>>)
    \/ At("leaving", {"ack"}, <<>>, <<>>) /\ event = "EXIT"
    \/ At("leaving", {"off"}, <<>>, <<"ACK">>)

Phases == Resting \/ HandedOver \/ Ahead \/ InProgress \/ Stopping

TurnInv == Phases /\ runs \in {0, 1} /\ (card = "touched" => pressed)

\* A queue of one or two events.
LEMMA Queues ==
    ASSUME NEW x \in Events, NEW y \in Events
    PROVE  /\ Append(<<>>, x) = <<x>> /\ Append(<<x>>, y) = <<x, y>>
           /\ Head(<<x>>) = x /\ Tail(<<x>>) = <<>> /\ <<x>> # <<>>
           /\ Head(<<x, y>>) = x /\ Tail(<<x, y>>) = <<y>> /\ <<x, y>> # <<>>
           /\ Len(<<>>) = 0 /\ Len(<<x>>) = 1
  <1>1. <<x>> \in Seq(Events) /\ <<x, y>> \in Seq(Events) /\ <<>> \in Seq(Events)
    OBVIOUS
  <1>2. Append(<<>>, x) = <<x>>
    OBVIOUS
  <1>3. Append(<<x>>, y) = <<x, y>>
    <2>. DEFINE s == Append(<<x>>, y)
    <2>1. s \in Seq(Events) /\ Len(s) = 2 /\ s[1] = x /\ s[2] = y
      BY <1>1
    <2>. HIDE DEF s
    <2>2. Len(<<x, y>>) = 2 /\ <<x, y>>[1] = x /\ <<x, y>>[2] = y
      OBVIOUS
    <2>3. \A i \in 1 .. Len(s) : s[i] = <<x, y>>[i]
      BY <2>1, <2>2
    <2>4. s = <<x, y>>
      BY <1>1, <2>1, <2>2, <2>3, SeqEqual
    <2>. QED
      BY <2>4 DEF s
  <1>4. Head(<<x>>) = x /\ Head(<<x, y>>) = x
    BY <1>1
  <1>5. Tail(<<x>>) = <<>>
    BY <1>1
  <1>6. Tail(<<x, y>>) = <<y>>
    BY <1>1
  <1>7. Len(<<>>) = 0 /\ Len(<<x>>) = 1 /\ <<x>> # <<>> /\ <<x, y>> # <<>>
    BY <1>1
  <1>. QED
    BY <1>2, <1>3, <1>4, <1>5, <1>6, <1>7

\* While a handler runs, no event waits for the card core, and none but an
\* acknowledgement for the USB core.
LEMMA WhileWorking ==
    ASSUME TurnInv, card \in Working \cup {"touched"}
    PROVE  toCard = <<>> /\ runs = 1 /\ ((usb = "sent" /\ toUsb = <<"ACK">>) \/ (usb = "busy" /\ toUsb = <<>>))
  <1>1. card \notin {"off", "idle", "ack", "await"}
    BY DEF Working
  <1>2. Ahead \/ InProgress
    BY <1>1 DEF TurnInv, Phases, At, Resting, HandedOver, Stopping
  <1>3. CASE Ahead
    BY <1>1, <1>3 DEF Ahead, At
  <1>4. CASE InProgress
    BY <1>1, <1>4 DEF InProgress, At
  <1>. QED
    BY <1>2, <1>3, <1>4

\* The USB core takes the end of a command after the handler has run.
LEMMA TakenEvent ==
    ASSUME TurnInv, TakeEvent
    PROVE  /\ toCard = <<>> /\ runs = 1
           /\ (card = "await" /\ toUsb = <<"PRESS_BUTTON">>) \/ (card = "idle" /\ toUsb = <<"EXEC_FINISHED">>)
           /\ Head(toUsb) = "EXEC_FINISHED" => card = "idle"
  <1>1. InProgress
    BY DEF TakeEvent, TurnInv, Phases, At, Resting, HandedOver, Ahead, Stopping
  <1>2. /\ toCard = <<>> /\ runs = 1
        /\ (card = "await" /\ toUsb = <<"PRESS_BUTTON">>) \/ (card = "idle" /\ toUsb = <<"EXEC_FINISHED">>)
    BY <1>1 DEF TakeEvent, InProgress, At
  <1>3. Head(<<"PRESS_BUTTON">>) = "PRESS_BUTTON"
    BY Queues DEF Events
  <1>. QED
    BY <1>2, <1>3

\* Every step of either core leads from a phase to the next, and every report
\* leaves them where they are.
LEMMA TurnStep == ASSUME TurnInv, [Next]_vars PROVE TurnInv'
  <1>0. /\ "COMMAND" \in Events /\ "EXIT" \in Events /\ "PRESSED" \in Events /\ "TIMEOUT" \in Events
        /\ "ACK" \in Events /\ "PRESS_BUTTON" \in Events /\ "EXEC_FINISHED" \in Events
    BY DEF Events
  <1>1. CASE Send
    <2>1. Resting
      BY <1>1 DEF Send, TurnInv, Phases, At, Resting, HandedOver, Ahead, InProgress, Stopping
    <2>2. toCard' = <<"COMMAND">>
      BY <1>0, <1>1, <2>1, Queues DEF Send, Resting, At
    <2>3. usb' = "sent" /\ card' = "idle" /\ toUsb' = <<>> /\ runs' = 0
      BY <1>1, <2>1 DEF Send, Resting, At
    <2>. QED
      BY <2>2, <2>3 DEF TurnInv, Phases, HandedOver, At
  <1>2. CASE Leave
    <2>1. Resting
      BY <1>2 DEF Leave, TurnInv, Phases, At, Resting, HandedOver, Ahead, InProgress, Stopping
    <2>2. toCard' = <<"EXIT">>
      BY <1>0, <1>2, <2>1, Queues DEF Leave, Resting, At
    <2>3. usb' = "leaving" /\ card' = "idle" /\ toUsb' = <<>> /\ runs' = runs
      BY <1>2, <2>1 DEF Leave, Resting, At, thread, history
    <2>. QED
      BY <2>2, <2>3 DEF TurnInv, Phases, Stopping, At
  <1>3. CASE TakeAck
    <2>1. UNCHANGED <<card, toCard, runs, pressed>>
      BY <1>3 DEF TakeAck, thread, history
    <2>2. CASE Ahead
      <3>1. ASSUME NEW cards, At("sent", cards, <<>>, <<"ACK">>) PROVE At("busy", cards, <<>>, <<>>)'
        <4>1. Head(toUsb) = "ACK" /\ Tail(toUsb) = <<>>
          BY <1>0, <3>1, Queues DEF At
        <4>. QED
          BY <1>3, <2>1, <3>1, <4>1 DEF TakeAck, At
      <3>2. ASSUME NEW cards, NEW e \in Events, At("sent", cards, <<>>, <<"ACK", e>>)
            PROVE  At("busy", cards, <<>>, <<e>>)'
        <4>1. Head(toUsb) = "ACK" /\ Tail(toUsb) = <<e>>
          BY <1>0, <3>2, Queues DEF At
        <4>. QED
          BY <1>3, <2>1, <3>2, <4>1 DEF TakeAck, At
      <3>3. InProgress'
        BY <1>0, <2>1, <2>2, <3>1, <3>2 DEF Ahead, InProgress, At
      <3>. QED
        BY <2>1, <3>3 DEF TurnInv, Phases
    <2>3. CASE Stopping
      <3>1. toUsb = <<"ACK">> /\ card = "off" /\ toCard = <<>> /\ usb = "leaving"
        BY <1>3, <2>3 DEF TakeAck, Stopping, At
      <3>2. Head(toUsb) = "ACK" /\ Tail(toUsb) = <<>>
        BY <1>0, <3>1, Queues
      <3>3. Resting'
        BY <1>3, <2>1, <3>1, <3>2 DEF TakeAck, Resting, At
      <3>. QED
        BY <2>1, <3>3 DEF TurnInv, Phases
    <2>. QED
      BY <1>3, <2>2, <2>3 DEF TakeAck, TurnInv, Phases, Resting, HandedOver, InProgress, At
  <1>4. CASE TakeEvent
    <2>1. UNCHANGED <<card, toCard, runs, pressed>>
      BY <1>4 DEF TakeEvent, thread
    <2>2. (card = "await" /\ toUsb = <<"PRESS_BUTTON">>) \/ (card = "idle" /\ toUsb = <<"EXEC_FINISHED">>)
      BY <1>4, TakenEvent
    <2>3. toCard = <<>> /\ runs = 1
      BY <1>4, TakenEvent
    <2>4. CASE card = "await" /\ toUsb = <<"PRESS_BUTTON">>
      <3>1. Head(toUsb) = "PRESS_BUTTON" /\ Tail(toUsb) = <<>>
        BY <1>0, <2>4, Queues
      <3>2. InProgress'
        BY <1>4, <2>1, <2>3, <2>4, <3>1 DEF TakeEvent, InProgress, At
      <3>. QED
        BY <2>1, <3>2 DEF TurnInv, Phases
    <2>5. CASE card = "idle" /\ toUsb = <<"EXEC_FINISHED">>
      <3>1. Head(toUsb) = "EXEC_FINISHED" /\ Tail(toUsb) = <<>>
        BY <1>0, <2>5, Queues
      <3>2. Resting'
        BY <1>4, <2>1, <2>3, <2>5, <3>1 DEF TakeEvent, Resting, At
      <3>. QED
        BY <2>1, <3>2 DEF TurnInv, Phases
    <2>. QED
      BY <2>2, <2>4, <2>5
  <1>5. ASSUME NEW reply \in {"PRESSED", "TIMEOUT"}, Button(reply) PROVE TurnInv'
    <2>1. card = "await" /\ toCard = <<>> /\ toUsb = <<>> /\ runs = 1
      BY <1>5 DEF Button, TurnInv, Phases, At, Resting, HandedOver, Ahead, InProgress, Stopping
    <2>2. toCard' = <<reply>>
      BY <1>0, <1>5, <2>1, Queues DEF Button
    <2>3. usb' = "busy" /\ card' = "await" /\ toUsb' = <<>> /\ runs' = runs /\ pressed' = (reply = "PRESSED")
      BY <1>5, <2>1 DEF Button, thread
    <2>4. InProgress'
      BY <2>1, <2>2, <2>3 DEF InProgress, At
    <2>. QED
      BY <2>3, <2>4 DEF TurnInv, Phases
  <1>6. CASE TakeCommand
    <2>1. UNCHANGED <<usb, toUsb, runs, pressed>> /\ card' = "ack"
      BY <1>6 DEF TakeCommand, history
    <2>2. \/ usb = "sent" /\ toCard = <<"COMMAND">> /\ runs = 0
          \/ usb = "leaving" /\ toCard = <<"EXIT">>
      BY <1>6 DEF TakeCommand, TurnInv, Phases, At, Resting, HandedOver, Ahead, InProgress, Stopping
    <2>3. toUsb = <<>>
      BY <1>6, <2>2 DEF TakeCommand, TurnInv, Phases, At, Resting, HandedOver, Ahead, InProgress, Stopping
    <2>4. PICK e \in {"COMMAND", "EXIT"} : toCard = <<e>>
      BY <2>2
    <2>5. event' = e /\ toCard' = <<>> /\ (e = "COMMAND" <=> toCard = <<"COMMAND">>)
      BY <1>0, <1>6, <2>4, Queues DEF TakeCommand
    <2>6. toCard = <<"COMMAND">> => HandedOver'
      BY <2>1, <2>2, <2>3, <2>5 DEF HandedOver, At
    <2>7. toCard = <<"EXIT">> => Stopping'
      BY <1>0, <1>6, <2>1, <2>2, <2>3, <2>4, <2>5, Queues DEF Stopping, At
    <2>. QED
      BY <2>1, <2>2, <2>6, <2>7 DEF TurnInv, Phases
  <1>7. CASE Acknowledge
    <2>1. UNCHANGED <<usb, toCard, pressed>>
      BY <1>7 DEF Acknowledge
    <2>2. \/ usb = "sent" /\ event = "COMMAND" /\ runs = 0
          \/ usb = "leaving" /\ event = "EXIT"
      BY <1>7 DEF Acknowledge, TurnInv, Phases, At, Working, Resting, HandedOver, Ahead, InProgress, Stopping
    <2>3. toUsb = <<>> /\ toCard = <<>>
      BY <1>7 DEF Acknowledge, TurnInv, Phases, At, Working, Resting, HandedOver, Ahead, InProgress, Stopping
    <2>4. toUsb' = <<"ACK">>
      BY <1>0, <1>7, <2>3, Queues DEF Acknowledge
    <2>5. CASE event = "COMMAND"
      <3>1. card' = "run" /\ runs' = 1
        BY <1>7, <2>2, <2>5 DEF Acknowledge
      <3>2. Ahead'
        BY <2>1, <2>2, <2>3, <2>4, <2>5, <3>1 DEF Ahead, At, Working
      <3>. QED
        BY <3>1, <3>2 DEF TurnInv, Phases
    <2>6. CASE event = "EXIT"
      <3>1. card' = "off" /\ runs' = runs
        BY <1>7, <2>6 DEF Acknowledge
      <3>2. Stopping'
        BY <2>1, <2>2, <2>3, <2>4, <2>6, <3>1 DEF Stopping, At
      <3>. QED
        BY <3>1, <3>2 DEF TurnInv, Phases
    <2>. QED
      BY <2>2, <2>5, <2>6
  <1>8. CASE AskButton
    <2>1. UNCHANGED <<usb, toCard, runs, pressed>> /\ card' = "await"
      BY <1>8 DEF AskButton, history
    <2>2. toCard = <<>> /\ runs = 1 /\ ((usb = "sent" /\ toUsb = <<"ACK">>) \/ (usb = "busy" /\ toUsb = <<>>))
      BY <1>8, WhileWorking DEF AskButton, Working
    <2>3. CASE usb = "sent" /\ toUsb = <<"ACK">>
      <3>1. Len(toUsb) = 1
        BY <1>0, <2>3, Queues
      <3>2. toUsb' = <<"ACK", "PRESS_BUTTON">>
        BY <1>0, <1>8, <2>3, <3>1, Queues, SizeAssumption DEF AskButton
      <3>3. Ahead'
        BY <2>1, <2>2, <2>3, <3>2 DEF Ahead, At
      <3>. QED
        BY <2>1, <3>3 DEF TurnInv, Phases
    <2>4. CASE usb = "busy" /\ toUsb = <<>>
      <3>1. toUsb' = <<"PRESS_BUTTON">>
        BY <1>0, <1>8, <2>4, Queues, SizeAssumption DEF AskButton
      <3>2. InProgress'
        BY <2>1, <2>2, <2>4, <3>1 DEF InProgress, At
      <3>. QED
        BY <2>1, <3>2 DEF TurnInv, Phases
    <2>. QED
      BY <2>2, <2>3, <2>4
  <1>9. CASE AwaitButton
    <2>1. UNCHANGED <<usb, toUsb, runs, pressed>>
      BY <1>9 DEF AwaitButton, history
    <2>2. usb = "busy" /\ toUsb = <<>> /\ runs = 1 /\ ((toCard = <<"PRESSED">> /\ pressed) \/ toCard = <<"TIMEOUT">>)
      BY <1>9 DEF AwaitButton, TurnInv, Phases, At, Working, Resting, HandedOver, Ahead, InProgress, Stopping
    <2>3. CASE toCard = <<"PRESSED">> /\ pressed
      <3>1. Head(toCard) = "PRESSED" /\ Tail(toCard) = <<>>
        BY <1>0, <2>3, Queues
      <3>2. card' = "touched" /\ toCard' = <<>>
        BY <1>9, <3>1 DEF AwaitButton
      <3>. QED
        BY <2>1, <2>2, <2>3, <3>2 DEF TurnInv, Phases, InProgress, At
    <2>4. CASE toCard = <<"TIMEOUT">>
      <3>1. Head(toCard) = "TIMEOUT" /\ Tail(toCard) = <<>>
        BY <1>0, <2>4, Queues
      <3>2. card' = "return" /\ toCard' = <<>>
        BY <1>9, <3>1 DEF AwaitButton
      <3>. QED
        BY <2>1, <2>2, <3>2 DEF TurnInv, Phases, InProgress, At, Working
    <2>. QED
      BY <2>2, <2>3, <2>4
  <1>10. CASE Handle \/ Return \/ WriteStatus \/ SetSize
    <2>1. UNCHANGED <<usb, toCard, toUsb, runs, pressed>> /\ card \in Working \cup {"touched"} /\ card' \in Working
      BY <1>10 DEF Handle, Return, WriteStatus, SetSize, queues, history, Working
    <2>2. toCard = <<>> /\ runs = 1 /\ ((usb = "sent" /\ toUsb = <<"ACK">>) \/ (usb = "busy" /\ toUsb = <<>>))
      BY <2>1, WhileWorking
    <2>3. Ahead' \/ InProgress'
      BY <2>1, <2>2 DEF Ahead, InProgress, At
    <2>. QED
      BY <2>1, <2>3 DEF TurnInv, Phases, Working
  <1>11. CASE Finish
    <2>1. UNCHANGED <<usb, toCard, runs, pressed>> /\ card' = "idle"
      BY <1>11 DEF Finish, history
    <2>2. toCard = <<>> /\ runs = 1 /\ ((usb = "sent" /\ toUsb = <<"ACK">>) \/ (usb = "busy" /\ toUsb = <<>>))
      BY <1>11, WhileWorking DEF Finish, Working
    <2>3. toUsb' \in {<<"ACK", "EXEC_FINISHED">>, <<"EXEC_FINISHED">>} /\ (usb = "sent" <=> toUsb' = <<"ACK", "EXEC_FINISHED">>)
      <3>1. CASE usb = "sent" /\ toUsb = <<"ACK">>
        BY <1>0, <1>11, <3>1, Queues DEF Finish
      <3>2. CASE usb = "busy" /\ toUsb = <<>>
        <4>1. toUsb' = <<"EXEC_FINISHED">>
          BY <1>0, <1>11, <3>2, Queues DEF Finish
        <4>2. toUsb' # <<"ACK", "EXEC_FINISHED">>
          BY <4>1
        <4>. QED
          BY <3>2, <4>1, <4>2
      <3>. QED
        BY <2>2, <3>1, <3>2
    <2>4. Ahead' \/ InProgress'
      BY <2>1, <2>2, <2>3 DEF Ahead, InProgress, At
    <2>. QED
      BY <2>1, <2>4 DEF TurnInv, Phases
  <1>12. CASE Reports \/ UNCHANGED vars
    <2>1. UNCHANGED <<usb, toCard, toUsb, card, event, runs, pressed>>
      BY <1>12 DEF Reports, FrameAnswered, FrameReported, FrameSilent, FrameRefused, ResetReport, ReadPart,
         ReadEnd, ReadStatus, PressHotp, Touches, queues, thread, history, vars
    <2>. QED
      BY <2>1 DEF TurnInv, Phases, Resting, HandedOver, Ahead, InProgress, Stopping, At
  <1>. QED
    BY <1>1, <1>2, <1>3, <1>4, <1>5, <1>6, <1>7, <1>8, <1>9, <1>10, <1>11, <1>12 DEF Next, Usb, Card

\* A handler goes on only with a press made for its own command, and no command
\* is run twice, whatever the callbacks do.
THEOREM TouchBelongsToCommand == Spec => []TouchIsForThisCommand
  <1>1. Init => TurnInv
    BY DEF Init, TurnInv, Phases, Resting, At
  <1>2. TurnInv => TouchIsForThisCommand
    BY DEF TurnInv, TouchIsForThisCommand
  <1>. QED
    BY <1>1, <1>2, TurnStep, PTL DEF Spec

(***************************************************************************)
(* Answers                                                                 *)
(***************************************************************************)

\* A command is in progress, and no callback touched apdu since it was handed over.
Undisturbed == alone /\ usb \in {"sent", "busy", "button"}

\* The handler has not ended; it has; its outcome is in apdu.sw; the status
\* byte is written; the answer is complete.
Before  == runs = 0 \/ card \in {"run", "await", "touched"}
SizeOf(o) == IF o = "body" THEN Body ELSE 0
Clean   == status = "ok" /\ rlen = 0
Ended   == outcome \in Outcomes /\ status = "ok" /\ rlen = SizeOf(outcome)
InSw    == Ended /\ sw = IF outcome \in {"body", "empty"} THEN "ok" ELSE outcome
Written == outcome \in Outcomes /\ rlen = SizeOf(outcome) /\ sw = Own(outcome).sw /\ status = Own(outcome).status
Sized   == Written /\ finished = Own(outcome).size

AnswerInv ==
    /\ AnswerIsOwn
    /\ Undisturbed =>
        /\ rdata = "ctap"
        /\ Before => Clean
        /\ card = "return" => Ended
        /\ card = "status" => InSw
        /\ card = "size" => Written
        /\ card = "finish" \/ (card = "idle" /\ runs = 1) => Sized

answerVars == <<usb, card, runs, alone, outcome, rdata, rlen, sw, status, finished, answer>>

\* The handler's outcome reaches the answer through apdu.sw, the status byte and
\* the length, in this order, and a callback anywhere ends the claim.
LEMMA AnswerStep == ASSUME TurnInv, AnswerInv, [Next]_vars PROVE AnswerInv'
  <1>. USE DEF AnswerInv, Undisturbed, Before, Clean
  <1>1. CASE Send
    <2>1. card' = "idle"
      BY <1>1 DEF Send, TurnInv, Phases, At, Resting, HandedOver, Ahead, InProgress, Stopping
    <2>. QED
      BY <1>1, <2>1 DEF Send, AnswerIsOwn
  <1>2. CASE Leave
    BY <1>2 DEF Leave, thread, apdu, history, AnswerIsOwn
  <1>3. CASE TakeAck
    <2>1. UNCHANGED <<card, outcome, apdu, status, finished, runs, alone, answer>>
      BY <1>3 DEF TakeAck, thread, history
    <2>2. usb' \in {"sent", "busy", "button"} => usb \in {"sent", "busy", "button"}
      BY <1>3 DEF TakeAck
    <2>. QED
      BY <2>1, <2>2 DEF apdu, AnswerIsOwn, Ended, InSw, Written, Sized
  <1>4. CASE TakeEvent
    <2>1. CASE Head(toUsb) = "PRESS_BUTTON"
      BY <1>4, <2>1 DEF TakeEvent, thread, apdu, AnswerIsOwn, Ended, InSw, Written, Sized
    <2>2. CASE Head(toUsb) = "EXEC_FINISHED"
      <3>1. card = "idle" /\ runs = 1
        BY <1>4, <2>2, TakenEvent
      <3>2. alone => Sized
        BY <1>4, <3>1 DEF TakeEvent
      <3>3. usb' = "idle" /\ answer' = [outcome |-> outcome, sw |-> sw, status |-> status,
                                        size |-> finished, alone |-> alone]
        BY <1>4, <2>2 DEF TakeEvent
      <3>4. AnswerIsOwn'
        BY <3>2, <3>3 DEF AnswerIsOwn, Own, Sized, Written
      <3>. QED
        BY <3>3, <3>4
    <2>. QED
      BY <1>4, <2>1, <2>2 DEF TakeEvent
  <1>5. ASSUME NEW reply \in {"PRESSED", "TIMEOUT"}, Button(reply) PROVE AnswerInv'
    BY <1>5 DEF Button, thread, apdu, AnswerIsOwn, Ended, InSw, Written, Sized
  <1>6. CASE TakeCommand
    <2>1. runs = 0 \/ usb = "leaving"
      BY <1>6 DEF TakeCommand, TurnInv, Phases, At, Resting, HandedOver, Ahead, InProgress, Stopping
    <2>. QED
      BY <1>6, <2>1 DEF TakeCommand, apdu, history, AnswerIsOwn
  <1>7. CASE Acknowledge
    <2>1. runs = 0 \/ usb = "leaving"
      BY <1>7 DEF Acknowledge, TurnInv, Phases, At, Working, Resting, HandedOver, Ahead, InProgress, Stopping
    <2>. QED
      BY <1>7, <2>1 DEF Acknowledge, apdu, AnswerIsOwn
  <1>8. CASE AskButton
    BY <1>8 DEF AskButton, apdu, history, AnswerIsOwn
  <1>9. CASE AwaitButton
    <2>1. CASE card' = "return"
      BY <1>9, <2>1 DEF AwaitButton, apdu, history, AnswerIsOwn, Ended, Outcomes, SizeOf
    <2>2. CASE card' # "return"
      BY <1>9, <2>2 DEF AwaitButton, apdu, history, AnswerIsOwn
    <2>. QED
      BY <2>1, <2>2
  <1>10. CASE Handle \/ Return \/ WriteStatus \/ SetSize
    <2>1. runs = 1 /\ runs' = 1
      BY <1>10, WhileWorking DEF Handle, Return, WriteStatus, SetSize, Working, history
    <2>2. CASE Handle
      BY <2>1, <2>2 DEF Handle, history, AnswerIsOwn, Ended, SizeOf
    <2>3. CASE Return
      BY <2>1, <2>3 DEF Return, history, AnswerIsOwn, Ended, InSw
    <2>4. CASE WriteStatus
      BY <2>1, <2>4 DEF WriteStatus, history, AnswerIsOwn, Ended, InSw, Written, Own, Outcomes
    <2>5. CASE SetSize
      BY <2>1, <2>5, SizeAssumption DEF SetSize, apdu, history, AnswerIsOwn, Written, Sized, Own, SizeOf
    <2>. QED
      BY <1>10, <2>2, <2>3, <2>4, <2>5
  <1>11. CASE Finish
    <2>1. runs = 1
      BY <1>11, WhileWorking DEF Finish, Working
    <2>. QED
      BY <1>11, <2>1 DEF Finish, apdu, history, AnswerIsOwn, Written, Sized
  <1>12. ASSUME NEW where, Touches(where) PROVE AnswerInv'
    BY <1>12 DEF Touches, AnswerIsOwn
  <1>13. CASE ResetReport \/ ReadPart \/ ReadEnd \/ UNCHANGED vars
    <2>1. UNCHANGED answerVars
      BY <1>13 DEF ResetReport, ReadPart, ReadEnd, vars, answerVars, thread, apdu, history
    <2>. QED
      BY <2>1 DEF answerVars, AnswerIsOwn, Ended, InSw, Written, Sized
  <1>14. CASE PressHotp
    BY <1>14 DEF PressHotp, AnswerIsOwn
  <1>. QED
    BY <1>1, <1>2, <1>3, <1>4, <1>5, <1>6, <1>7, <1>8, <1>9, <1>10, <1>11, <1>12, <1>13, <1>14
       DEF Next, Usb, Card, Reports, FrameAnswered, FrameReported, FrameSilent, FrameRefused, ReadStatus

\* What goes out is the outcome of the command that was sent, error or success
\* and its length, unless a callback touched apdu meanwhile.
THEOREM AnswersBelongToCommand == Spec => []AnswerIsOwn
  <1>1. Init => TurnInv /\ AnswerInv
    BY DEF Init, TurnInv, Phases, Resting, At, AnswerInv, AnswerIsOwn, Undisturbed
  <1>2. TurnInv /\ AnswerInv /\ [Next]_vars => TurnInv' /\ AnswerInv'
    BY TurnStep, AnswerStep
  <1>3. AnswerInv => AnswerIsOwn
    BY DEF AnswerInv
  <1>. QED
    BY <1>1, <1>2, <1>3, PTL DEF Spec

(***************************************************************************)
(* Frames                                                                  *)
(***************************************************************************)

\* The parts still to be read are as many as the bytes left need, and the host
\* has the parts of this frame up to curr, as far as it was not written over.
FrameInv ==
    /\ left \in Nat /\ curr \in Nat /\ exp \in Nat /\ rlen \in Nat /\ over \in Nat
    /\ exp = 0 => left = 0 /\ curr = 0
    /\ exp > 0 => curr <= exp /\ left <= (exp - curr) * PartLen /\ (exp - curr - 1) * PartLen < left
    /\ host \in [next : Nat, mixed : BOOLEAN]
    /\ curr > 0 => host.next = curr /\ (host.mixed => over > 0)

\* A frame is cut into full parts and a last one that is not empty.
LEMMA PartsCover ==
    ASSUME NEW n \in Nat, n > 0
    PROVE  Parts(n) \in Nat /\ Parts(n) > 0 /\ n <= Parts(n) * PartLen /\ (Parts(n) - 1) * PartLen < n
  <1>. DEFINE p == PartLen
              q == (n + p - 1) \div p
  <1>1. p \in Nat /\ p > 0 /\ n + p - 1 \in Nat
    BY SizeAssumption
  <1>2. q \in Int /\ q * p <= n + p - 1 /\ n + p - 1 < q * p + p
    BY <1>1
  <1>. HIDE DEF p, q
  <1>3. q > 0
    BY <1>1, <1>2
  <1>4. (q - 1) * p = q * p - p
    BY <1>1, <1>2
  <1>5. q \in Nat /\ n <= q * p /\ (q - 1) * p < n
    BY <1>1, <1>2, <1>3, <1>4
  <1>. QED
    BY <1>3, <1>5 DEF Parts, p, q

\* Reading a part leaves what the parts after it need.
LEMMA PartRead ==
    ASSUME NEW l \in Nat, NEW d \in Nat, l > 0, l <= d * PartLen, (d - 1) * PartLen < l
    PROVE  LET m == l - (IF l < PartLen THEN l ELSE PartLen)
           IN  d > 0 /\ m \in Nat /\ m <= (d - 1) * PartLen /\ (d - 2) * PartLen < m
  <1>. DEFINE p == PartLen
  <1>1. p \in Nat /\ p > 0
    BY SizeAssumption
  <1>. HIDE DEF p
  <1>2. d > 0 /\ (d - 1) * p = d * p - p /\ (d - 2) * p = d * p - 2 * p
    BY <1>1 DEF p
  <1>3. d = 1 \/ d * p >= 2 * p
    BY <1>1, <1>2
  <1>4. d = 1 => d * p = p
    BY <1>1
  <1>. QED
    BY <1>1, <1>2, <1>3, <1>4 DEF p

\* Writing over the frame leaves what is left to be read.
LEMMA OverStep ==
    ASSUME FrameInv, UNCHANGED sending, rlen' \in Nat,
           UNCHANGED over \/ \E where \in {"ctap", "report", "frame"}, n \in Nat : n > 0 /\ WriteAt(where, n)
    PROVE  FrameInv'
  <1>1. over' \in Nat /\ (over > 0 => over' > 0)
    <2>1. CASE UNCHANGED over
      BY <2>1 DEF FrameInv
    <2>2. CASE ~UNCHANGED over
      <3>1. PICK n \in Nat : n > 0 /\ over' \in {over, Parts(n)}
        BY <2>2 DEF WriteAt
      <3>2. Parts(n) \in Nat /\ Parts(n) > 0
        BY <3>1, PartsCover
      <3>. QED
        BY <3>1, <3>2 DEF FrameInv
    <2>. QED
      BY <2>1, <2>2
  <1>2. left' = left /\ curr' = curr /\ exp' = exp /\ host' = host
    BY DEF sending
  <1>. QED
    BY <1>1, <1>2 DEF FrameInv

\* A new frame, a reset report and each part read keep it so.
LEMMA FrameStep == ASSUME FrameInv, [Next]_vars PROVE FrameInv'
  <1>1. CASE FrameAnswered \/ FrameSilent \/ FrameReported \/ FrameRefused \/ ReadStatus
    <2>1. rlen' \in Nat
      BY <1>1, SizeAssumption DEF FrameAnswered, FrameSilent, FrameReported, FrameRefused, ReadStatus, FrameInv
    <2>2. ASSUME NEW n \in Nat, SendFrame(n) PROVE host' \in [next : Nat, mixed : BOOLEAN]
      <3>1. \A b \in BOOLEAN : [host EXCEPT !.mixed = b] \in [next : Nat, mixed : BOOLEAN]
        BY DEF FrameInv
      <3>2. (host.next > 0) \in BOOLEAN
        OBVIOUS
      <3>. QED
        BY <2>2, <3>1, <3>2, Zenon DEF SendFrame
    <2>3. ASSUME NEW n \in Nat, n > 0, SendFrame(n) PROVE FrameInv'
      <3>1. n + CrcLen \in Nat /\ n + CrcLen > 0
        BY <2>3, SizeAssumption
      <3>2. left' = n + CrcLen /\ exp' = Parts(n + CrcLen) /\ curr' = 0
        BY <2>3 DEF SendFrame
      <3>. QED
        BY <2>1, <2>2, <2>3, <3>1, <3>2, PartsCover DEF FrameInv, SendFrame
    <2>4. CASE UNCHANGED keyboard
      BY <2>1, <2>4, OverStep DEF keyboard
    <2>5. CASE FrameReported
      <3>1. PartLen \in Nat /\ PartLen > 0
        BY SizeAssumption
      <3>2. UNCHANGED sending /\ WriteAt("frame", PartLen)
        BY <2>5 DEF FrameReported
      <3>. QED
        BY <2>1, <3>1, <3>2, OverStep
    <2>. QED
      BY <1>1, <2>3, <2>4, <2>5, SizeAssumption DEF FrameAnswered, FrameSilent, FrameRefused, ReadStatus, FrameInv
  <1>2. CASE ReadPart
    <2>1. exp > 0 /\ left > 0 /\ exp - curr \in Nat
      BY <1>2 DEF ReadPart, FrameInv
    <2>2. /\ left' = left - (IF left < PartLen THEN left ELSE PartLen)
          /\ curr' = curr + 1 /\ exp' = exp /\ rlen' = rlen /\ over' = over
      BY <1>2 DEF ReadPart, apdu
    <2>3. /\ exp - curr > 0 /\ left' \in Nat /\ left' <= (exp - curr - 1) * PartLen
          /\ (exp - curr - 2) * PartLen < left'
      BY <2>1, <2>2, PartRead DEF FrameInv
    <2>4. host' \in [next : Nat, mixed : BOOLEAN] /\ host'.next = curr' /\ (host'.mixed => over' > 0)
      <3>0. ASSUME NEW n \in Nat, NEW b \in BOOLEAN, host' = [next |-> n, mixed |-> b]
            PROVE  host' \in [next : Nat, mixed : BOOLEAN] /\ host'.next = n /\ host'.mixed = b
        BY <3>0
      <3>1. CASE curr = 0
        <4>1. host' = [next |-> 1, mixed |-> over > 0] /\ curr' = 1 /\ over' = over
          BY <1>2, <2>2, <3>1 DEF ReadPart
        <4>2. (over > 0) \in BOOLEAN /\ 1 \in Nat
          OBVIOUS
        <4>3. host' \in [next : Nat, mixed : BOOLEAN] /\ host'.next = 1 /\ host'.mixed = (over > 0)
          BY <3>0, <4>1, <4>2, Zenon
        <4>. QED
          BY <4>1, <4>3
      <3>2. CASE curr > 0
        <4>1. host' = [next |-> curr + 1, mixed |-> host.mixed \/ curr < over] /\ curr' = curr + 1 /\ over' = over
          BY <1>2, <2>2, <3>2 DEF ReadPart, FrameInv
        <4>2. (host.mixed \/ curr < over) \in BOOLEAN /\ curr + 1 \in Nat
          BY DEF FrameInv
        <4>3. /\ host' \in [next : Nat, mixed : BOOLEAN] /\ host'.next = curr + 1
              /\ host'.mixed = (host.mixed \/ curr < over)
          BY <3>0, <4>1, <4>2, Zenon
        <4>4. host.mixed \/ curr < over => over > 0
          BY <3>2 DEF FrameInv
        <4>. QED
          BY <4>1, <4>3, <4>4
      <3>. QED
        BY <3>1, <3>2 DEF FrameInv
    <2>5. exp' - curr' = exp - curr - 1 /\ exp' - curr' - 1 = exp - curr - 2
      BY <2>2 DEF FrameInv
    <2>. QED
      BY <2>1, <2>2, <2>3, <2>4, <2>5 DEF FrameInv
  <1>3. CASE ResetReport \/ ReadEnd
    <2>1. left' = 0 /\ curr' = 0 /\ exp' = 0 /\ over' = 0 /\ rlen' = rlen /\ host' = NotReading
      BY <1>3 DEF ResetReport, ReadEnd, AtEnd, apdu
    <2>2. NotReading \in [next : Nat, mixed : BOOLEAN]
      BY DEF NotReading
    <2>. QED
      BY <2>1, <2>2 DEF FrameInv
  <1>4. CASE Send \/ Leave \/ Usb \/ Card \/ UNCHANGED vars
    <2>1. rlen' \in {rlen, 0, Body}
      BY <1>4 DEF Send, Leave, Usb, TakeAck, TakeEvent, Button, Card, TakeCommand, Acknowledge, AskButton,
         AwaitButton, Handle, Return, WriteStatus, SetSize, Finish, vars, apdu
    <2>2. rlen' \in Nat
      BY <2>1, SizeAssumption DEF FrameInv
    <2>3. CASE UNCHANGED keyboard
      BY <2>2, <2>3, OverStep DEF keyboard
    <2>4. CASE Handle \/ WriteStatus
      <3>1. UNCHANGED sending
        BY <2>4 DEF Handle, WriteStatus
      <3>2. UNCHANGED over \/ WriteAt(rdata, Body) \/ WriteAt(rdata, 1)
        BY <2>4 DEF Handle, WriteStatus
      <3>3. UNCHANGED over \/ \E n \in Nat : n > 0 /\ WriteAt("frame", n)
        BY <3>2, SizeAssumption DEF WriteAt
      <3>. QED
        BY <2>2, <3>1, <3>3, OverStep
    <2>5. (UNCHANGED keyboard) \/ Handle \/ WriteStatus
      BY <1>4 DEF Send, Leave, Usb, TakeAck, TakeEvent, Button, Card, TakeCommand, Acknowledge, AskButton,
         AwaitButton, Return, SetSize, Finish, vars
    <2>. QED
      BY <2>3, <2>4, <2>5
  <1>5. CASE PressHotp
    <2>1. UNCHANGED sending /\ rlen' \in Nat /\ WriteAt(rdata, CodeLen) /\ CodeLen \in Nat /\ CodeLen > 0
      BY <1>5, SizeAssumption DEF PressHotp
    <2>2. UNCHANGED over \/ WriteAt("frame", CodeLen)
      BY <2>1 DEF WriteAt
    <2>. QED
      BY <2>1, <2>2, OverStep
  <1>. QED
    BY <1>1, <1>2, <1>3, <1>4, <1>5 DEF Next, Reports

\* For any lengths: a frame whose bytes are all read was read by the host in
\* order, and unmixed unless something else was written over it.
THEOREM FramesAreReadWhole == Spec => []FrameReadWhole
  <1>1. Init => FrameInv
    BY DEF Init, FrameInv, NotReading
  <1>2. FrameInv => FrameReadWhole
    <2>. SUFFICES ASSUME FrameInv, left = 0, exp > 0 PROVE AtEnd /\ host.next = exp /\ (host.mixed => over > 0)
      BY DEF FrameReadWhole
    <2>1. curr \in Nat /\ exp \in Nat /\ curr <= exp /\ (exp - curr - 1) * PartLen < 0
      BY DEF FrameInv
    <2>2. \A d \in Nat : ~(d * PartLen < 0)
      BY SizeAssumption
    <2>3. exp - curr - 1 \notin Nat
      BY <2>1, <2>2, Zenon
    <2>4. curr = exp
      BY <2>1, <2>3
    <2>. QED
      BY <2>4 DEF AtEnd, FrameInv
  <1>. QED
    BY <1>1, <1>2, FrameStep, PTL DEF Spec
==============================================================================
