----------------------------- MODULE CborThread ------------------------------
(***************************************************************************)
(* How a CTAP command is run (cbor.c: cbor_process, cbor_thread), how a    *)
(* handler waits for the button (fido.c), and how the keyboard interface   *)
(* (otp.c: the report callbacks) comes in between.                         *)
(*                                                                         *)
(* The thread runs on the card core; the USB core hands it commands, asks  *)
(* the user and sends its answers, and calls the report callbacks.  They   *)
(* speak over two queues and share apdu, whose rdata, rlen and sw are      *)
(* res_APDU, res_APDU_size and the status.  The USB core's own part is the *)
(* SDK's: it sends one event at a time and waits for its acknowledgement.  *)
(* A press of the button that no command waits for types an OTP code on    *)
(* the USB core; an HOTP code is calculated where rdata points.            *)
(* A handler is its outcome: an answer with a body or without, an error    *)
(* that CTAP2 sends in the status byte, or one below                       *)
(* CTAP1_ERR_INVALID_CHANNEL.                                              *)
(***************************************************************************)
EXTENDS Naturals, Sequences

CONSTANTS
    Body,       \* length of an answer with a body
    FrameSizes, \* lengths of the answers of cmd_otp()
    PartLen,    \* 7, bytes of a frame in a report
    CrcLen,     \* 2
    CodeLen,    \* 6, bytes that calculate_oath() leaves in res_APDU
    QueueLen,   \* capacity of the queues
    None

ASSUME SizeAssumption ==
    /\ Body \in Nat \ {0} /\ FrameSizes \subseteq Nat \ {0}
    /\ PartLen \in Nat \ {0} /\ CrcLen \in Nat /\ CodeLen \in Nat \ {0}
    /\ QueueLen \in Nat /\ QueueLen > 1

Outcomes == {"body", "empty", "error", "low"}

VARIABLES
    usb,      \* USB core: "idle", "sent" or "leaving" (waiting for the
              \* acknowledgement), "busy" (waiting for the end), "button"
    toCard,   \* usb_to_card_q
    toUsb,    \* card_to_usb_q
    card,     \* where the thread stands
    event,    \* m, its last event
    outcome,  \* what the handler returns
    rdata,    \* res_APDU: in "ctap" (ctap_resp), a "report" or a "frame"
    rlen,     \* res_APDU_size
    sw,       \* apdu.sw: "ok" (0), "error", "low", or "otp" set by a callback
    status,   \* the status byte, ctap_resp->init.data[0]
    finished, \* finished_data_size
    left,     \* *get_send_buffer_size(ITF_KEYBOARD)
    curr,     \* otp_curr_seq
    exp,      \* otp_exp_seq
    runs,     \* history: times the command was run
    pressed,  \* history: the button was pressed for the command
    alone,    \* history: no callback touched apdu since cbor_process()
    answer,   \* history: the last answer sent, with its command's outcome
    over,     \* history: leading parts of the frame in otp_frame_tx that were
              \* written over since otp_send_frame() took its CRC, when one of
              \* them was still to be read
    host      \* history: parts of a frame the host has collected, and whether
              \* one of them is not the frame's: of another or written over

queues   == <<toCard, toUsb>>
apdu     == <<rdata, rlen, sw>>
sending  == <<left, curr, exp, host>>
keyboard == <<sending, over>>
thread   == <<card, event, outcome>>
history  == <<runs, pressed, alone, answer>>
vars     == <<usb, queues, thread, apdu, status, finished, keyboard, history>>

Events == {"COMMAND", "EXIT", "PRESSED", "TIMEOUT", "ACK", "PRESS_BUTTON", "EXEC_FINISHED"}

TypeOK ==
    /\ usb \in {"idle", "sent", "leaving", "busy", "button"}
    /\ toCard \in Seq(Events) /\ Len(toCard) <= QueueLen
    /\ toUsb \in Seq(Events) /\ Len(toUsb) <= QueueLen
    /\ card \in {"off", "idle", "ack", "run", "await", "touched", "return", "status", "size", "finish"}
    /\ event \in Events \cup {None}
    /\ outcome \in Outcomes \cup {None}
    /\ rdata \in {"ctap", "report", "frame"}
    /\ rlen \in Nat /\ finished \in Nat
    /\ sw \in {"ok", "error", "low", "otp"}
    /\ status \in {"ok", "error"}
    /\ left \in Nat /\ curr \in Nat /\ exp \in Nat /\ over \in Nat
    /\ runs \in Nat /\ pressed \in BOOLEAN /\ alone \in BOOLEAN
    /\ host \in [next : Nat, mixed : BOOLEAN]

Parts(len) == (len + PartLen - 1) \div PartLen

\* len bytes are written at res_APDU: over a frame not yet read, if that is where
\* it points.
WriteAt(where, len) ==
    over' = IF where = "frame" /\ curr < exp /\ curr < Parts(len) /\ over < Parts(len)
            THEN Parts(len) ELSE over

(***************************************************************************)
(* The USB core: commands                                                  *)
(***************************************************************************)

\* cbor_process(), then the thread is started if need be and told.
Send ==
    /\ usb = "idle"
    /\ status' = "ok"
    /\ rdata' = "ctap"
    /\ rlen' = 0
    /\ toCard' = Append(toCard, "COMMAND")
    /\ usb' = "sent"
    /\ card' = IF card = "off" THEN "idle" ELSE card
    /\ runs' = 0 /\ pressed' = FALSE /\ alone' = TRUE
    /\ UNCHANGED <<toUsb, event, outcome, sw, finished, keyboard, answer>>

\* Another application takes the card.
Leave ==
    /\ usb = "idle" /\ card # "off"
    /\ toCard' = Append(toCard, "EXIT")
    /\ usb' = "leaving"
    /\ UNCHANGED <<toUsb, thread, apdu, status, finished, keyboard, history>>

TakeAck ==
    /\ usb \in {"sent", "leaving"}
    /\ toUsb # <<>>
    /\ usb' = IF Head(toUsb) # "ACK" THEN usb ELSE IF usb = "sent" THEN "busy" ELSE "idle"
    /\ toUsb' = Tail(toUsb)
    /\ UNCHANGED <<toCard, thread, apdu, status, finished, keyboard, history>>

\* A request for the button, or the end: the answer is the error in apdu.sw, or
\* the first finished_data_size bytes of ctap_resp.
TakeEvent ==
    /\ usb = "busy"
    /\ toUsb # <<>>
    /\ toUsb' = Tail(toUsb)
    /\ \/ /\ Head(toUsb) = "PRESS_BUTTON"
          /\ usb' = "button"
          /\ UNCHANGED answer
       \/ /\ Head(toUsb) = "EXEC_FINISHED"
          /\ usb' = "idle"
          /\ answer' = [outcome |-> outcome, sw |-> sw, status |-> status,
                        size |-> finished, alone |-> alone]
    /\ UNCHANGED <<toCard, thread, apdu, status, finished, keyboard, runs, pressed, alone>>

\* The user presses, cancels or lets the time pass.
Button(reply) ==
    /\ usb = "button"
    /\ toCard' = Append(toCard, reply)
    /\ usb' = "busy"
    /\ pressed' = (reply = "PRESSED")
    /\ UNCHANGED <<toUsb, thread, apdu, status, finished, keyboard, runs, alone, answer>>

(***************************************************************************)
(* The card core                                                           *)
(***************************************************************************)

TakeCommand ==
    /\ card = "idle"
    /\ toCard # <<>>
    /\ event' = Head(toCard)
    /\ toCard' = Tail(toCard)
    /\ card' = "ack"
    /\ UNCHANGED <<usb, toUsb, outcome, apdu, status, finished, keyboard, history>>

\* Whatever the event is, but for EV_EXIT, the last command is run.
Acknowledge ==
    /\ card = "ack"
    /\ Len(toUsb) < QueueLen
    /\ toUsb' = Append(toUsb, "ACK")
    /\ IF event = "EXIT" THEN card' = "off" /\ UNCHANGED runs
                         ELSE card' = "run" /\ runs' = runs + 1
    /\ UNCHANGED <<usb, toCard, event, outcome, apdu, status, finished, keyboard, pressed, alone, answer>>

\* wait_button_pressed(): nothing is sent when the queue is full.
AskButton ==
    /\ card = "run"
    /\ toUsb' = IF Len(toUsb) < QueueLen THEN Append(toUsb, "PRESS_BUTTON") ELSE toUsb
    /\ card' = "await"
    /\ UNCHANGED <<usb, toCard, event, outcome, apdu, status, finished, keyboard, history>>

\* mutant: the answer is looked for once.
AwaitButtonOnce ==
    /\ card = "await"
    /\ \/ /\ toCard # <<>>
          /\ toCard' = Tail(toCard)
          /\ IF Head(toCard) = "PRESSED" THEN card' = "touched" /\ UNCHANGED outcome
                                         ELSE card' = "return" /\ outcome' = "error"
       \/ /\ toCard = <<>>
          /\ card' = "touched"
          /\ UNCHANGED <<toCard, outcome>>
    /\ UNCHANGED <<usb, toUsb, event, apdu, status, finished, keyboard, history>>

\* mutant: the loop ends with a press only.
AwaitPress ==
    /\ card = "await"
    /\ toCard # <<>>
    /\ toCard' = Tail(toCard)
    /\ card' = IF Head(toCard) = "PRESSED" THEN "touched" ELSE card
    /\ UNCHANGED <<usb, toUsb, event, outcome, apdu, status, finished, keyboard, history>>

\* Any other event is dropped.
AwaitButton ==
    /\ card = "await"
    /\ toCard # <<>>
    /\ toCard' = Tail(toCard)
    /\ CASE Head(toCard) = "PRESSED" -> card' = "touched" /\ UNCHANGED outcome
         [] Head(toCard) = "TIMEOUT" -> card' = "return" /\ outcome' = "error"
         [] OTHER -> UNCHANGED <<card, outcome>>
    /\ UNCHANGED <<usb, toUsb, event, apdu, status, finished, keyboard, history>>

\* The handler ends.  With a body it sets the length, as its last step.  CTAP2
\* answers are written to ctap_resp, the configuration read to res_APDU.
Handle ==
    /\ card \in {"run", "touched"}
    /\ outcome' \in Outcomes
    /\ rlen' = IF outcome' = "body" THEN Body ELSE rlen
    /\ \/ UNCHANGED over
       \/ outcome' = "body" /\ WriteAt(rdata, Body)
    /\ card' = "return"
    /\ UNCHANGED <<usb, queues, event, rdata, sw, status, finished, sending, history>>

Return ==
    /\ card = "return"
    /\ sw' = IF outcome \in {"body", "empty"} THEN "ok" ELSE outcome
    /\ card' = "status"
    /\ UNCHANGED <<usb, queues, event, outcome, rdata, rlen, status, finished, keyboard, history>>

\* mutant: every error is left in apdu.sw.
WriteNoStatus ==
    /\ card = "status"
    /\ card' = "size"
    /\ UNCHANGED <<usb, queues, event, outcome, apdu, status, finished, keyboard, history>>

\* The byte before res_APDU is the status byte while res_APDU is in ctap_resp; a
\* low error goes to its first byte.
WriteStatus ==
    /\ card = "status"
    /\ status' = IF sw = "error" /\ rdata = "ctap" THEN "error" ELSE status
    /\ IF sw = "low" THEN WriteAt(rdata, 1) ELSE UNCHANGED over
    /\ sw' = IF sw = "low" THEN sw ELSE "ok"
    /\ card' = "size"
    /\ UNCHANGED <<usb, queues, event, outcome, rdata, rlen, finished, sending, history>>

SetSize ==
    /\ card = "size"
    /\ finished' = rlen + 1
    /\ card' = "finish"
    /\ UNCHANGED <<usb, queues, event, outcome, apdu, status, keyboard, history>>

Finish ==
    /\ card = "finish"
    /\ Len(toUsb) < QueueLen
    /\ toUsb' = Append(toUsb, "EXEC_FINISHED")
    /\ card' = "idle"
    /\ UNCHANGED <<usb, toCard, event, outcome, apdu, status, finished, keyboard, history>>

(***************************************************************************)
(* The keyboard interface, on the USB core                                 *)
(***************************************************************************)

\* Its callbacks run wherever the USB core does not block for a queue.
Serving == usb \in {"idle", "busy", "button"}

NotReading == [next |-> 0, mixed |-> FALSE]

SendFrameGoesOn(len) == \* mutant
    /\ left' = len + CrcLen
    /\ exp' = Parts(len + CrcLen)
    /\ over' = 0
    /\ UNCHANGED curr
    /\ host' = [host EXCEPT !.mixed = host.next > 0]

\* otp_send_frame()
SendFrame(len) ==
    /\ left' = len + CrcLen
    /\ exp' = Parts(len + CrcLen)
    /\ curr' = 0
    /\ over' = 0
    /\ host' = [host EXCEPT !.mixed = host.next > 0]

Touches(where) ==
    /\ rdata' = where
    /\ sw' = "otp"
    /\ alone' = FALSE
    /\ UNCHANGED <<usb, queues, thread, status, finished, runs, pressed, answer>>

\* The last part of a frame came, its CRC is right, and cmd_otp() answers it.
FrameAnswered ==
    /\ Serving
    /\ \E n \in FrameSizes : rlen' = n /\ SendFrame(n)
    /\ Touches("frame")

\* A configuration or a deletion ends in otp_status(), which writes to bytes 1 to 6
\* of otp_frame_tx: no frame goes back, but one may be there still to be read.
FrameReported ==
    /\ Serving
    /\ rlen' = 0
    /\ WriteAt("frame", PartLen)
    /\ UNCHANGED sending
    /\ Touches("frame")

\* An update, a swap, an empty slot: the length is the one left behind.
FrameSilent ==
    /\ Serving
    /\ IF rlen > 0 THEN SendFrame(rlen) ELSE UNCHANGED keyboard
    /\ UNCHANGED rlen
    /\ Touches("frame")

FrameRefused ==
    /\ Serving
    /\ UNCHANGED <<rlen, keyboard>>
    /\ Touches("frame")

ResetReport ==
    /\ Serving
    /\ left' = 0 /\ curr' = 0 /\ exp' = 0 /\ over' = 0
    /\ host' = NotReading
    /\ UNCHANGED <<usb, queues, thread, apdu, status, finished, history>>

\* A host starts a frame with the part numbered 0 and takes the rest in order.
ReadPart ==
    /\ Serving
    /\ left > 0
    /\ left' = left - (IF left < PartLen THEN left ELSE PartLen)
    /\ curr' = curr + 1
    /\ host' = IF curr = 0 THEN [next |-> 1, mixed |-> over > 0]
               ELSE IF curr = host.next THEN [next |-> curr + 1, mixed |-> host.mixed \/ curr < over]
               ELSE NotReading
    /\ UNCHANGED <<usb, queues, thread, apdu, status, finished, exp, over, history>>

AtEnd == left = 0 /\ curr = exp /\ exp > 0

ReadEnd ==
    /\ Serving
    /\ AtEnd
    /\ curr' = 0 /\ exp' = 0 /\ over' = 0
    /\ host' = NotReading
    /\ UNCHANGED <<usb, queues, thread, apdu, status, finished, left, history>>

\* Nothing to send: otp_status() writes into the report.
ReadStatus ==
    /\ Serving
    /\ left = 0 /\ ~AtEnd
    /\ rlen' = 0
    /\ UNCHANGED keyboard
    /\ Touches("report")

\* otp_button_pressed() with an HOTP in the slot, called while no command is under
\* way; the other codes leave apdu alone.
PressHotp ==
    /\ usb = "idle"
    /\ rlen' = CodeLen
    /\ WriteAt(rdata, CodeLen)
    /\ alone' = FALSE
    /\ UNCHANGED <<usb, queues, thread, rdata, sw, status, finished, sending, runs, pressed, answer>>

(***************************************************************************)
(* Specification                                                           *)
(***************************************************************************)

Init ==
    /\ usb = "idle" /\ toCard = <<>> /\ toUsb = <<>>
    /\ card = "off" /\ event = None /\ outcome = None
    /\ rdata = "ctap" /\ rlen = 0 /\ sw = "ok" /\ status = "ok" /\ finished = 0
    /\ left = 0 /\ curr = 0 /\ exp = 0 /\ over = 0
    /\ runs = 0 /\ pressed = FALSE /\ alone = TRUE /\ answer = None
    /\ host = NotReading

Card ==
    \/ TakeCommand \/ Acknowledge \/ AskButton \/ AwaitButton \/ Handle
    \/ Return \/ WriteStatus \/ SetSize \/ Finish

Usb == TakeAck \/ TakeEvent \/ \E reply \in {"PRESSED", "TIMEOUT"} : Button(reply)

Reports ==
    \/ FrameAnswered \/ FrameReported \/ FrameSilent \/ FrameRefused
    \/ ResetReport \/ ReadPart \/ ReadEnd \/ ReadStatus \/ PressHotp

Next == Send \/ Leave \/ Usb \/ Card \/ Reports

\* Each core goes on, whatever the other does, and the wait for the button ends.
Spec == Init /\ [][Next]_vars /\ WF_vars(Card) /\ WF_vars(Usb)

(***************************************************************************)
(* Properties                                                              *)
(***************************************************************************)

Own(o) ==
    [sw |-> IF o = "low" THEN "low" ELSE "ok",
     status |-> IF o = "error" THEN "error" ELSE "ok",
     size |-> IF o = "body" THEN Body + 1 ELSE 1]

\* What the USB core sends is what the handler of that command returned, error
\* or success and its length, unless the keyboard interface reported its status or
\* ran a frame meanwhile.
AnswerIsOwn ==
    answer # None /\ answer.alone =>
        [sw |-> answer.sw, status |-> answer.status, size |-> answer.size] = Own(answer.outcome)

\* A handler goes on after its wait only if the button was pressed for this very
\* command, and no event left over from a wait makes a command run twice.
TouchIsForThisCommand == (card = "touched" => pressed) /\ runs <= 1

\* When the bytes of a frame are all read its end is reported next, and the host
\* has collected all its parts, in order and never mixed with those of another
\* frame, whatever frames and resets came while it was reading; a part is not the
\* frame's only if a configuration's status, an HOTP code or the card core's
\* answer was written over otp_frame_tx since.
FrameReadWhole ==
    left = 0 /\ exp > 0 => AtEnd /\ host.next = exp /\ (host.mixed => over > 0)

\* Every command handed to the thread is answered: neither core waits for the
\* other for ever, whether the user presses, cancels or does nothing.
EveryCommandAnswered == (usb # "idle") ~> (usb = "idle")
==============================================================================
