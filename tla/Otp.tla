-------------------------------- MODULE Otp --------------------------------
(***************************************************************************)
(* The OTP application (otp.c): two slots, the commands that configure,    *)
(* update and swap them, and the counters from which a button press makes  *)
(* its code.                                                               *)
(*                                                                         *)
(* One action is one command, one button press, or a power cycle; a        *)
(* refused command is a stuttering step.  A code is the pair of counters   *)
(* it is made from: usage and session counter for a Yubikey OTP, moving    *)
(* factor and 0 for an HOTP.  "other" are the static and the challenge-    *)
(* response modes, which keep no counter.  The update writes a slot        *)
(* without its last eight bytes, so what is read there afterwards is       *)
(* whatever follows in the flash: the count Lost is any number.            *)
(* config_seq, which is only reported, is left out.                        *)
(*                                                                         *)
(* A power cycle comes here after the writes have landed; OtpStorage has   *)
(* the flash lag behind and the power cut before they have, and the other  *)
(* properties.                                                             *)
(***************************************************************************)
EXTENDS Naturals

CONSTANTS
    AccCodes,    \* access codes
    Seeds,       \* first moving factors of an HOTP (the last two bytes of uid)
    CtrMax,      \* 0x7fff, where the usage counter stops
    CtrMod,      \* 2^16, the values of a counter; bound of the model on moving factors
    SessMod,     \* 2^8, the values of a session counter
    Empty,       \* a slot without data
    Lost,        \* a count that is not in the file
    None,        \* no code
    MaxConfigs   \* bound of the model: configurations ever made

ASSUME CounterAssumption ==
    /\ CtrMax \in Nat /\ CtrMax > 1 /\ CtrMod \in Nat /\ CtrMod > CtrMax + 1
    /\ SessMod \in Nat \ {0} /\ SessMod <= CtrMod
    /\ Seeds \subseteq 0 .. CtrMod - 2
    /\ MaxConfigs \in Nat

Slots == {1, 2}
Modes == {"otp", "hotp", "other"}
Counters == 0 .. CtrMod - 1
ASSUME MarkAssumption == Lost \notin Counters

VARIABLES
    slot,      \* EF_OTP_SLOT1, EF_OTP_SLOT2
    session,   \* session_counter
    scanned,   \* init_otp() or otp_status() ran since power-up
    made,      \* history: configurations ever made
    cmd,       \* history: the last command that wrote, and the access code it came with
    out        \* history: the last code typed, after which one

vars == <<slot, session, scanned, made, cmd, out>>

Codes == Counters \X Counters

\* In a slot: the configuration's number, its mode, access code and first moving
\* factor, the counter, and two histories: the last code made from it and
\* whether the counters have run undisturbed since.
Configs == [id : 1 .. MaxConfigs, mode : Modes, acc : AccCodes, seed : Seeds,
            count : Counters \cup {Lost}, last : Codes \cup {None}, steady : BOOLEAN]

ASSUME EmptyAssumption == Empty \notin Configs

Commands == {"NONE", "CONFIGURE", "DELETE", "UPDATE", "SWAP", "PRESS", "RESET"}

TypeOK ==
    /\ slot \in [Slots -> Configs \cup {Empty}]
    /\ \A s \in Slots : slot[s] # Empty /\ slot[s].mode = "otp" /\ slot[s].count # Lost
                          => slot[s].count <= CtrMax
    /\ session \in [Slots -> 0 .. SessMod - 1]
    /\ scanned \in BOOLEAN
    /\ made \in 0 .. MaxConfigs
    /\ cmd \in [name : Commands, acc : AccCodes \cup {None}]
    /\ out \in [mode : {"otp", "hotp"}, prev : Codes \cup {None}, code : Codes, steady : BOOLEAN]
               \cup {None}

(***************************************************************************)
(* Helpers                                                                 *)
(***************************************************************************)

Full == {s \in Slots : slot[s] # Empty}

\* A full slot asks for its access code.
MayWrite(s, acc) == slot[s] # Empty => slot[s].acc = acc

\* What may be read where the counter should be.
Reads(count) == IF count = Lost THEN Counters ELSE {count}

Did(name, acc) == cmd' = [name |-> name, acc |-> acc]

\* init_otp(): the usage counter of a slot at power-up.
Raised(r) ==
    IF r = Empty \/ r.mode # "otp" THEN {r}
    ELSE {IF (v + 1) % CtrMod <= CtrMax
          THEN [r EXCEPT !.count = (v + 1) % CtrMod, !.steady = TRUE] ELSE r : v \in Reads(r.count)}

\* The slots as a button press finds them.
AfterInit ==
    IF scanned THEN {slot}
    ELSE {[s \in Slots |-> IF s = 1 THEN one ELSE two] : one \in Raised(slot[1]), two \in Raised(slot[2])}

\* The usage counter of r was not raised, or its session counter changed, after
\* a code was made from them.
Unsteady(r) ==
    IF r = Empty \/ r.mode # "otp" THEN r ELSE [r EXCEPT !.steady = r.steady /\ r.last = None]

(***************************************************************************)
(* Commands                                                                *)
(***************************************************************************)

\* otp_status(): also the end of a configuration.  It takes the place of
\* init_otp() and leaves the counters.
Reported(slots) ==
    /\ scanned' = TRUE
    /\ slot' = IF scanned THEN slots ELSE [s \in Slots |-> Unsteady(slots[s])]

\* Selection of the application, or an idle report of the keyboard interface.
Status ==
    /\ Reported(slot)
    /\ UNCHANGED <<session, made, cmd, out>>

\* init_otp() on its own: the management application is selected (man_select).
InitOtp ==
    /\ slot' \in AfterInit
    /\ scanned' = TRUE
    /\ UNCHANGED <<session, made, cmd, out>>

Configure(s, mode, acc, seed, presented) ==
    /\ MayWrite(s, presented)
    /\ made < MaxConfigs
    /\ made' = made + 1
    /\ Reported([slot EXCEPT ![s] =
           [id |-> made + 1, mode |-> mode, acc |-> acc, seed |-> seed,
            count |-> 0, last |-> None, steady |-> TRUE]])
    /\ Did("CONFIGURE", presented)
    /\ UNCHANGED <<session, out>>

\* A configuration of zeros.
DeleteSlot(s, presented) ==
    /\ MayWrite(s, presented)
    /\ Reported([slot EXCEPT ![s] = Empty])
    /\ Did("DELETE", presented)
    /\ UNCHANGED <<session, made, out>>

\* Flags and access code; the secret stays and the counter is cut off.
Update(s, acc, presented) ==
    /\ slot[s] # Empty
    /\ MayWrite(s, presented)
    /\ slot' = [slot EXCEPT ![s].acc = acc, ![s].count = Lost, ![s].last = None]
    /\ Did("UPDATE", presented)
    /\ UNCHANGED <<session, scanned, made, out>>

SwapInPlace == \* mutant
    /\ slot' = [s \in Slots |-> IF slot[2] # Empty THEN Unsteady(slot[2]) ELSE Empty]
    /\ Did("SWAP", None)
    /\ UNCHANGED <<session, scanned, made, out>>

\* The session counters stay where they are.
Swap ==
    /\ slot' = [s \in Slots |-> Unsteady(slot[3 - s])]
    /\ Did("SWAP", None)
    /\ UNCHANGED <<session, scanned, made, out>>

(***************************************************************************)
(* The button                                                              *)
(***************************************************************************)

\* What a press leaves in slot s of slots, where it types a code made from count.
Typed(slots, s, count, code) ==
    LET r == slots[s]
    IN  /\ slot' = [slots EXCEPT ![s].count = count,
                                 ![s].last = IF r.count = Lost THEN None ELSE code]
        /\ out' = [mode |-> r.mode, prev |-> r.last, code |-> code, steady |-> r.steady]

\* The slots that keep no counter, and the empty one.
PressSilent(s) ==
    /\ \E slots \in AfterInit :
         /\ slots[s] # Empty => slots[s].mode = "other"
         /\ slot' = slots
    /\ UNCHANGED <<session, out>>

\* Before the first code the moving factor is the seed.
PressHotp(s) ==
    /\ \E slots \in AfterInit :
         /\ slots[s] # Empty /\ slots[s].mode = "hotp"
         /\ slots[s].count # Lost => slots[s].count < CtrMod - 1
         /\ \E imf \in Reads(slots[s].count) :
              LET first == IF imf = 0 THEN slots[s].seed ELSE imf
              IN  Typed(slots, s, (first + 1) % CtrMod, <<first, 0>>)
    /\ UNCHANGED session

PressOtpKeepsOnWrap(s) == \* mutant
    \E slots \in AfterInit :
      /\ slots[s] # Empty /\ slots[s].mode = "otp"
      /\ \E v \in Reads(slots[s].count) :
           LET counter == IF v = 0 THEN 1 ELSE v
               wraps   == session[s] + 1 = SessMod
               next    == IF wraps THEN (counter + 1) % CtrMod ELSE counter
           IN  /\ session' = [session EXCEPT ![s] = (session[s] + 1) % SessMod]
               /\ Typed(slots, s, IF v = 0 THEN next ELSE slots[s].count,
                        <<counter, session[s]>>)

\* The session counter tells the codes of one power-up apart; when it wraps the
\* usage counter goes on, up to its end.
PressOtp(s) ==
    \E slots \in AfterInit :
      /\ slots[s] # Empty /\ slots[s].mode = "otp"
      /\ \E v \in Reads(slots[s].count) :
           LET counter == IF v = 0 THEN 1 ELSE v
               wraps   == session[s] + 1 = SessMod
               next    == IF wraps THEN (counter + 1) % CtrMod ELSE counter
           IN  /\ session' = [session EXCEPT ![s] = (session[s] + 1) % SessMod]
               /\ Typed(slots, s, IF v = 0 \/ (wraps /\ next <= CtrMax) THEN next ELSE slots[s].count,
                        <<counter, session[s]>>)

Press(s) ==
    /\ PressSilent(s) \/ PressHotp(s) \/ PressOtp(s)
    /\ scanned' = TRUE
    /\ Did("PRESS", None)
    /\ UNCHANGED made

(***************************************************************************)
(* Reset and power                                                         *)
(***************************************************************************)

\* initialize_flash() empties the slots, then init_fido() runs init_otp(), which
\* finds no counter to raise; the rest of the RAM stays.
Reset ==
    /\ slot' = [s \in Slots |-> Empty]
    /\ scanned' = TRUE
    /\ Did("RESET", None)
    /\ UNCHANGED <<session, made, out>>

PowerCycle ==
    /\ session' = [s \in Slots |-> 0]
    /\ scanned' = FALSE
    /\ UNCHANGED <<slot, made, cmd, out>>

(***************************************************************************)
(* Specification                                                           *)
(***************************************************************************)

Init ==
    /\ slot = [s \in Slots |-> Empty]
    /\ session = [s \in Slots |-> 0]
    /\ scanned = FALSE
    /\ made = 0
    /\ cmd = [name |-> "NONE", acc |-> None]
    /\ out = None

Next ==
    \/ Status
    \/ InitOtp
    \/ \E s \in Slots :
         \/ \E presented \in AccCodes :
              \/ DeleteSlot(s, presented)
              \/ \E acc \in AccCodes :
                   \/ Update(s, acc, presented)
                   \/ \E mode \in Modes, seed \in Seeds : Configure(s, mode, acc, seed, presented)
         \/ Press(s)
    \/ Swap
    \/ Reset
    \/ PowerCycle

Spec == Init /\ [][Next]_vars

(***************************************************************************)
(* Properties                                                              *)
(***************************************************************************)

Before(a, b) == a[1] < b[1] \/ (a[1] = b[1] /\ a[2] < b[2])

\* The usage counter has stopped at its largest value.
Saturated(mode, code) == mode = "otp" /\ code[1] >= CtrMax

\* Every code a configuration makes is a later one than its last, across power
\* cycles (a cut begins the history anew, see RepeatsAreLostWrites), session wraps
\* and other configurations coming and going, unless a
\* swap or a status report in place of init_otp() disturbed its counters, an
\* update cut them off or the usage counter is at its end.
CodesGrow ==
    [][out' # None /\ out'.prev # None /\ out'.steady /\ ~Saturated(out'.mode, out'.prev)
        => Before(out'.prev, out'.code)]_vars
=============================================================================
