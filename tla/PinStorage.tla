------------------------------ MODULE PinStorage ------------------------------
(***************************************************************************)
(* ClientPin on a flash that lags behind.  file_put_data() changes what    *)
(* the program reads at once, and low_flash_available() releases what was  *)
(* put since the last release; the other core writes the releases to the   *)
(* flash later, in order.  Both belong to the pico-keys SDK, which is not  *)
(* part of the repository: Flush and PowerCut state what is assumed of it. *)
(* A release is not atomic: a cut may keep the new contents of some of its *)
(* files and the old contents of the others.                               *)
(*                                                                         *)
(* A command still runs to its end in one action, and queues its releases  *)
(* in the order of the code.  A power cut inside a command keeps some of   *)
(* them and all RAM is gone, which is the cut after the command that loses *)
(* the others: so PowerCut covers a cut at any instruction.                *)
(***************************************************************************)
EXTENDS ClientPin, Sequences

CONSTANTS
    MaxBacklog,  \* bound: releases still in the queue when a command starts
    MaxLost      \* bound: the history `lost`

ASSUME BacklogAssumption == MaxBacklog \in Nat /\ MaxLost \in Nat

VARIABLES
    flashed,  \* contents of the files on the flash
    pending,  \* contents of the files after each release not yet written
    torn,     \* history: a cut inside one release left the files of now
    lost      \* history: releases lost by cuts since the first of the wrong
              \* guesses in `wrong`, which no cut makes undone

storageVars == <<vars, flashed, pending, torn, lost>>

\* The files as the program reads them.
Files ==
    [pin    |-> [value |-> pin, retries |-> retries],
     minpin |-> [min |-> minPin, force |-> forceChange],
     mkek   |-> mkek,
     token  |-> paut.holder,
     torn   |-> torn]

Release(stages) ==
    /\ Len(pending) <= MaxBacklog
    /\ pending' = pending \o stages
    /\ UNCHANGED flashed

\* The count starts with a wrong guess, and ends with the right one.
Lose(n) == lost' = IF wrong' = 0 THEN 0 ELSE lost + n

Only(c, file) == IF c THEN <<file>> ELSE <<>>

(***************************************************************************)
(* The releases of each command, in the order of the code                  *)
(***************************************************************************)

\* initialize(), run by the first command after power-up, replaces the token.
EntryReleases == Only(hkey = "none", [Files EXCEPT !.token = NoPin])

\* setPIN: EF_PIN, then the master key wrapped under the new PIN.
SetPINMkekFirst(p) == \* mutant
    Only(mkek = "plain", [Files EXCEPT !.mkek = p]) \o <<Files'>>
SetPINReleases(p) ==
    <<[Files EXCEPT !.pin = Files'.pin]>> \o Only(mkek = "plain", Files')

\* The retry is spent, and its release queued, before the PIN is compared and
\* the platform answered; neither waits for the flash.
SpentInRamOnly == EntryReleases \* mutant: the release is left to the next command
MismatchReleases == EntryReleases \o <<Files'>>

Paid == [Files EXCEPT !.pin.retries = Spent]
Repaid == [Files EXCEPT !.pin.retries = MaxRetries]

\* The force flag is cleared before the PIN is replaced.
ChangePINUnforcedFirst(new) == \* mutant
    <<Paid, [Repaid EXCEPT !.minpin.force = FALSE]>> \o <<Files'>>

\* changePIN: EF_PIN and EF_MKEK share a release; the cleared force flag and
\* the new token follow.
ChangePINReleases(new) ==
    <<Paid, Repaid>>
    \o <<[Repaid EXCEPT !.pin.value = new, !.mkek = new]>>
    \o Only(forceChange, [Files' EXCEPT !.token = paut.holder])
    \o <<Files'>>

\* getPinToken: a master key still open is wrapped before the retries come back.
GetPinTokenReleases(guess) ==
    <<Paid>>
    \o Only(mkek = "plain", [Paid EXCEPT !.mkek = guess])
    \o <<[Repaid EXCEPT !.mkek = mkek']>>
    \o Only(~forceChange, Files')

(***************************************************************************)
(* Commands                                                                *)
(***************************************************************************)

Command ==
    /\ UNCHANGED torn
    /\ \/ (NoEffect \/ GetKeyAgreement) /\ Release(EntryReleases)
       \/ \E p \in Pins : SetPINRefused(p) /\ Release(<<>>)
       \/ \E p \in Pins : SetPIN(p) /\ Release(SetPINReleases(p))
       \/ \E guess \in Pins : ChangePINMismatch(guess) /\ Release(MismatchReleases)
       \/ \E guess, new \in Pins : ChangePIN(guess, new) /\ Release(ChangePINReleases(new))
       \/ \E guess, new \in Pins : ChangePINRefused(guess, new) /\ Release(<<Paid, Repaid>>)
       \/ \E guess \in PinOrNone : GetPinTokenMismatch(guess) /\ Release(MismatchReleases)
       \/ GetPinTokenUnreadable /\ Release(MismatchReleases)
       \/ \E guess \in Pins, perms \in PermRequests :
              GetPinToken(guess, perms) /\ Release(GetPinTokenReleases(guess))
       \/ \E n \in MinLenRequests, force \in BOOLEAN :
              SetMinPINLength(n, force) /\ Release(<<Files'>>)
       \/ \E n \in MinLenRequests : SetMinPINLengthRefused(n) /\ Release(<<>>)
    /\ Lose(0)

\* The files are erased, made anew by scan_files() and released together.
Erase == torn' = FALSE /\ Reset /\ Lose(0) /\ Release(<<Files'>>)

(***************************************************************************)
(* Flash and power (the SDK)                                               *)
(***************************************************************************)

Flush ==
    /\ pending # <<>>
    /\ flashed' = Head(pending)
    /\ pending' = Tail(pending)
    /\ UNCHANGED <<vars, torn, lost>>

\* What a cut may leave: any number of releases, and part of the next one.
Written(k) == IF k = 0 THEN flashed ELSE pending[k]

Changed(k) == {f \in DOMAIN flashed \ {"torn"} : pending[k][f] # Written(k - 1)[f]}

TornAt(k) ==
    {[f \in DOMAIN flashed |->
        IF f = "torn" THEN TRUE ELSE IF f \in new THEN pending[k][f] ELSE Written(k - 1)[f]] :
     new \in (SUBSET Changed(k)) \ {{}, Changed(k)}}

\* After k releases reached the flash.
Survivors(k) == {Written(k)} \cup (IF k < Len(pending) THEN TornAt(k + 1) ELSE {})

\* The program starts again from what is on the flash.
RestartFrom(left) ==
    /\ flashed' = left
    /\ pending' = <<>>
    /\ pin' = left.pin.value
    /\ retries' = left.pin.retries
    /\ minPin' = left.minpin.min
    /\ forceChange' = left.minpin.force
    /\ mkek' = left.mkek
    /\ torn' = left.torn
    /\ paut' = [PowerLoss(paut) EXCEPT !.holder = left.token]
    /\ session_pin' = NoPin
    /\ new_pin_mismatches' = 0
    /\ needs_power_cycle' = FALSE
    /\ hkey' = "none"
    /\ resp' = "ok"

\* The guesses answered stay known to whoever made them.
PowerCut ==
    \E k \in 0 .. Len(pending) :
        /\ \E left \in Survivors(k) : RestartFrom(left)
        /\ UNCHANGED wrong
        /\ Lose(Len(pending) - k)
        /\ lost' <= MaxLost

(***************************************************************************)
(* Specification                                                           *)
(***************************************************************************)

StorageInit ==
    /\ Init
    /\ torn = FALSE
    /\ lost = 0
    /\ flashed = Files
    /\ pending = <<>>

StorageNext == Command \/ Erase \/ Flush \/ PowerCut

StorageSpec == StorageInit /\ [][StorageNext]_storageVars

(***************************************************************************)
(* Properties                                                              *)
(***************************************************************************)

\* However often and wherever power is cut, the stored PIN opens the master
\* key, or the key lies open until the next right PIN wraps it.  The one
\* exception is a cut inside a single release (a changed PIN and its master
\* key, or a reset), which nothing in the code undoes.
MkekSurvivesCuts == ~torn => mkek \in {"plain"} \cup ({pin} \ {NoPin})

\* Cuts give back no more guesses than they lose releases: whoever cuts power
\* before a spent retry reaches the flash has its retry back and keeps the
\* answer, but for a retry that was written no order of guesses, other
\* commands and cuts, torn releases included, gets a second guess.
PaidAcrossCuts == retries + wrong <= MaxRetries + lost

\* The two files that force a change, the PIN and the minimum with its flag, are
\* written by different commands and, by changePIN, in different releases: no
\* cut between them leaves a PIN that is too short and need not be changed.
ShortPinForcedAcrossCuts == ~torn => ShortPinIsForced

\* changePIN replaces the token last, so a cut may keep the token of the old
\* PIN: no power session lets it be used.
OldTokenStaysDead ==
    paut.in_use \/ paut.permissions # {} => paut.holder \in {NoPin, pin}
==============================================================================
