----------------------------- MODULE OtpStorage -----------------------------
(***************************************************************************)
(* Otp on a flash that lags behind, with power cuts at any instruction     *)
(* (PinStorage explains releases and cuts).  A press types its code before *)
(* it writes the counter, so a cut may bring the counter back; a swap puts *)
(* both slots in one release, which a cut may tear; the deletion of a slot *)
(* is not released, and goes out with the next release.                    *)
(*                                                                         *)
(* A press before the scan is here the scan, in a release of its own, and  *)
(* then the press: the code's order, and selecting the management          *)
(* application scans alone anyway.                                         *)
(***************************************************************************)
EXTENDS Otp, SequencesExt

CONSTANTS
    MaxBacklog,  \* bound: releases still in the queue when a command starts
    MaxLost      \* bound: releases lost by cuts

ASSUME StorageAssumption == MaxBacklog \in Nat /\ MaxLost \in Nat

VARIABLES
    flashed,  \* the slots on the flash
    pending,  \* the slots after each release not yet written
    lost,     \* history: releases that cuts lost
    used,     \* history: for each configuration, 1 + the highest counter it typed
    loose     \* history: configurations whose counter an update cut off, or that
              \* a torn swap left in both slots: what they type is not recorded

typing == <<used, loose>>

storageVars == <<vars, flashed, pending, lost, typing>>

Ids == 1 .. MaxConfigs

\* The histories in a slot do not outlive a cut that loses something; `used` does.
Plain(r) == IF r = Empty THEN Empty ELSE [r EXCEPT !.last = None, !.steady = FALSE]
Files == [s \in Slots |-> Plain(slot[s])]

Released == IF pending = <<>> THEN flashed ELSE Last(pending)

\* low_flash_available()
Release ==
    /\ Len(pending) <= MaxBacklog
    /\ pending' = IF Files' = Released THEN pending ELSE Append(pending, Files')
    /\ UNCHANGED <<flashed, lost>>

NoRelease == UNCHANGED <<flashed, pending, lost>>

Loosen(ids) ==
    /\ loose' = loose \cup ids
    /\ used' = [i \in Ids |-> IF i \in loose' THEN 0 ELSE used[i]]

(***************************************************************************)
(* Commands                                                                *)
(***************************************************************************)

Scan == ~scanned /\ InitOtp /\ Release /\ UNCHANGED typing

Report == Status /\ NoRelease /\ UNCHANGED typing

Write(s, mode, acc, seed, presented) ==
    /\ Configure(s, mode, acc, seed, presented)
    /\ Release
    /\ UNCHANGED typing

Clear(s, presented) == DeleteSlot(s, presented) /\ NoRelease /\ UNCHANGED typing

Change(s, acc, presented) ==
    /\ Update(s, acc, presented)
    /\ Release
    /\ Loosen({slot[s].id})

Exchange == Swap /\ Release /\ UNCHANGED typing

\* The code counts as typed, whether or not the cut comes before its last key.
Count(s) ==
    LET r == slot[s]
    IN  /\ used' = IF r = Empty \/ r.mode = "other" \/ r.id \in loose THEN used
                   ELSE [used EXCEPT ![r.id] = Max({@, out'.code[1] + 1})]
        /\ UNCHANGED loose

TypeUnreleased(s) == \* mutant
    /\ scanned /\ Press(s)
    /\ NoRelease
    /\ Count(s)

\* A press that leaves the counter writes nothing.
Type(s) ==
    /\ scanned /\ Press(s)
    /\ IF Files' = Files THEN NoRelease ELSE Release
    /\ Count(s)

\* The erasure (initialize_flash, in the SDK) is taken to be done when it returns.
Erase ==
    /\ Reset
    /\ flashed' = Files' /\ pending' = <<>>
    /\ UNCHANGED <<lost, typing>>

(***************************************************************************)
(* Flash and power (the SDK)                                               *)
(***************************************************************************)

Flush ==
    /\ pending # <<>>
    /\ flashed' = Head(pending)
    /\ pending' = Tail(pending)
    /\ UNCHANGED <<vars, lost, typing>>

Written(k) == IF k = 0 THEN flashed ELSE pending[k]

\* Release k with one of its two slots written.
TornAt(k) == {[Written(k - 1) EXCEPT ![s] = pending[k][s]] : s \in Slots} \ {Written(k - 1), Written(k)}

\* A configuration in both slots.
Twins(slots) == {i \in Ids : \A s \in Slots : slots[s] # Empty /\ slots[s].id = i}

Landed == pending = <<>> /\ flashed = Files

PowerOff == Landed /\ PowerCycle /\ NoRelease /\ UNCHANGED typing

\* A cut keeps some whole releases, and perhaps part of the next one.
PowerCut ==
    /\ ~Landed
    /\ cmd' = [name |-> "NONE", acc |-> None]
    /\ UNCHANGED <<made, out>>
    /\ \E k \in 0 .. Len(pending) :
        \E left \in {Written(k)} \cup (IF k < Len(pending) THEN TornAt(k + 1) ELSE {}) :
            /\ slot' = left
            /\ session' = [s \in Slots |-> 0]
            /\ scanned' = FALSE
            /\ lost' = lost + Len(pending) - k
            /\ lost' <= MaxLost
            /\ Loosen(Twins(left))
            /\ flashed' = left
            /\ pending' = <<>>

(***************************************************************************)
(* Specification                                                           *)
(***************************************************************************)

StorageInit ==
    /\ Init
    /\ flashed = Files
    /\ pending = <<>>
    /\ used = [i \in Ids |-> 0]
    /\ lost = 0
    /\ loose = {}

StorageNext ==
    \/ Report \/ Scan
    \/ \E s \in Slots :
         \/ \E presented \in AccCodes :
              \/ Clear(s, presented)
              \/ \E acc \in AccCodes :
                   \/ Change(s, acc, presented)
                   \/ \E mode \in Modes, seed \in Seeds : Write(s, mode, acc, seed, presented)
         \/ Type(s)
    \/ Exchange
    \/ Erase
    \/ Flush
    \/ PowerOff
    \/ PowerCut

StorageSpec == StorageInit /\ [][StorageNext]_storageVars

(***************************************************************************)
(* Properties                                                              *)
(***************************************************************************)

\* The counter of the next code that r makes.
NextCounter(r) ==
    IF r.count # 0 THEN r.count ELSE IF r.mode = "hotp" THEN r.seed ELSE 1

\* A code is typed before its counter is written, yet cuts bring a moving factor
\* back by no more than the releases that they lost, and a usage counter no
\* further behind the last one typed: through scans that raise it and reports
\* that do not, session wraps, swaps and deletions that are rolled back.
RepeatsAreLostWrites ==
    \A s \in Full : slot[s].mode # "other" /\ slot[s].id \notin loose =>
        used[slot[s].id] <= NextCounter(slot[s]) + lost + (IF slot[s].mode = "otp" THEN 1 ELSE 0)

\* A configuration disappears only by a reset, by a command that brings its access
\* code, or by a cut that loses releases: not by a swap, with one slot or both
\* full, nor by a cut after its write has landed.
LostOnlyWithCode ==
    [][\A s \in Full : (\A t \in Slots : slot'[t] = Empty \/ slot'[t].id # slot[s].id) =>
        \/ lost' # lost
        \/ cmd'.name = "RESET"
        \/ cmd'.name \in {"CONFIGURE", "DELETE"} /\ cmd'.acc = slot[s].acc]_storageVars
=============================================================================
