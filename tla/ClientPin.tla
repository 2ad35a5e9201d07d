------------------------------ MODULE ClientPin ------------------------------
(***************************************************************************)
(* authenticatorClientPIN of the security key (cbor_client_pin.c), with    *)
(* the files and RAM variables it shares with its neighbours: the wrapped  *)
(* master key of kek.c, setMinPINLength of cbor_config.c, cbor_reset.c and *)
(* the loss of RAM at a power cycle.                                       *)
(*                                                                         *)
(* One action is one command, executed to its end; power is lost only      *)
(* between commands here (module PinStorage splits the writes).            *)
(*                                                                         *)
(* Abstractions.  A PIN is a model value with a length; a hash of a PIN is *)
(* the PIN (hashing is injective), so session_pin holds a PIN or NoPin     *)
(* (zeros).  The key-agreement arithmetic is reduced to whether a request  *)
(* was made with the device's present key: with any other key the HMAC of  *)
(* setPIN/changePIN fails and the PIN hash of getPinToken decrypts to      *)
(* noise, the guess NoPin.                                                 *)
(***************************************************************************)
EXTENDS Naturals

CONSTANTS
    Pins,           \* the PINs a user may type
    NoPin,          \* no PIN stored; zeros in session_pin; a guess no PIN matches
    PinLen,         \* PinLen[p]: length of p in bytes
    Permissions,    \* permission bits of a pinUvAuthToken
    PermRequests,   \* permission sets a platform asks for
    MinLenRequests, \* newMinPINLength values a platform asks for; 0 = absent
    MaxRetries,     \* MAX_PIN_RETRIES
    MismatchLimit,  \* wrong PINs that ask for a power cycle
    DefaultMinPin,  \* minimum length while EF_MINPINLEN is empty
    MaxPinLen,      \* the 64th byte of a padded PIN must be zero
    ByteMod         \* number of values of a uint8_t

ASSUME PinAssumption == NoPin \notin Pins /\ "plain" \notin Pins \cup {NoPin}
ASSUME LengthAssumption == PinLen \in [Pins -> Nat] /\ MaxPinLen \in Nat
ASSUME PermAssumption == PermRequests \subseteq SUBSET Permissions
ASSUME MinLenAssumption == MinLenRequests \subseteq Nat
ASSUME ByteAssumption ==
    /\ ByteMod \in Nat \ {0}
    /\ MaxRetries \in 1 .. (ByteMod - 1)
    /\ MismatchLimit \in 1 .. (ByteMod - 1)
    /\ DefaultMinPin \in 1 .. (ByteMod - 1)

VARIABLES
    pin, retries,        \* EF_PIN: the PIN (NoPin: empty file), byte 0
    minPin, forceChange, \* EF_MINPINLEN: byte 0 and byte 1
    mkek,                \* EF_MKEK: "plain" (48 bytes) or the PIN that wraps it
    session_pin,         \* RAM: key that opens mkek
    paut,                \* the pinUvAuthToken: .holder is the PIN with which a
                         \* platform obtained the token now in EF_AUTHTOKEN
    new_pin_mismatches, needs_power_cycle,
    hkey,                \* key-agreement key: "none", "fresh" (nobody read it), "shared"
    resp,                \* CTAP status of the last command
    wrong                \* history: wrong guesses compared since the last right
                         \* one, the last setPIN or the last reset

flash == <<pin, retries, minPin, forceChange, mkek>>
ram   == <<session_pin, paut, new_pin_mismatches, needs_power_cycle, hkey>>
vars  == <<flash, ram, resp, wrong>>

PinOrNone == Pins \cup {NoPin}

Statuses == {"ok", "PIN_INVALID", "PIN_AUTH_BLOCKED", "PIN_BLOCKED", "PIN_AUTH_INVALID",
             "NOT_ALLOWED", "PIN_NOT_SET", "PIN_POLICY_VIOLATION", "INVALID_PARAMETER"}

Tokens == [holder: PinOrNone, permissions: SUBSET Permissions, in_use: BOOLEAN]

TypeOK ==
    /\ pin \in PinOrNone
    /\ retries \in 0 .. MaxRetries
    /\ minPin \in 0 .. (ByteMod - 1)
    /\ forceChange \in BOOLEAN
    /\ mkek \in Pins \cup {"plain"}
    /\ session_pin \in PinOrNone
    /\ paut \in Tokens
    /\ new_pin_mismatches \in 0 .. (ByteMod - 1)
    /\ needs_power_cycle \in BOOLEAN
    /\ hkey \in {"none", "fresh", "shared"}
    /\ resp \in Statuses
    /\ wrong \in Nat

(***************************************************************************)
(* Helpers                                                                 *)
(***************************************************************************)

\* load_mkek(): the stored master key opens under k.
Loadable(k) == mkek = "plain" \/ mkek = k

\* check_mkek_encrypted(): the master key after an open one was wrapped under k.
WrapForgotten(k) == mkek \* mutant
WrapOpenMkek(k) == IF mkek = "plain" THEN k ELSE mkek

\* resetPinUvAuthToken(): a new random token, unknown to every platform.
ResetTokenKeepsValue(t) == [t EXCEPT !.permissions = {}] \* mutant
ResetToken(t) == [t EXCEPT !.holder = NoPin, !.permissions = {}]

\* initialize(), run by the first command after power-up.
Entry(t) == IF hkey = "none" THEN ResetToken(t) ELSE t
EntryKey == IF hkey = "none" THEN "fresh" ELSE hkey

\* beginUsingPinUvAuthToken() on a new token, then its permissions.
Grant(t, p, perms) == [t EXCEPT !.holder = p, !.permissions = perms, !.in_use = TRUE]

\* EF_AUTHTOKEN is a file, the rest of paut is RAM.
PowerLossKeepsUse(t) == [t EXCEPT !.permissions = {}] \* mutant
PowerLoss(t) == [t EXCEPT !.permissions = {}, !.in_use = FALSE]

\* A PIN is set and not locked out.
PinUsable == pin # NoPin /\ retries > 0

\* The retry counter written before the comparison.
Spent == retries - 1

\* Status codes of the checks a subcommand makes before it touches the PIN file.
EarlyErrors ==
    {"INVALID_PARAMETER", "PIN_AUTH_INVALID"}
    \cup (IF pin = NoPin THEN {"PIN_NOT_SET"} ELSE {"NOT_ALLOWED"})
    \cup (IF pin # NoPin /\ retries = 0 THEN {"PIN_BLOCKED"} ELSE {})

(***************************************************************************)
(* authenticatorClientPIN                                                  *)
(***************************************************************************)

\* getPINRetries, and every request refused before the PIN file is written.
NoEffect ==
    /\ resp' \in EarlyErrors \cup {"ok"}
    /\ hkey' = EntryKey
    /\ paut' = Entry(paut)
    /\ UNCHANGED <<flash, session_pin, new_pin_mismatches, needs_power_cycle, wrong>>

GetKeyAgreement ==
    /\ hkey' = "shared"
    /\ paut' = Entry(paut)
    /\ resp' = "ok"
    /\ UNCHANGED <<flash, session_pin, new_pin_mismatches, needs_power_cycle, wrong>>

SetPINRefused(p) ==
    /\ hkey = "shared"
    /\ pin = NoPin
    /\ PinLen[p] \notin minPin .. MaxPinLen
    /\ resp' = "PIN_POLICY_VIOLATION"
    /\ UNCHANGED <<flash, ram, wrong>>

\* check_mkek_encrypted() wraps a plain mkek and then zeroes session_pin.
SetPIN(p) ==
    /\ hkey = "shared"
    /\ pin = NoPin
    /\ PinLen[p] \in minPin .. MaxPinLen
    /\ pin' = p
    /\ retries' = MaxRetries
    /\ mkek' = WrapOpenMkek(p)
    /\ session_pin' = IF mkek = "plain" THEN NoPin ELSE session_pin
    /\ resp' = "ok"
    /\ wrong' = 0
    /\ UNCHANGED <<minPin, forceChange, paut, new_pin_mismatches, needs_power_cycle, hkey>>

\* What changePIN and getPinToken share: the retry is spent before the comparison.
Mismatch(guess) ==
    /\ PinUsable
    /\ guess # pin
    /\ guess # NoPin => hkey = "shared"
    /\ retries' = Spent
    /\ hkey' = "fresh"
    /\ wrong' = wrong + 1
    /\ paut' = Entry(paut)
    /\ IF retries = 1
         THEN /\ resp' = "PIN_BLOCKED"
              /\ UNCHANGED <<new_pin_mismatches, needs_power_cycle>>
         ELSE LET n == (new_pin_mismatches + 1) % ByteMod IN
              /\ new_pin_mismatches' = n
              /\ needs_power_cycle' = (needs_power_cycle \/ n >= MismatchLimit)
              /\ resp' = IF n >= MismatchLimit THEN "PIN_AUTH_BLOCKED" ELSE "PIN_INVALID"
    /\ UNCHANGED <<pin, minPin, forceChange, mkek, session_pin>>

\* changePIN: the HMAC check comes first, so only the present key reaches the PIN.
ChangePINMismatch(guess) == guess \in Pins /\ Mismatch(guess)

\* The old PIN is right: its key is in session_pin, the counters start again.
OldPinRight(guess) ==
    /\ hkey = "shared"
    /\ PinUsable
    /\ guess = pin
    /\ retries' = MaxRetries
    /\ new_pin_mismatches' = 0
    /\ wrong' = 0
    /\ UNCHANGED <<needs_power_cycle, hkey>>

NewPinAcceptable(guess, new) ==
    /\ PinLen[new] \in minPin .. MaxPinLen
    /\ ~(forceChange /\ new = pin)
    /\ Loadable(guess)

ChangePIN(guess, new) ==
    /\ OldPinRight(guess)
    /\ NewPinAcceptable(guess, new)
    /\ pin' = new
    /\ session_pin' = new
    /\ mkek' = new
    /\ forceChange' = FALSE
    /\ paut' = ResetToken(paut)
    /\ resp' = "ok"
    /\ UNCHANGED minPin

ChangePINRefused(guess, new) ==
    /\ OldPinRight(guess)
    /\ ~NewPinAcceptable(guess, new)
    /\ session_pin' = guess
    /\ resp' = IF PinLen[new] > MaxPinLen THEN "INVALID_PARAMETER" ELSE "PIN_POLICY_VIOLATION"
    /\ UNCHANGED <<pin, minPin, forceChange, mkek, paut>>

\* getPinToken and getPinUvAuthTokenUsingPinWithPermissions.  No HMAC protects
\* the request: with a stale platform key the device compares noise.
GetPinTokenMismatch(guess) == Mismatch(guess)

\* The length of the encrypted hash is not checked: one that AES-CBC cannot
\* decrypt costs a retry and is compared with nothing.
GetPinTokenUnreadable ==
    /\ PinUsable
    /\ retries' = Spent
    /\ hkey' = EntryKey
    /\ paut' = Entry(paut)
    /\ resp' = "PIN_AUTH_INVALID"
    /\ UNCHANGED <<pin, minPin, forceChange, mkek, session_pin,
                   new_pin_mismatches, needs_power_cycle, wrong>>

GetPinToken(guess, perms) ==
    /\ OldPinRight(guess)
    /\ mkek' = WrapOpenMkek(guess)
    /\ session_pin' = guess
    /\ IF forceChange
         THEN resp' = "PIN_INVALID" /\ UNCHANGED paut
         ELSE resp' = "ok" /\ paut' = Grant(ResetToken(paut), guess, perms)
    /\ UNCHANGED <<pin, minPin, forceChange>>

(***************************************************************************)
(* authenticatorConfig 0x03, authenticatorReset, power                     *)
(***************************************************************************)

Current(n) == IF n = 0 THEN minPin ELSE n

TooShortBefore(n) == pin # NoPin /\ PinLen[pin] < minPin \* mutant
TooShortFor(n) == pin # NoPin /\ PinLen[pin] < Current(n)

Authorised(perm) == paut.holder # NoPin /\ perm \in paut.permissions

SetMinPINLength(n, force) ==
    /\ Authorised("ACFG")
    /\ Current(n) >= minPin
    /\ force => pin # NoPin
    /\ minPin' = Current(n) % ByteMod
    /\ forceChange' = (force \/ TooShortFor(n))
    /\ resp' = "ok"
    /\ UNCHANGED <<pin, retries, mkek, ram, wrong>>

SetMinPINLengthRefused(n) ==
    /\ ~Authorised("ACFG") \/ Current(n) < minPin
    /\ resp' = IF Authorised("ACFG") THEN "PIN_POLICY_VIOLATION" ELSE "PIN_AUTH_INVALID"
    /\ UNCHANGED <<flash, ram, wrong>>

\* mutant: the token file is spared by the erasure.
ResetKeepsToken ==
    /\ pin' = NoPin
    /\ retries' = 0
    /\ minPin' = DefaultMinPin
    /\ forceChange' = FALSE
    /\ mkek' = "plain"
    /\ wrong' = 0
    /\ resp' = "ok"
    /\ UNCHANGED ram

\* initialize_flash(true) and init_fido(): new files, the same RAM.
Reset ==
    /\ pin' = NoPin
    /\ retries' = 0
    /\ minPin' = DefaultMinPin
    /\ forceChange' = FALSE
    /\ mkek' = "plain"
    /\ paut' = [paut EXCEPT !.holder = NoPin]
    /\ wrong' = 0
    /\ resp' = "ok"
    /\ UNCHANGED <<session_pin, new_pin_mismatches, needs_power_cycle, hkey>>

PowerCycle ==
    /\ session_pin' = NoPin
    /\ paut' = PowerLoss(paut)
    /\ new_pin_mismatches' = 0
    /\ needs_power_cycle' = FALSE
    /\ hkey' = "none"
    /\ resp' = "ok"
    /\ UNCHANGED <<flash, wrong>>

(***************************************************************************)
(* Specification                                                           *)
(***************************************************************************)

\* A factory-new device after its first boot (scan_files).
Init ==
    /\ pin = NoPin
    /\ retries = 0
    /\ minPin = DefaultMinPin
    /\ forceChange = FALSE
    /\ mkek = "plain"
    /\ session_pin = NoPin
    /\ paut = [holder |-> NoPin, permissions |-> {}, in_use |-> FALSE]
    /\ new_pin_mismatches = 0
    /\ needs_power_cycle = FALSE
    /\ hkey = "none"
    /\ resp = "ok"
    /\ wrong = 0

Next ==
    \/ NoEffect
    \/ GetKeyAgreement
    \/ \E p \in Pins : SetPINRefused(p)
    \/ \E p \in Pins : SetPIN(p)
    \/ \E guess \in Pins : ChangePINMismatch(guess)
    \/ \E guess, new \in Pins : ChangePIN(guess, new)
    \/ \E guess, new \in Pins : ChangePINRefused(guess, new)
    \/ \E guess \in PinOrNone : GetPinTokenMismatch(guess)
    \/ GetPinTokenUnreadable
    \/ \E guess \in Pins, perms \in PermRequests : GetPinToken(guess, perms)
    \/ \E n \in MinLenRequests, force \in BOOLEAN : SetMinPINLength(n, force)
    \/ \E n \in MinLenRequests : SetMinPINLengthRefused(n)
    \/ Reset
    \/ PowerCycle

Spec == Init /\ [][Next]_vars

(***************************************************************************)
(* Properties                                                              *)
(***************************************************************************)

\* The master key is wrapped under the PIN that is stored, and lies open
\* exactly while there is none: whoever knows the PIN can open the device key
\* (setPIN, changePIN and getPinToken each wrap it on a path of their own).
MkekFollowsPin == mkek = IF pin = NoPin THEN "plain" ELSE pin

\* A platform that holds the token of this power session can use the device
\* key: session_pin still opens the master key, whatever wrong guesses,
\* refused changes and resets other platforms made since.
TokenHolderCanLoadKey ==
    paut.holder # NoPin /\ paut.in_use => Loadable(session_pin)

\* The token that verifies today was obtained with the PIN of today: changePIN
\* and reset make every token handed out before worthless.
TokenFollowsPin == paut.holder \in {NoPin, pin}

\* Each guess compared with the stored PIN was paid for by a retry: no path
\* through two commands that share the counter compares without spending.
GuessesArePaid == retries + wrong <= MaxRetries

\* A stored PIN shorter than the minimum is under a forced change, in
\* whichever order the PIN and the minimum were set.
ShortPinIsForced == pin # NoPin /\ PinLen[pin] < minPin => forceChange

\* The strengthening that TLAPS proves inductive.
PinInv ==
    /\ TypeOK
    /\ MkekFollowsPin
    /\ TokenHolderCanLoadKey
    /\ TokenFollowsPin
    /\ GuessesArePaid
    /\ ShortPinIsForced

\* What the component promises about PIN, retries and tokens: module PinGate.
Gate == INSTANCE PinGate WITH Full <- MaxRetries, budget <- retries, live <- paut.holder

\* Every command is a step of the gate or leaves it alone (ClientPin implements PinGate).
GateSpec == Gate!Spec

(***************************************************************************)
(* Claims of the repository that the code does not keep                    *)
(***************************************************************************)

\* PIN_AUTH_BLOCKED is the answer to the third wrong PIN of a new PIN's life,
\* never to the first (test_pin_attempts, after a reset and a setPIN).
AuthBlockedOnlyAfterThree == resp = "PIN_AUTH_BLOCKED" => wrong >= MismatchLimit

\* setMinPINLength never lowers the minimum (test_no_setminpin): only a reset does.
MinPinNeverLowered == [][minPin' < minPin => pin' = NoPin]_vars
==============================================================================
