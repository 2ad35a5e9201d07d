-------------------------------- MODULE Oath --------------------------------
(***************************************************************************)
(* The OATH application (oath.c): named TOTP and HOTP credentials, the     *)
(* access code that validates a session, and the OTP PIN with its tries.   *)
(*                                                                         *)
(* One action is one APDU; a refused one is a stuttering step, but a       *)
(* VALIDATE without an access code and a wrong OTP PIN are not.  The keyed *)
(* hash of a challenge is perfect: a whole response shows the key it was   *)
(* made with, and the fresh challenges need no state of their own.         *)
(* Secrets, digits and the touch property are left out; a TOTP code and    *)
(* LIST are reads.  In PUT the moving factor comes last, as every client   *)
(* sends it.                                                               *)
(***************************************************************************)
EXTENDS Naturals

CONSTANTS
    Names,      \* names of credentials
    Keys,       \* access codes
    Pins,       \* OTP PINs
    NumSlots,   \* MAX_OATH_CRED
    MaxTries,   \* MAX_OTP_COUNTER
    Factors,    \* moving factors that a PUT brings, 0 when it brings none
    Empty,      \* a slot without data
    None,       \* no access code, no OTP PIN, no code answered, no key shown
    MaxMade,    \* bound of the model: credentials ever stored
    MaxFactor   \* bound of the model: moving factors

ASSUME OathAssumption ==
    /\ NumSlots \in Nat /\ MaxTries \in Nat \ {0} /\ MaxMade \in Nat /\ MaxFactor \in Nat
    /\ Factors \subseteq 0 .. MaxFactor
    /\ None \notin Keys /\ None \notin Pins

VARIABLES
    cred,       \* EF_OATH_CRED
    code,       \* EF_OATH_CODE
    pin, tries, \* EF_OTP_PIN: the PIN, and the byte before it
    validated,
    made,       \* history: credentials ever stored
    wrong,      \* history: wrong PINs verified since the tries were full
    under,      \* history: the access code in force when a session was last validated
    out         \* history: the last HOTP code, its moving factor and the one before it

pinVars == <<pin, tries, wrong>>
access  == <<code, validated, under>>
vars    == <<cred, made, out, access, pinVars>>

Slots == 1 .. NumSlots

\* id numbers the credentials, last is the moving factor of the last code: histories.
Creds == [id : 1 .. MaxMade, name : Names, hotp : BOOLEAN, imf : 0 .. MaxFactor,
          last : 0 .. MaxFactor \cup {None}]
ASSUME EmptyAssumption == Empty \notin Creds /\ None \notin 0 .. MaxFactor

TypeOK ==
    /\ cred \in [Slots -> Creds \cup {Empty}]
    /\ code \in Keys \cup {None}
    /\ pin \in Pins \cup {None} /\ tries \in 0 .. MaxTries /\ wrong \in 0 .. MaxTries
    /\ validated \in BOOLEAN
    /\ made \in 0 .. MaxMade
    /\ under \in Keys \cup {None}
    /\ out \in [imf : 0 .. MaxFactor, last : 0 .. MaxFactor \cup {None}] \cup {None}

(***************************************************************************)
(* Helpers                                                                 *)
(***************************************************************************)

Free == {i \in Slots : cred[i] = Empty}
Named(n) == {i \in Slots \ Free : cred[i].name = n}
First(S) == CHOOSE i \in S : \A j \in S : i <= j

\* The session is open from here on, under the access code that this step leaves.
Validated == validated' = TRUE /\ under' = code'
Invalidated == validated' = FALSE /\ UNCHANGED under

Stored(n, hotp, factor) ==
    [id |-> made + 1, name |-> n, hotp |-> hotp, imf |-> IF hotp THEN factor ELSE 0, last |-> None]

(***************************************************************************)
(* Credentials                                                             *)
(***************************************************************************)

PutFirstFree(n, hotp, factor) == \* mutant
    /\ validated /\ made < MaxMade
    /\ Free # {}
    /\ cred' = [cred EXCEPT ![First(Free)] = Stored(n, hotp, factor)]
    /\ made' = made + 1
    /\ UNCHANGED <<out, access, pinVars>>

\* Over the credential of that name, else in the first free slot.
Put(n, hotp, factor) ==
    /\ validated /\ made < MaxMade
    /\ Named(n) # {} \/ Free # {}
    /\ LET i == IF Named(n) # {} THEN First(Named(n)) ELSE First(Free)
       IN  cred' = [cred EXCEPT ![i] = Stored(n, hotp, factor)]
    /\ made' = made + 1
    /\ UNCHANGED <<out, access, pinVars>>

Delete(n) ==
    /\ validated
    /\ Named(n) # {}
    /\ cred' = [cred EXCEPT ![First(Named(n))] = Empty]
    /\ UNCHANGED <<made, out, access, pinVars>>

CalculateTwice(n) == \* mutant
    /\ validated
    /\ Named(n) # {}
    /\ LET i == First(Named(n))
       IN  /\ cred[i].hotp /\ cred[i].imf < MaxFactor
           /\ out' = [imf |-> cred[i].imf, last |-> cred[i].last]
           /\ cred' = [cred EXCEPT ![i].imf = IF cred[i].last = None THEN @ ELSE @ + 1,
                                   ![i].last = cred[i].imf]
    /\ UNCHANGED <<made, access, pinVars>>

\* A HOTP code: answered, then the moving factor goes on.
Calculate(n) ==
    /\ validated
    /\ Named(n) # {}
    /\ LET i == First(Named(n))
       IN  /\ cred[i].hotp /\ cred[i].imf < MaxFactor
           /\ out' = [imf |-> cred[i].imf, last |-> cred[i].last]
           /\ cred' = [cred EXCEPT ![i].imf = @ + 1, ![i].last = cred[i].imf]
    /\ UNCHANGED <<made, access, pinVars>>

(***************************************************************************)
(* Access code                                                             *)
(***************************************************************************)

SetCodeStaysOpen(key) == \* mutant
    /\ validated
    /\ code' = key
    /\ UNCHANGED <<cred, made, out, validated, under, pinVars>>

\* Whatever opened the session, it is closed under the new code.
SetCode(key) ==
    /\ validated
    /\ code' = key
    /\ Invalidated
    /\ UNCHANGED <<cred, made, out, pinVars>>

\* SET CODE with no key or an empty one.
ClearCode ==
    /\ validated
    /\ code' = None
    /\ UNCHANGED <<cred, made, out, pinVars>>
    /\ Validated

\* The response is compared as far as it goes: one that shows its key must show the
\* code, one too short to show a key (None) may agree, and an empty one does.
Validate(shown) ==
    /\ code # None
    /\ shown \in {code, None}
    /\ UNCHANGED <<cred, made, out, code, pinVars>>
    /\ Validated

\* The answer is an error, and the session is validated.
ValidateWithoutCode ==
    /\ code = None
    /\ UNCHANGED <<cred, made, out, code, pinVars>>
    /\ Validated

(***************************************************************************)
(* OTP PIN                                                                 *)
(***************************************************************************)

NewPin(p) == pin' = p /\ tries' = MaxTries /\ wrong' = 0

SetPin(p) ==
    /\ pin = None
    /\ NewPin(p)
    /\ UNCHANGED <<cred, made, out, access>>

\* The tries are not asked for here, and a wrong PIN costs none.
ChangePin(old, new) ==
    /\ pin = old
    /\ NewPin(new)
    /\ UNCHANGED <<cred, made, out, access>>

\* Validates the session, whatever the access code is.
VerifyPin(p) ==
    /\ pin = p /\ tries > 0
    /\ NewPin(p)
    /\ UNCHANGED <<cred, made, out, code>>
    /\ Validated

VerifyPinSparesLast(p) == \* mutant
    /\ pin # None /\ (pin # p \/ tries = 0)
    /\ tries' = IF tries > 1 THEN tries - 1 ELSE tries
    /\ wrong' = IF tries > 0 THEN wrong + 1 ELSE wrong
    /\ Invalidated
    /\ UNCHANGED <<cred, made, out, code, pin>>

\* A wrong PIN, or any without a try left.
VerifyPinFailed(p) ==
    /\ pin # None /\ (pin # p \/ tries = 0)
    /\ tries' = IF tries > 0 THEN tries - 1 ELSE 0
    /\ wrong' = IF tries > 0 THEN wrong + 1 ELSE wrong
    /\ Invalidated
    /\ UNCHANGED <<cred, made, out, code, pin>>

(***************************************************************************)
(* Reset and power                                                         *)
(***************************************************************************)

Emptied ==
    /\ cred' = [i \in Slots |-> Empty]
    /\ code' = None
    /\ pin' = None /\ tries' = 0 /\ wrong' = 0
    /\ UNCHANGED <<made, out>>

\* RESET of the application, in any session.
Reset == Emptied /\ Validated

\* authenticatorReset deletes the files and leaves the RAM.
FactoryReset == Emptied /\ UNCHANGED <<validated, under>>

\* A session is validated from the start; selecting changes nothing.
PowerCycle ==
    /\ UNCHANGED <<cred, made, out, code, pinVars>>
    /\ Validated

(***************************************************************************)
(* Specification                                                           *)
(***************************************************************************)

Init ==
    /\ cred = [i \in Slots |-> Empty]
    /\ code = None
    /\ pin = None /\ tries = 0 /\ wrong = 0
    /\ validated = TRUE /\ under = None
    /\ made = 0
    /\ out = None

Next ==
    \/ \E n \in Names :
         \/ \E hotp \in BOOLEAN, factor \in Factors : Put(n, hotp, factor)
         \/ Delete(n) \/ Calculate(n)
    \/ \E key \in Keys : SetCode(key)
    \/ \E shown \in Keys \cup {None} : Validate(shown)
    \/ ClearCode \/ ValidateWithoutCode
    \/ \E p \in Pins :
         \/ SetPin(p) \/ VerifyPin(p) \/ VerifyPinFailed(p)
         \/ \E new \in Pins : ChangePin(p, new)
    \/ Reset \/ FactoryReset \/ PowerCycle

Spec == Init /\ [][Next]_vars

(***************************************************************************)
(* Properties                                                              *)
(***************************************************************************)

\* A name is stored once, wherever deletions left holes: find_oath_cred() looks
\* through all slots before PUT takes a free one.
NamesUnique == \A i, j \in Slots \ Free : cred[i].name = cred[j].name => i = j

\* A credential never answers two HOTP codes from one moving factor, nor goes
\* back, whatever is stored, deleted and locked in between.
HotpMovesOn == out # None /\ out.last # None => out.last < out.imf

\* No session outlives a change of the access code: one that is open under a code
\* was opened while that code was in force, not before it was set, whatever PINs,
\* resets of either kind and power cycles came between.  How well a session is
\* opened is not part of it: a response too short to show a key will do.
CodeClosesSessions == validated /\ code # None => under = code

\* Wrong PINs verified and tries left never exceed the tries of a fresh PIN.
TriesArePaid == pin # None => wrong + tries <= MaxTries
=============================================================================
