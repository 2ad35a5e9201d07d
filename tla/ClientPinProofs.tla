--------------------------- MODULE ClientPinProofs ---------------------------
(***************************************************************************)
(* Proofs about ClientPin and PinStorage, for every set of PINs, every     *)
(* retry limit, every width of a byte and every backlog of writes.  The    *)
(* lemmas about the steps of ClientPin assume no more than they need: some *)
(* of its invariants fail after a power cut, and PinStorage shares the     *)
(* others.                                                                 *)
(***************************************************************************)
EXTENDS PinStorage, SequenceTheorems, TLAPS

USE PinAssumption, LengthAssumption, PermAssumption, MinLenAssumption, ByteAssumption

\* A value cut to a byte is a byte, and never larger than it was.
LEMMA ByteCut ==
    ASSUME NEW n \in Nat
    PROVE  n % ByteMod \in 0 .. (ByteMod - 1) /\ n % ByteMod <= n
OBVIOUS

\* TypeOK by sort: the provers treat counters, names and flags apart.
NumbersOK ==
    /\ retries \in 0 .. MaxRetries
    /\ minPin \in 0 .. (ByteMod - 1)
    /\ new_pin_mismatches \in 0 .. (ByteMod - 1)
    /\ wrong \in Nat

NamesOK ==
    /\ pin \in PinOrNone
    /\ mkek \in Pins \cup {"plain"}
    /\ session_pin \in PinOrNone
    /\ hkey \in {"none", "fresh", "shared"}
    /\ resp \in Statuses

FlagsOK ==
    /\ forceChange \in BOOLEAN
    /\ needs_power_cycle \in BOOLEAN
    /\ paut \in Tokens

\* The type invariant, by the sort of the variables.
LEMMA TypeParts == TypeOK <=> NumbersOK /\ NamesOK /\ FlagsOK
BY DEF TypeOK, NumbersOK, NamesOK, FlagsOK

\* The initial state satisfies the inductive invariant.
LEMMA InitPinInv == Init => PinInv
<1> SUFFICES ASSUME Init PROVE PinInv
  OBVIOUS
<1>1. NumbersOK
  BY DEF Init, NumbersOK
<1>2. NamesOK
  BY DEF Init, NamesOK, PinOrNone, Statuses
<1>3. FlagsOK
  BY DEF Init, FlagsOK, Tokens, PinOrNone
<1>4. MkekFollowsPin /\ TokenHolderCanLoadKey /\ TokenFollowsPin
  BY DEF Init, MkekFollowsPin, TokenHolderCanLoadKey, TokenFollowsPin
<1>5. GuessesArePaid /\ ShortPinIsForced
  BY DEF Init, GuessesArePaid, ShortPinIsForced
<1> QED
  BY <1>1, <1>2, <1>3, <1>4, <1>5, TypeParts DEF PinInv

(***************************************************************************)
(* The steps of ClientPin                                                  *)
(***************************************************************************)

\* All that the types say of the next state.
KeepsTypes == NumbersOK' /\ NamesOK' /\ FlagsOK'

\* Every step keeps the types.
LEMMA NextTypes == ASSUME TypeOK, [Next]_vars PROVE KeepsTypes
<1> USE DEF flash, ram
<1>a. NumbersOK /\ NamesOK /\ FlagsOK
  BY TypeParts
<1>1. CASE NoEffect
  <2>1. NumbersOK'
    BY <1>1, <1>a DEF NumbersOK, NoEffect, EntryKey, Entry, ResetToken, EarlyErrors
  <2>2. NamesOK'
    BY <1>1, <1>a DEF NamesOK, PinOrNone, Statuses, NoEffect, EntryKey, Entry,
       ResetToken, EarlyErrors
  <2>3. FlagsOK'
    BY <1>1, <1>a DEF FlagsOK, NamesOK, Tokens, PinOrNone, NoEffect, EntryKey, Entry,
       ResetToken, EarlyErrors
  <2> QED
    BY <2>1, <2>2, <2>3 DEF KeepsTypes
<1>2. CASE GetKeyAgreement
  <2>1. NumbersOK'
    BY <1>2, <1>a DEF NumbersOK, GetKeyAgreement, Entry, ResetToken
  <2>2. NamesOK'
    BY <1>2, <1>a DEF NamesOK, PinOrNone, Statuses, GetKeyAgreement, Entry, ResetToken
  <2>3. FlagsOK'
    BY <1>2, <1>a DEF FlagsOK, NamesOK, Tokens, PinOrNone, GetKeyAgreement, Entry,
       ResetToken
  <2> QED
    BY <2>1, <2>2, <2>3 DEF KeepsTypes
<1>3. ASSUME NEW p \in Pins, SetPINRefused(p) PROVE KeepsTypes
  <2>1. NumbersOK'
    BY <1>3, <1>a DEF NumbersOK, SetPINRefused
  <2>2. NamesOK'
    BY <1>3, <1>a DEF NamesOK, PinOrNone, Statuses, SetPINRefused
  <2>3. FlagsOK'
    BY <1>3, <1>a DEF FlagsOK, NamesOK, Tokens, PinOrNone, SetPINRefused
  <2> QED
    BY <2>1, <2>2, <2>3 DEF KeepsTypes
<1>4. ASSUME NEW p \in Pins, SetPIN(p) PROVE KeepsTypes
  <2>1. NumbersOK'
    BY <1>4, <1>a DEF NumbersOK, SetPIN, WrapOpenMkek
  <2>2. NamesOK'
    BY <1>4, <1>a DEF NamesOK, PinOrNone, Statuses, SetPIN, WrapOpenMkek
  <2>3. FlagsOK'
    BY <1>4, <1>a DEF FlagsOK, NamesOK, Tokens, PinOrNone, SetPIN, WrapOpenMkek
  <2> QED
    BY <2>1, <2>2, <2>3 DEF KeepsTypes
<1>5. ASSUME NEW guess, Mismatch(guess) PROVE KeepsTypes
  <2>1. NumbersOK'
    <3>1. (new_pin_mismatches + 1) % ByteMod \in 0 .. (ByteMod - 1)
      BY <1>a, ByteCut DEF NumbersOK
    <3>2. new_pin_mismatches' \in 0 .. (ByteMod - 1)
      BY <1>5, <1>a, <3>1 DEF NumbersOK, Mismatch
    <3>3. retries' \in 0 .. MaxRetries /\ wrong' \in Nat
      BY <1>5, <1>a DEF NumbersOK, Mismatch, PinUsable, Spent
    <3> QED
      BY <1>5, <1>a, <3>2, <3>3 DEF NumbersOK, Mismatch
  <2>2. NamesOK'
    BY <1>5, <1>a DEF NamesOK, PinOrNone, Statuses, Mismatch, PinUsable, Spent, Entry,
       ResetToken
  <2>3. FlagsOK'
    BY <1>5, <1>a DEF FlagsOK, NamesOK, Tokens, PinOrNone, Mismatch, PinUsable, Spent,
       Entry, ResetToken
  <2> QED
    BY <2>1, <2>2, <2>3 DEF KeepsTypes
<1>6. ASSUME NEW guess \in Pins, NEW new \in Pins, ChangePIN(guess, new)
      PROVE  KeepsTypes
  <2>1. NumbersOK'
    BY <1>6, <1>a DEF NumbersOK, ChangePIN, OldPinRight, PinUsable, NewPinAcceptable,
       ResetToken
  <2>2. NamesOK'
    BY <1>6, <1>a DEF NamesOK, PinOrNone, Statuses, ChangePIN, OldPinRight, PinUsable,
       NewPinAcceptable, ResetToken
  <2>3. FlagsOK'
    BY <1>6, <1>a DEF FlagsOK, NamesOK, Tokens, PinOrNone, ChangePIN, OldPinRight,
       PinUsable, NewPinAcceptable, ResetToken
  <2> QED
    BY <2>1, <2>2, <2>3 DEF KeepsTypes
<1>7. ASSUME NEW guess \in Pins, NEW new \in Pins, ChangePINRefused(guess, new)
      PROVE  KeepsTypes
  <2>1. NumbersOK'
    BY <1>7, <1>a DEF NumbersOK, ChangePINRefused, OldPinRight, PinUsable
  <2>2. NamesOK'
    BY <1>7, <1>a DEF NamesOK, PinOrNone, Statuses, ChangePINRefused, OldPinRight,
       PinUsable
  <2>3. FlagsOK'
    BY <1>7, <1>a DEF FlagsOK, NamesOK, Tokens, PinOrNone, ChangePINRefused,
       OldPinRight, PinUsable
  <2> QED
    BY <2>1, <2>2, <2>3 DEF KeepsTypes
<1>8. CASE GetPinTokenUnreadable
  <2>1. NumbersOK'
    BY <1>8, <1>a DEF NumbersOK, GetPinTokenUnreadable, PinUsable, Spent, EntryKey,
       Entry, ResetToken
  <2>2. NamesOK'
    BY <1>8, <1>a DEF NamesOK, PinOrNone, Statuses, GetPinTokenUnreadable, PinUsable,
       Spent, EntryKey, Entry, ResetToken
  <2>3. FlagsOK'
    BY <1>8, <1>a DEF FlagsOK, NamesOK, Tokens, PinOrNone, GetPinTokenUnreadable,
       PinUsable, Spent, EntryKey, Entry, ResetToken
  <2> QED
    BY <2>1, <2>2, <2>3 DEF KeepsTypes
<1>9. ASSUME NEW guess \in Pins, NEW perms \in PermRequests, GetPinToken(guess, perms)
      PROVE  KeepsTypes
  <2>1. NumbersOK'
    BY <1>9, <1>a DEF NumbersOK, GetPinToken, OldPinRight
  <2>2. NamesOK'
    BY <1>9, <1>a DEF NamesOK, PinOrNone, Statuses, GetPinToken, OldPinRight,
       WrapOpenMkek
  <2>3. FlagsOK'
    <3>1. CASE forceChange
      BY <1>9, <1>a, <3>1 DEF FlagsOK, GetPinToken, OldPinRight
    <3>2. CASE ~forceChange
      <4>1. paut' = Grant(ResetToken(paut), guess, perms)
        BY <1>9, <3>2 DEF GetPinToken
      <4>2. paut' \in Tokens
        BY <4>1, <1>a DEF Grant, ResetToken, FlagsOK, Tokens, PinOrNone
      <4> QED
        BY <1>9, <1>a, <4>2 DEF FlagsOK, GetPinToken, OldPinRight
    <3> QED
      BY <3>1, <3>2
  <2> QED
    BY <2>1, <2>2, <2>3 DEF KeepsTypes
<1>10. ASSUME NEW n \in MinLenRequests, NEW force \in BOOLEAN, SetMinPINLength(n, force)
       PROVE  KeepsTypes
  <2>1. NumbersOK'
    <3>1. Current(n) \in Nat
      BY <1>a DEF Current, NumbersOK
    <3>2. minPin' \in 0 .. (ByteMod - 1)
      BY <1>10, <3>1, ByteCut DEF SetMinPINLength
    <3> QED
      BY <1>10, <1>a, <3>2 DEF NumbersOK, SetMinPINLength
  <2>2. NamesOK'
    BY <1>10, <1>a DEF NamesOK, PinOrNone, Statuses, SetMinPINLength, TooShortFor,
       Current
  <2>3. FlagsOK'
    BY <1>10, <1>a DEF FlagsOK, NamesOK, Tokens, PinOrNone, SetMinPINLength,
       TooShortFor, Current
  <2> QED
    BY <2>1, <2>2, <2>3 DEF KeepsTypes
<1>11. ASSUME NEW n \in MinLenRequests, SetMinPINLengthRefused(n)
       PROVE  KeepsTypes
  <2>1. NumbersOK'
    BY <1>11, <1>a DEF NumbersOK, SetMinPINLengthRefused
  <2>2. NamesOK'
    BY <1>11, <1>a DEF NamesOK, PinOrNone, Statuses, SetMinPINLengthRefused
  <2>3. FlagsOK'
    BY <1>11, <1>a DEF FlagsOK, NamesOK, Tokens, PinOrNone, SetMinPINLengthRefused
  <2> QED
    BY <2>1, <2>2, <2>3 DEF KeepsTypes
<1>12. CASE Reset
  <2>1. NumbersOK'
    BY <1>12, <1>a DEF NumbersOK, Reset
  <2>2. NamesOK'
    BY <1>12, <1>a DEF NamesOK, PinOrNone, Statuses, Reset
  <2>3. FlagsOK'
    BY <1>12, <1>a DEF FlagsOK, NamesOK, Tokens, PinOrNone, Reset
  <2> QED
    BY <2>1, <2>2, <2>3 DEF KeepsTypes
<1>13. CASE PowerCycle
  <2>1. NumbersOK'
    BY <1>13, <1>a DEF NumbersOK, PowerCycle, PowerLoss
  <2>2. NamesOK'
    BY <1>13, <1>a DEF NamesOK, PinOrNone, Statuses, PowerCycle, PowerLoss
  <2>3. FlagsOK'
    BY <1>13, <1>a DEF FlagsOK, NamesOK, Tokens, PinOrNone, PowerCycle, PowerLoss
  <2> QED
    BY <2>1, <2>2, <2>3 DEF KeepsTypes
<1>14. CASE UNCHANGED vars
  <2>1. NumbersOK'
    BY <1>14, <1>a DEF NumbersOK, vars
  <2>2. NamesOK'
    BY <1>14, <1>a DEF NamesOK, PinOrNone, Statuses, vars
  <2>3. FlagsOK'
    BY <1>14, <1>a DEF FlagsOK, NamesOK, Tokens, PinOrNone, vars
  <2> QED
    BY <2>1, <2>2, <2>3 DEF KeepsTypes
<1> QED
  BY <1>1, <1>2, <1>3, <1>4, <1>5, <1>6, <1>7, <1>8, <1>9, <1>10, <1>11, <1>12, <1>13, <1>14
     DEF Next, ChangePINMismatch, GetPinTokenMismatch

\* What a step does to the wrong guesses and the retries left: it forgets the
\* guesses, or adds none and gives no retry back, or adds one and spends one.
GuessPrice ==
    \/ wrong' = 0
    \/ wrong' = wrong /\ retries' <= retries
    \/ wrong' = wrong + 1 /\ retries' + 1 = retries

\* So no step takes retries and guesses beyond a bound of the retries.
LEMMA PriceSum ==
    ASSUME NEW r \in Nat, NEW w \in Nat, NEW r2 \in Nat, NEW w2 \in Nat, NEW bound \in Nat,
           w2 = 0 \/ (w2 = w /\ r2 <= r) \/ (w2 = w + 1 /\ r2 + 1 = r),
           r + w <= bound, r2 <= bound
    PROVE  r2 + w2 <= bound /\ (w2 # 0 => r2 + w2 <= r + w)
OBVIOUS

\* Every step pays that price.
LEMMA NextPrice == ASSUME TypeOK, [Next]_vars PROVE GuessPrice
<1> USE DEF flash, ram
<1>a. retries \in Nat /\ wrong \in Nat
  BY DEF TypeOK
<1>1. CASE NoEffect \/ GetKeyAgreement \/ PowerCycle \/ UNCHANGED vars
  BY <1>1, <1>a DEF GuessPrice, NoEffect, GetKeyAgreement, PowerCycle, vars
<1>2. CASE Reset
  BY <1>2 DEF GuessPrice, Reset
<1>3. CASE GetPinTokenUnreadable
  BY <1>3, <1>a DEF GuessPrice, GetPinTokenUnreadable, PinUsable, Spent
<1>4. ASSUME NEW p \in Pins, SetPIN(p) \/ SetPINRefused(p) PROVE GuessPrice
  BY <1>4, <1>a DEF GuessPrice, SetPIN, SetPINRefused
<1>5. ASSUME NEW guess, Mismatch(guess) PROVE GuessPrice
  BY <1>5, <1>a DEF GuessPrice, Mismatch, PinUsable, Spent
<1>6. ASSUME NEW guess, OldPinRight(guess) PROVE GuessPrice
  BY <1>6 DEF GuessPrice, OldPinRight
<1>7. ASSUME NEW n, NEW force, SetMinPINLength(n, force) \/ SetMinPINLengthRefused(n)
      PROVE  GuessPrice
  BY <1>7, <1>a DEF GuessPrice, SetMinPINLength, SetMinPINLengthRefused
<1> QED
  BY <1>1, <1>2, <1>3, <1>4, <1>5, <1>6, <1>7
     DEF Next, ChangePINMismatch, GetPinTokenMismatch, ChangePIN, ChangePINRefused, GetPinToken

\* The stored PIN opens the master key, or the key lies open.
MkekOpens == mkek \in {"plain"} \cup ({pin} \ {NoPin})

\* No command closes the master key under anything but the stored PIN.
LEMMA NextMkekOpens == ASSUME TypeOK, MkekOpens, [Next]_vars PROVE MkekOpens'
<1> USE DEF flash, ram
<1>a. NamesOK /\ MkekOpens
  BY TypeParts
<1>1. CASE NoEffect
  BY <1>1, <1>a DEF NamesOK, PinOrNone, MkekOpens, NoEffect, EntryKey, Entry,
     ResetToken, EarlyErrors
<1>2. CASE GetKeyAgreement
  BY <1>2, <1>a DEF NamesOK, PinOrNone, MkekOpens, GetKeyAgreement, Entry, ResetToken
<1>3. ASSUME NEW p \in Pins, SetPINRefused(p) PROVE MkekOpens'
  BY <1>3, <1>a DEF NamesOK, PinOrNone, MkekOpens, SetPINRefused
<1>4. ASSUME NEW p \in Pins, SetPIN(p) PROVE MkekOpens'
  BY <1>4, <1>a DEF NamesOK, PinOrNone, MkekOpens, SetPIN, WrapOpenMkek
<1>5. ASSUME NEW guess, Mismatch(guess) PROVE MkekOpens'
  BY <1>5, <1>a DEF NamesOK, PinOrNone, MkekOpens, Mismatch, PinUsable, Spent, Entry,
     ResetToken
<1>6. ASSUME NEW guess \in Pins, NEW new \in Pins, ChangePIN(guess, new)
      PROVE  MkekOpens'
  BY <1>6, <1>a DEF NamesOK, PinOrNone, MkekOpens, ChangePIN, OldPinRight, PinUsable,
     NewPinAcceptable, ResetToken
<1>7. ASSUME NEW guess \in Pins, NEW new \in Pins, ChangePINRefused(guess, new)
      PROVE  MkekOpens'
  BY <1>7, <1>a DEF NamesOK, PinOrNone, MkekOpens, ChangePINRefused, OldPinRight,
     PinUsable
<1>8. CASE GetPinTokenUnreadable
  BY <1>8, <1>a DEF NamesOK, PinOrNone, MkekOpens, GetPinTokenUnreadable, PinUsable,
     Spent, EntryKey, Entry, ResetToken
<1>9. ASSUME NEW guess \in Pins, NEW perms \in PermRequests, GetPinToken(guess, perms)
      PROVE  MkekOpens'
  BY <1>9, <1>a DEF NamesOK, PinOrNone, MkekOpens, GetPinToken, OldPinRight, PinUsable,
     WrapOpenMkek, Grant, ResetToken
<1>10. ASSUME NEW n \in MinLenRequests, NEW force \in BOOLEAN, SetMinPINLength(n, force)
       PROVE  MkekOpens'
  BY <1>10, <1>a DEF NamesOK, PinOrNone, MkekOpens, SetMinPINLength, TooShortFor,
     Current
<1>11. ASSUME NEW n \in MinLenRequests, SetMinPINLengthRefused(n)
       PROVE  MkekOpens'
  BY <1>11, <1>a DEF NamesOK, PinOrNone, MkekOpens, SetMinPINLengthRefused
<1>12. CASE Reset
  BY <1>12, <1>a DEF NamesOK, PinOrNone, MkekOpens, Reset
<1>13. CASE PowerCycle
  BY <1>13, <1>a DEF NamesOK, PinOrNone, MkekOpens, PowerCycle, PowerLoss
<1>14. CASE UNCHANGED vars
  BY <1>14, <1>a DEF NamesOK, PinOrNone, MkekOpens, vars
<1> QED
  BY <1>1, <1>2, <1>3, <1>4, <1>5, <1>6, <1>7, <1>8, <1>9, <1>10, <1>11, <1>12, <1>13, <1>14
     DEF Next, ChangePINMismatch, GetPinTokenMismatch

\* A PIN that is set or changed is long enough, and a minimum that rises above
\* the stored PIN forces a change; the byte that stores it only makes it lower.
LEMMA NextShortPin == ASSUME TypeOK, ShortPinIsForced, [Next]_vars PROVE ShortPinIsForced'
<1> USE DEF flash, ram
<1>a. NumbersOK /\ NamesOK /\ ShortPinIsForced
  BY TypeParts
<1>1. CASE NoEffect
  BY <1>1, <1>a DEF NumbersOK, NamesOK, PinOrNone, ShortPinIsForced, NoEffect,
     EntryKey, Entry, ResetToken, EarlyErrors
<1>2. CASE GetKeyAgreement
  BY <1>2, <1>a DEF NumbersOK, NamesOK, PinOrNone, ShortPinIsForced, GetKeyAgreement,
     Entry, ResetToken
<1>3. ASSUME NEW p \in Pins, SetPINRefused(p) PROVE ShortPinIsForced'
  BY <1>3, <1>a DEF NumbersOK, NamesOK, PinOrNone, ShortPinIsForced, SetPINRefused
<1>4. ASSUME NEW p \in Pins, SetPIN(p) PROVE ShortPinIsForced'
  BY <1>4, <1>a DEF NumbersOK, NamesOK, PinOrNone, ShortPinIsForced, SetPIN,
     WrapOpenMkek
<1>5. ASSUME NEW guess, Mismatch(guess) PROVE ShortPinIsForced'
  BY <1>5, <1>a DEF NumbersOK, NamesOK, PinOrNone, ShortPinIsForced, Mismatch,
     PinUsable, Spent, Entry, ResetToken
<1>6. ASSUME NEW guess \in Pins, NEW new \in Pins, ChangePIN(guess, new)
      PROVE  ShortPinIsForced'
  BY <1>6, <1>a DEF NumbersOK, NamesOK, PinOrNone, ShortPinIsForced, ChangePIN,
     OldPinRight, PinUsable, NewPinAcceptable, ResetToken
<1>7. ASSUME NEW guess \in Pins, NEW new \in Pins, ChangePINRefused(guess, new)
      PROVE  ShortPinIsForced'
  BY <1>7, <1>a DEF NumbersOK, NamesOK, PinOrNone, ShortPinIsForced, ChangePINRefused,
     OldPinRight, PinUsable
<1>8. CASE GetPinTokenUnreadable
  BY <1>8, <1>a DEF NumbersOK, NamesOK, PinOrNone, ShortPinIsForced,
     GetPinTokenUnreadable, PinUsable, Spent, EntryKey, Entry, ResetToken
<1>9. ASSUME NEW guess \in Pins, NEW perms \in PermRequests, GetPinToken(guess, perms)
      PROVE  ShortPinIsForced'
  BY <1>9, <1>a DEF NumbersOK, NamesOK, PinOrNone, ShortPinIsForced, GetPinToken,
     OldPinRight, PinUsable, WrapOpenMkek, Grant, ResetToken
<1>10. ASSUME NEW n \in MinLenRequests, NEW force \in BOOLEAN, SetMinPINLength(n, force)
       PROVE  ShortPinIsForced'
  <2>1. Current(n) \in Nat /\ minPin' \in Nat /\ minPin' <= Current(n)
    <3>1. Current(n) \in Nat
      BY <1>a DEF Current, NumbersOK
    <3> QED
      BY <1>10, <3>1, ByteCut DEF SetMinPINLength
  <2> SUFFICES ASSUME pin' # NoPin, PinLen[pin'] < minPin' PROVE forceChange'
    BY DEF ShortPinIsForced
  <2>2. pin \in Pins /\ pin' = pin
    BY <1>10, <1>a DEF SetMinPINLength, NamesOK, PinOrNone
  <2>3. PinLen[pin] < Current(n)
    BY <2>1, <2>2
  <2> QED
    BY <1>10, <2>2, <2>3 DEF SetMinPINLength, TooShortFor
<1>11. ASSUME NEW n \in MinLenRequests, SetMinPINLengthRefused(n)
       PROVE  ShortPinIsForced'
  BY <1>11, <1>a DEF NumbersOK, NamesOK, PinOrNone, ShortPinIsForced,
     SetMinPINLengthRefused
<1>12. CASE Reset
  BY <1>12, <1>a DEF NumbersOK, NamesOK, PinOrNone, ShortPinIsForced, Reset
<1>13. CASE PowerCycle
  BY <1>13, <1>a DEF NumbersOK, NamesOK, PinOrNone, ShortPinIsForced, PowerCycle,
     PowerLoss
<1>14. CASE UNCHANGED vars
  BY <1>14, <1>a DEF NumbersOK, NamesOK, PinOrNone, ShortPinIsForced, vars
<1> QED
  BY <1>1, <1>2, <1>3, <1>4, <1>5, <1>6, <1>7, <1>8, <1>9, <1>10, <1>11, <1>12, <1>13, <1>14
     DEF Next, ChangePINMismatch, GetPinTokenMismatch

\* A token in use was obtained with the stored PIN, whatever EF_AUTHTOKEN holds
\* while none is.
LEMMA NextOldToken == ASSUME TypeOK, OldTokenStaysDead, [Next]_vars PROVE OldTokenStaysDead'
<1> USE DEF flash, ram
<1>a. NamesOK /\ FlagsOK /\ OldTokenStaysDead
  BY TypeParts
<1>1. CASE NoEffect
  BY <1>1, <1>a DEF NamesOK, FlagsOK, Tokens, PinOrNone, OldTokenStaysDead, NoEffect,
     EntryKey, Entry, ResetToken, EarlyErrors
<1>2. CASE GetKeyAgreement
  BY <1>2, <1>a DEF NamesOK, FlagsOK, Tokens, PinOrNone, OldTokenStaysDead,
     GetKeyAgreement, Entry, ResetToken
<1>3. ASSUME NEW p \in Pins, SetPINRefused(p) PROVE OldTokenStaysDead'
  BY <1>3, <1>a DEF NamesOK, FlagsOK, Tokens, PinOrNone, OldTokenStaysDead,
     SetPINRefused
<1>4. ASSUME NEW p \in Pins, SetPIN(p) PROVE OldTokenStaysDead'
  BY <1>4, <1>a DEF NamesOK, FlagsOK, Tokens, PinOrNone, OldTokenStaysDead, SetPIN,
     WrapOpenMkek
<1>5. ASSUME NEW guess, Mismatch(guess) PROVE OldTokenStaysDead'
  BY <1>5, <1>a DEF NamesOK, FlagsOK, Tokens, PinOrNone, OldTokenStaysDead, Mismatch,
     PinUsable, Spent, Entry, ResetToken
<1>6. ASSUME NEW guess \in Pins, NEW new \in Pins, ChangePIN(guess, new)
      PROVE  OldTokenStaysDead'
  BY <1>6, <1>a DEF NamesOK, FlagsOK, Tokens, PinOrNone, OldTokenStaysDead, ChangePIN,
     OldPinRight, PinUsable, NewPinAcceptable, ResetToken
<1>7. ASSUME NEW guess \in Pins, NEW new \in Pins, ChangePINRefused(guess, new)
      PROVE  OldTokenStaysDead'
  BY <1>7, <1>a DEF NamesOK, FlagsOK, Tokens, PinOrNone, OldTokenStaysDead,
     ChangePINRefused, OldPinRight, PinUsable
<1>8. CASE GetPinTokenUnreadable
  BY <1>8, <1>a DEF NamesOK, FlagsOK, Tokens, PinOrNone, OldTokenStaysDead,
     GetPinTokenUnreadable, PinUsable, Spent, EntryKey, Entry, ResetToken
<1>9. ASSUME NEW guess \in Pins, NEW perms \in PermRequests, GetPinToken(guess, perms)
      PROVE  OldTokenStaysDead'
  <2>1. CASE forceChange
    BY <1>9, <1>a, <2>1 DEF NamesOK, PinOrNone, OldTokenStaysDead,
       GetPinToken, OldPinRight, WrapOpenMkek
  <2>2. CASE ~forceChange
    <3>1. paut' = Grant(ResetToken(paut), guess, perms)
      BY <1>9, <2>2 DEF GetPinToken
    <3>2. paut'.holder = guess
      BY <3>1, <1>a DEF Grant, ResetToken, FlagsOK, Tokens
    <3> QED
      BY <1>9, <1>a, <3>2 DEF NamesOK, PinOrNone, OldTokenStaysDead,
         GetPinToken, OldPinRight, WrapOpenMkek
  <2> QED
    BY <2>1, <2>2
<1>10. ASSUME NEW n \in MinLenRequests, NEW force \in BOOLEAN, SetMinPINLength(n, force)
       PROVE  OldTokenStaysDead'
  BY <1>10, <1>a DEF NamesOK, FlagsOK, Tokens, PinOrNone, OldTokenStaysDead,
     SetMinPINLength, TooShortFor, Current
<1>11. ASSUME NEW n \in MinLenRequests, SetMinPINLengthRefused(n)
       PROVE  OldTokenStaysDead'
  BY <1>11, <1>a DEF NamesOK, FlagsOK, Tokens, PinOrNone, OldTokenStaysDead,
     SetMinPINLengthRefused
<1>12. CASE Reset
  BY <1>12, <1>a DEF NamesOK, FlagsOK, Tokens, PinOrNone, OldTokenStaysDead, Reset
<1>13. CASE PowerCycle
  BY <1>13, <1>a DEF NamesOK, FlagsOK, Tokens, PinOrNone, OldTokenStaysDead,
     PowerCycle, PowerLoss
<1>14. CASE UNCHANGED vars
  BY <1>14, <1>a DEF NamesOK, FlagsOK, Tokens, PinOrNone, OldTokenStaysDead, vars
<1> QED
  BY <1>1, <1>2, <1>3, <1>4, <1>5, <1>6, <1>7, <1>8, <1>9, <1>10, <1>11, <1>12, <1>13, <1>14
     DEF Next, ChangePINMismatch, GetPinTokenMismatch

\* The key that a token's holder needs is in session_pin: a right PIN puts it
\* there, a wrong one leaves it.
LEMMA NextHolder ==
    ASSUME TypeOK, MkekOpens, OldTokenStaysDead, TokenHolderCanLoadKey, [Next]_vars
    PROVE  TokenHolderCanLoadKey'
<1> USE DEF flash, ram
<1>a. NamesOK /\ FlagsOK /\ MkekOpens /\ OldTokenStaysDead /\ TokenHolderCanLoadKey
  BY TypeParts
<1>1. CASE NoEffect
  BY <1>1, <1>a DEF NamesOK, FlagsOK, Tokens, PinOrNone, MkekOpens, OldTokenStaysDead,
     TokenHolderCanLoadKey, Loadable, NoEffect, EntryKey, Entry, ResetToken,
     EarlyErrors
<1>2. CASE GetKeyAgreement
  BY <1>2, <1>a DEF NamesOK, FlagsOK, Tokens, PinOrNone, MkekOpens, OldTokenStaysDead,
     TokenHolderCanLoadKey, Loadable, GetKeyAgreement, Entry, ResetToken
<1>3. ASSUME NEW p \in Pins, SetPINRefused(p) PROVE TokenHolderCanLoadKey'
  BY <1>3, <1>a DEF NamesOK, FlagsOK, Tokens, PinOrNone, MkekOpens, OldTokenStaysDead,
     TokenHolderCanLoadKey, Loadable, SetPINRefused
<1>4. ASSUME NEW p \in Pins, SetPIN(p) PROVE TokenHolderCanLoadKey'
  BY <1>4, <1>a DEF NamesOK, FlagsOK, Tokens, PinOrNone, MkekOpens, OldTokenStaysDead,
     TokenHolderCanLoadKey, Loadable, SetPIN, WrapOpenMkek
<1>5. ASSUME NEW guess, Mismatch(guess) PROVE TokenHolderCanLoadKey'
  BY <1>5, <1>a DEF NamesOK, FlagsOK, Tokens, PinOrNone, MkekOpens, OldTokenStaysDead,
     TokenHolderCanLoadKey, Loadable, Mismatch, PinUsable, Spent, Entry, ResetToken
<1>6. ASSUME NEW guess \in Pins, NEW new \in Pins, ChangePIN(guess, new)
      PROVE  TokenHolderCanLoadKey'
  BY <1>6, <1>a DEF NamesOK, FlagsOK, Tokens, PinOrNone, MkekOpens, OldTokenStaysDead,
     TokenHolderCanLoadKey, Loadable, ChangePIN, OldPinRight, PinUsable,
     NewPinAcceptable, ResetToken
<1>7. ASSUME NEW guess \in Pins, NEW new \in Pins, ChangePINRefused(guess, new)
      PROVE  TokenHolderCanLoadKey'
  BY <1>7, <1>a DEF NamesOK, FlagsOK, Tokens, PinOrNone, MkekOpens, OldTokenStaysDead,
     TokenHolderCanLoadKey, Loadable, ChangePINRefused, OldPinRight, PinUsable
<1>8. CASE GetPinTokenUnreadable
  BY <1>8, <1>a DEF NamesOK, FlagsOK, Tokens, PinOrNone, MkekOpens, OldTokenStaysDead,
     TokenHolderCanLoadKey, Loadable, GetPinTokenUnreadable, PinUsable, Spent,
     EntryKey, Entry, ResetToken
<1>9. ASSUME NEW guess \in Pins, NEW perms \in PermRequests, GetPinToken(guess, perms)
      PROVE  TokenHolderCanLoadKey'
  <2>1. CASE forceChange
    BY <1>9, <1>a, <2>1 DEF NamesOK, PinOrNone, MkekOpens, TokenHolderCanLoadKey, Loadable,
       GetPinToken, OldPinRight, WrapOpenMkek
  <2>2. CASE ~forceChange
    <3>1. paut' = Grant(ResetToken(paut), guess, perms)
      BY <1>9, <2>2 DEF GetPinToken
    <3>2. paut'.holder = guess
      BY <3>1, <1>a DEF Grant, ResetToken, FlagsOK, Tokens
    <3> QED
      BY <1>9, <1>a, <3>2 DEF NamesOK, PinOrNone, MkekOpens, TokenHolderCanLoadKey, Loadable,
         GetPinToken, OldPinRight, WrapOpenMkek
  <2> QED
    BY <2>1, <2>2
<1>10. ASSUME NEW n \in MinLenRequests, NEW force \in BOOLEAN, SetMinPINLength(n, force)
       PROVE  TokenHolderCanLoadKey'
  BY <1>10, <1>a DEF NamesOK, FlagsOK, Tokens, PinOrNone, MkekOpens, OldTokenStaysDead,
     TokenHolderCanLoadKey, Loadable, SetMinPINLength, TooShortFor, Current
<1>11. ASSUME NEW n \in MinLenRequests, SetMinPINLengthRefused(n)
       PROVE  TokenHolderCanLoadKey'
  BY <1>11, <1>a DEF NamesOK, FlagsOK, Tokens, PinOrNone, MkekOpens, OldTokenStaysDead,
     TokenHolderCanLoadKey, Loadable, SetMinPINLengthRefused
<1>12. CASE Reset
  BY <1>12, <1>a DEF NamesOK, FlagsOK, Tokens, PinOrNone, MkekOpens, OldTokenStaysDead,
     TokenHolderCanLoadKey, Loadable, Reset
<1>13. CASE PowerCycle
  BY <1>13, <1>a DEF NamesOK, FlagsOK, Tokens, PinOrNone, MkekOpens, OldTokenStaysDead,
     TokenHolderCanLoadKey, Loadable, PowerCycle, PowerLoss
<1>14. CASE UNCHANGED vars
  BY <1>14, <1>a DEF NamesOK, FlagsOK, Tokens, PinOrNone, MkekOpens, OldTokenStaysDead,
     TokenHolderCanLoadKey, Loadable, vars
<1> QED
  BY <1>1, <1>2, <1>3, <1>4, <1>5, <1>6, <1>7, <1>8, <1>9, <1>10, <1>11, <1>12, <1>13, <1>14
     DEF Next, ChangePINMismatch, GetPinTokenMismatch

\* While power is lost between commands only, the master key is closed as soon
\* as a PIN is stored and no token survives its PIN.
LEMMA NextFollows ==
    ASSUME TypeOK, MkekFollowsPin, TokenFollowsPin, [Next]_vars
    PROVE  MkekFollowsPin' /\ TokenFollowsPin'
<1> USE DEF flash, ram
<1>a. NamesOK /\ FlagsOK /\ MkekFollowsPin /\ TokenFollowsPin
  BY TypeParts
<1>1. CASE NoEffect
  BY <1>1, <1>a DEF NamesOK, FlagsOK, Tokens, PinOrNone, MkekFollowsPin,
     TokenFollowsPin, NoEffect, EntryKey, Entry, ResetToken, EarlyErrors
<1>2. CASE GetKeyAgreement
  BY <1>2, <1>a DEF NamesOK, FlagsOK, Tokens, PinOrNone, MkekFollowsPin,
     TokenFollowsPin, GetKeyAgreement, Entry, ResetToken
<1>3. ASSUME NEW p \in Pins, SetPINRefused(p) PROVE MkekFollowsPin' /\ TokenFollowsPin'
  BY <1>3, <1>a DEF NamesOK, FlagsOK, Tokens, PinOrNone, MkekFollowsPin,
     TokenFollowsPin, SetPINRefused
<1>4. ASSUME NEW p \in Pins, SetPIN(p) PROVE MkekFollowsPin' /\ TokenFollowsPin'
  BY <1>4, <1>a DEF NamesOK, FlagsOK, Tokens, PinOrNone, MkekFollowsPin,
     TokenFollowsPin, SetPIN, WrapOpenMkek
<1>5. ASSUME NEW guess, Mismatch(guess) PROVE MkekFollowsPin' /\ TokenFollowsPin'
  BY <1>5, <1>a DEF NamesOK, FlagsOK, Tokens, PinOrNone, MkekFollowsPin,
     TokenFollowsPin, Mismatch, PinUsable, Spent, Entry, ResetToken
<1>6. ASSUME NEW guess \in Pins, NEW new \in Pins, ChangePIN(guess, new)
      PROVE  MkekFollowsPin' /\ TokenFollowsPin'
  BY <1>6, <1>a DEF NamesOK, FlagsOK, Tokens, PinOrNone, MkekFollowsPin,
     TokenFollowsPin, ChangePIN, OldPinRight, PinUsable, NewPinAcceptable, ResetToken
<1>7. ASSUME NEW guess \in Pins, NEW new \in Pins, ChangePINRefused(guess, new)
      PROVE  MkekFollowsPin' /\ TokenFollowsPin'
  BY <1>7, <1>a DEF NamesOK, FlagsOK, Tokens, PinOrNone, MkekFollowsPin,
     TokenFollowsPin, ChangePINRefused, OldPinRight, PinUsable
<1>8. CASE GetPinTokenUnreadable
  BY <1>8, <1>a DEF NamesOK, FlagsOK, Tokens, PinOrNone, MkekFollowsPin,
     TokenFollowsPin, GetPinTokenUnreadable, PinUsable, Spent, EntryKey, Entry,
     ResetToken
<1>9. ASSUME NEW guess \in Pins, NEW perms \in PermRequests, GetPinToken(guess, perms)
      PROVE  MkekFollowsPin' /\ TokenFollowsPin'
  <2>1. guess = pin /\ pin' = pin /\ mkek' = pin
    BY <1>9, <1>a DEF GetPinToken, OldPinRight, WrapOpenMkek, MkekFollowsPin
  <2>2. paut'.holder \in {paut.holder, pin}
    <3>1. CASE forceChange
      BY <1>9, <3>1 DEF GetPinToken
    <3>2. CASE ~forceChange
      <4>1. paut' = Grant(ResetToken(paut), guess, perms)
        BY <1>9, <3>2 DEF GetPinToken
      <4> QED
        BY <4>1, <2>1, <1>a DEF Grant, ResetToken, FlagsOK, Tokens
    <3> QED
      BY <3>1, <3>2
  <2> QED
    BY <1>9, <1>a, <2>1, <2>2 DEF NamesOK, PinOrNone, MkekFollowsPin, TokenFollowsPin
<1>10. ASSUME NEW n \in MinLenRequests, NEW force \in BOOLEAN, SetMinPINLength(n, force)
       PROVE  MkekFollowsPin' /\ TokenFollowsPin'
  BY <1>10, <1>a DEF NamesOK, FlagsOK, Tokens, PinOrNone, MkekFollowsPin,
     TokenFollowsPin, SetMinPINLength, TooShortFor, Current
<1>11. ASSUME NEW n \in MinLenRequests, SetMinPINLengthRefused(n)
       PROVE  MkekFollowsPin' /\ TokenFollowsPin'
  BY <1>11, <1>a DEF NamesOK, FlagsOK, Tokens, PinOrNone, MkekFollowsPin,
     TokenFollowsPin, SetMinPINLengthRefused
<1>12. CASE Reset
  BY <1>12, <1>a DEF NamesOK, FlagsOK, Tokens, PinOrNone, MkekFollowsPin,
     TokenFollowsPin, Reset
<1>13. CASE PowerCycle
  BY <1>13, <1>a DEF NamesOK, FlagsOK, Tokens, PinOrNone, MkekFollowsPin,
     TokenFollowsPin, PowerCycle, PowerLoss
<1>14. CASE UNCHANGED vars
  BY <1>14, <1>a DEF NamesOK, FlagsOK, Tokens, PinOrNone, MkekFollowsPin,
     TokenFollowsPin, vars
<1> QED
  BY <1>1, <1>2, <1>3, <1>4, <1>5, <1>6, <1>7, <1>8, <1>9, <1>10, <1>11, <1>12, <1>13, <1>14
     DEF Next, ChangePINMismatch, GetPinTokenMismatch

\* Every command, and every loss of power, preserves the inductive invariant.
LEMMA NextPinInv == PinInv /\ [Next]_vars => PinInv'
<1> SUFFICES ASSUME PinInv, [Next]_vars PROVE PinInv'
  OBVIOUS
<1>1. TypeOK' /\ GuessesArePaid'
  <2>1. TypeOK'
    BY NextTypes DEF PinInv, KeepsTypes, TypeOK, NumbersOK, NamesOK, FlagsOK
  <2>2. GuessPrice
    BY NextPrice DEF PinInv
  <2>3. /\ retries \in Nat /\ wrong \in Nat /\ MaxRetries \in Nat
        /\ retries' \in Nat /\ retries' <= MaxRetries /\ wrong' \in Nat
    BY <2>1 DEF PinInv, TypeOK
  <2>4. retries + wrong <= MaxRetries
    BY DEF PinInv, GuessesArePaid
  <2>5. retries' + wrong' <= MaxRetries
    BY <2>2, <2>3, <2>4, PriceSum DEF GuessPrice
  <2>6. GuessesArePaid'
    BY <2>5 DEF GuessesArePaid
  <2> QED
    BY <2>1, <2>6
<1>2. MkekFollowsPin' /\ TokenFollowsPin'
  BY NextFollows DEF PinInv
<1>3. MkekOpens /\ OldTokenStaysDead
  BY DEF PinInv, TypeOK, PinOrNone, MkekFollowsPin, TokenFollowsPin, MkekOpens, OldTokenStaysDead
<1>4. TokenHolderCanLoadKey'
  BY <1>3, NextHolder DEF PinInv
<1>5. ShortPinIsForced'
  BY NextShortPin DEF PinInv
<1> QED
  BY <1>1, <1>2, <1>4, <1>5 DEF PinInv

\* PinInv holds in every reachable state: the master key stays wrapped under
\* the stored PIN, a token belongs to the stored PIN and opens the key, every
\* compared guess was paid for, and a short PIN is under a forced change.
THEOREM PinInvariant == Spec => []PinInv
BY InitPinInv, NextPinInv, PTL DEF Spec

\* The variables of cbor_client_pin.c keep their types (no counter leaves its range).
THEOREM TypeCorrect == Spec => []TypeOK
<1>1. PinInv => TypeOK
  BY DEF PinInv
<1> QED
  BY <1>1, PinInvariant, PTL

\* Whatever the order of commands, the stored PIN opens the master key.
THEOREM MkekRecoverable == Spec => []MkekFollowsPin
<1>1. PinInv => MkekFollowsPin
  BY DEF PinInv
<1> QED
  BY <1>1, PinInvariant, PTL

\* A token that verifies was earned with the PIN stored now, whatever was
\* changed, refused, reset or powered off since.
THEOREM TokenBelongsToPin == Spec => []TokenFollowsPin
<1>1. PinInv => TokenFollowsPin
  BY DEF PinInv
<1> QED
  BY <1>1, PinInvariant, PTL

\* changePIN and getPinToken together never compare more guesses than retries.
THEOREM GuessesBounded == Spec => []GuessesArePaid
<1>1. PinInv => GuessesArePaid
  BY DEF PinInv
<1> QED
  BY <1>1, PinInvariant, PTL

\* Whoever holds the token of this power session can use the device key,
\* whatever other platforms guessed, changed or reset since.
THEOREM TokenHolderLoads == Spec => []TokenHolderCanLoadKey
<1>1. PinInv => TokenHolderCanLoadKey
  BY DEF PinInv
<1> QED
  BY <1>1, PinInvariant, PTL

\* A stored PIN below the minimum is under a forced change, in whichever order
\* the two were set and although the minimum is cut to a byte.
THEOREM ShortPinsAreForced == Spec => []ShortPinIsForced
<1>1. PinInv => ShortPinIsForced
  BY DEF PinInv
<1> QED
  BY <1>1, PinInvariant, PTL

(***************************************************************************)
(* ClientPin implements PinGate                                            *)
(***************************************************************************)

\* A factory-new device shows a factory-new gate.
LEMMA InitGate == Init => Gate!Init
BY DEF Init, Gate!Init

\* A step of ClientPin is a step of the gate, or leaves PIN, budget and token alone.
LEMMA NextGate == PinInv /\ [Next]_vars => [Gate!Next]_(Gate!gateVars)
<1> SUFFICES ASSUME PinInv, [Next]_vars PROVE [Gate!Next]_(Gate!gateVars)
  OBVIOUS
<1> USE DEF flash, ram, Gate!gateVars
<1>a. pin \in PinOrNone /\ mkek = (IF pin = NoPin THEN "plain" ELSE pin)
      /\ paut.holder \in {NoPin, pin} /\ paut \in Tokens
  BY DEF PinInv, TypeOK, MkekFollowsPin, TokenFollowsPin
<1>b. Entry(paut).holder \in {paut.holder, NoPin}
  BY <1>a DEF Entry, ResetToken, Tokens
<1>c. ASSUME UNCHANGED <<pin, retries>>, paut'.holder \in {paut.holder, NoPin}
      PROVE  [Gate!Next]_(Gate!gateVars)
  BY <1>c DEF Gate!Next, Gate!Forget
<1>1. CASE NoEffect
  BY <1>1, <1>b, <1>c DEF NoEffect
<1>2. CASE GetKeyAgreement
  BY <1>2, <1>b, <1>c DEF GetKeyAgreement
<1>3. ASSUME NEW p \in Pins, SetPINRefused(p) PROVE [Gate!Next]_(Gate!gateVars)
  BY <1>3, <1>c DEF SetPINRefused
<1>4. ASSUME NEW p \in Pins, SetPIN(p) PROVE [Gate!Next]_(Gate!gateVars)
  <2>1. Gate!Choose(p)
    BY <1>4 DEF SetPIN, Gate!Choose
  <2> QED
    BY <2>1 DEF Gate!Next
<1>5. ASSUME NEW guess, Mismatch(guess) PROVE [Gate!Next]_(Gate!gateVars)
  <2>1. Gate!Fail
    BY <1>5, <1>b DEF Mismatch, PinUsable, Spent, Gate!Fail
  <2> QED
    BY <2>1 DEF Gate!Next
<1>6. ASSUME NEW guess \in Pins, NEW new \in Pins, ChangePIN(guess, new)
      PROVE  [Gate!Next]_(Gate!gateVars)
  <2>1. paut'.holder = NoPin
    BY <1>6, <1>a DEF ChangePIN, ResetToken, Tokens
  <2>2. Gate!Replace(new)
    BY <1>6, <2>1 DEF ChangePIN, OldPinRight, PinUsable, Gate!Replace
  <2> QED
    BY <2>2 DEF Gate!Next
<1>7. ASSUME NEW guess \in Pins, NEW new \in Pins, ChangePINRefused(guess, new)
      PROVE  [Gate!Next]_(Gate!gateVars)
  <2>1. Gate!Prove
    BY <1>7 DEF ChangePINRefused, OldPinRight, PinUsable, Gate!Prove
  <2> QED
    BY <2>1 DEF Gate!Next
<1>8. CASE GetPinTokenUnreadable
  <2>1. Gate!Fail
    BY <1>8, <1>b DEF GetPinTokenUnreadable, PinUsable, Spent, Gate!Fail
  <2> QED
    BY <2>1 DEF Gate!Next
<1>9. ASSUME NEW guess \in Pins, NEW perms \in PermRequests, GetPinToken(guess, perms)
      PROVE  [Gate!Next]_(Gate!gateVars)
  <2>1. paut'.holder \in {paut.holder, pin}
    <3>1. CASE forceChange
      BY <1>9, <3>1 DEF GetPinToken
    <3>2. CASE ~forceChange
      BY <1>9, <3>2, <1>a DEF GetPinToken, OldPinRight, Grant, ResetToken, Tokens
    <3> QED
      BY <3>1, <3>2
  <2>2. Gate!Prove
    BY <1>9, <2>1 DEF GetPinToken, OldPinRight, PinUsable, Gate!Prove
  <2> QED
    BY <2>2 DEF Gate!Next
<1>10. ASSUME NEW n \in MinLenRequests, NEW force \in BOOLEAN, SetMinPINLength(n, force)
       PROVE  [Gate!Next]_(Gate!gateVars)
  BY <1>10, <1>c DEF SetMinPINLength
<1>11. ASSUME NEW n \in MinLenRequests, SetMinPINLengthRefused(n)
       PROVE  [Gate!Next]_(Gate!gateVars)
  BY <1>11, <1>c DEF SetMinPINLengthRefused
<1>12. CASE Reset
  <2>1. Gate!Erase
    BY <1>12, <1>a DEF Reset, Tokens, Gate!Erase
  <2> QED
    BY <2>1 DEF Gate!Next
<1>13. CASE PowerCycle
  BY <1>13, <1>a, <1>c DEF PowerCycle, PowerLoss, Tokens
<1>14. CASE UNCHANGED vars
  BY <1>14, <1>c DEF vars
<1> QED
  BY <1>1, <1>2, <1>3, <1>4, <1>5, <1>6, <1>7, <1>8, <1>9, <1>10, <1>11, <1>12, <1>13, <1>14
     DEF Next, ChangePINMismatch, GetPinTokenMismatch

\* Every behaviour of the PIN commands is one the abstract gate allows.
THEOREM ImplementsGate == Spec => GateSpec
<1>1. []PinInv /\ [][Next]_vars => [][Gate!Next]_(Gate!gateVars)
  BY NextGate, PTL
<1> QED
  BY <1>1, InitGate, PinInvariant, PTL DEF Spec, GateSpec, Gate!Spec

(***************************************************************************)
(* PinStorage: what a power cut may leave                                  *)
(*                                                                         *)
(* What holds of the files as the program reads them holds of every        *)
(* release on its way to the flash, and so of whatever a cut leaves: the   *)
(* inductive invariant speaks of contents, wherever they are.              *)
(***************************************************************************)

Contents ==
    [pin    : [value : PinOrNone, retries : 0 .. MaxRetries],
     minpin : [min : 0 .. (ByteMod - 1), force : BOOLEAN],
     mkek   : Pins \cup {"plain"},
     token  : PinOrNone,
     torn   : BOOLEAN]

Recoverable(c) == ~c.torn => c.mkek \in {"plain"} \cup ({c.pin.value} \ {NoPin})
ForcedIn(c) ==
    ~c.torn /\ c.pin.value # NoPin /\ PinLen[c.pin.value] < c.minpin.min => c.minpin.force

Sound == {c \in Contents : Recoverable(c) /\ ForcedIn(c)}

FilesInv ==
    /\ TypeOK
    /\ OldTokenStaysDead
    /\ torn \in BOOLEAN
    /\ MkekSurvivesCuts
    /\ ShortPinForcedAcrossCuts

\* Where a cut after k releases would leave the retries: it gives back no more
\* guesses than it loses releases.
Owed ==
    /\ lost \in Nat
    /\ PaidAcrossCuts
    /\ flashed.pin.retries + wrong <= MaxRetries + lost + Len(pending)
    /\ \A k \in 1 .. Len(pending) :
           pending[k].pin.retries + wrong <= MaxRetries + lost + (Len(pending) - k)

CutInv == FilesInv /\ flashed \in Sound /\ pending \in Seq(Sound) /\ Owed

\* The present files are sound.
LEMMA FilesSound == FilesInv => Files \in Sound
<1> SUFFICES ASSUME FilesInv PROVE Files \in Sound
  OBVIOUS
<1>1. Files \in Contents
  BY DEF FilesInv, TypeOK, Tokens, Files, Contents
<1>2. Recoverable(Files) /\ ForcedIn(Files)
  BY DEF FilesInv, Files, Recoverable, ForcedIn, MkekSurvivesCuts,
     ShortPinForcedAcrossCuts, ShortPinIsForced
<1> QED
  BY <1>1, <1>2 DEF Sound

\* So are the files after a step that keeps them.
LEMMA FilesSoundNext == FilesInv' => Files' \in Sound
<1> SUFFICES ASSUME FilesInv' PROVE Files' \in Sound
  OBVIOUS
<1>1. Files' \in Contents
  BY DEF FilesInv, TypeOK, Tokens, Files, Contents
<1>2. Recoverable(Files') /\ ForcedIn(Files')
  BY DEF FilesInv, Files, Recoverable, ForcedIn, MkekSurvivesCuts,
     ShortPinForcedAcrossCuts, ShortPinIsForced
<1> QED
  BY <1>1, <1>2 DEF Sound

\* A command, and a reset, keep the files sound.
LEMMA FilesStep == ASSUME FilesInv, Command \/ Erase PROVE FilesInv'
<1>1. [Next]_vars
  BY DEF Command, Erase, Next
<1>3. TypeOK'
  BY <1>1, NextTypes DEF FilesInv, KeepsTypes, TypeOK, NumbersOK, NamesOK, FlagsOK
<1>4. OldTokenStaysDead'
  BY <1>1, NextOldToken DEF FilesInv
<1>5. torn' \in BOOLEAN
  BY DEF FilesInv, Command, Erase
<1>6. MkekSurvivesCuts'
  <2>1. CASE Command
    BY <2>1, <1>1, NextMkekOpens DEF FilesInv, Command, MkekSurvivesCuts, MkekOpens
  <2>2. CASE Erase
    BY <2>2 DEF Erase, Reset, MkekSurvivesCuts
  <2> QED
    BY <2>1, <2>2
<1>7. ShortPinForcedAcrossCuts'
  <2>1. CASE Command
    BY <2>1, <1>1, NextShortPin DEF FilesInv, Command, ShortPinForcedAcrossCuts
  <2>2. CASE Erase
    BY <2>2 DEF Erase, Reset, ShortPinForcedAcrossCuts, ShortPinIsForced
  <2> QED
    BY <2>1, <2>2
<1> QED
  BY <1>3, <1>4, <1>5, <1>6, <1>7 DEF FilesInv

\* What a command releases is sound if each of its releases is.
LEMMA ReleaseStep ==
    ASSUME CutInv, NEW stages \in Seq(Sound), Release(stages)
    PROVE  flashed' \in Sound /\ pending' \in Seq(Sound)
BY DEF CutInv, Release

\* The releases of a command that adds to the wrong guesses come with the price.
Priced(stages) ==
    \/ wrong' = 0
    \/ /\ wrong' <= wrong + Len(stages)
       /\ \A j \in 1 .. Len(stages) :
              stages[j].pin.retries + wrong' <= retries + wrong + (Len(stages) - j)

\* A release queued earlier leaves no more than the releases after it.
LEMMA EarlierRelease ==
    ASSUME NEW left \in Nat, NEW before \in Nat, NEW after \in Nat, NEW limit \in Nat,
           NEW behind \in Nat, NEW added \in Nat,
           left + before <= limit + behind, after <= before + added
    PROVE  left + after <= limit + (behind + added)
OBVIOUS

\* Without wrong guesses the limit of the retries is enough.
LEMMA NothingWrong ==
    ASSUME NEW r \in Nat, NEW limit \in Nat, NEW w, NEW l, r <= limit, w = 0, l = 0
    PROVE  r + w <= limit + l
OBVIOUS

\* A release of the command's own.
LEMMA OwnRelease ==
    ASSUME NEW left \in Nat, NEW before \in Nat, NEW after \in Nat, NEW limit \in Nat,
           NEW behind \in Nat, NEW now \in Nat,
           left + after <= now + before + behind, now + before <= limit
    PROVE  left + after <= limit + behind
OBVIOUS

\* So a cut among them gives back no more guesses than it loses releases.
LEMMA OwedStep ==
    ASSUME CutInv, NEW stages \in Seq(Sound), Release(stages), Priced(stages), Lose(0),
           TypeOK', GuessPrice
    PROVE  Owed'
<1>1. /\ lost \in Nat /\ wrong \in Nat /\ wrong' \in Nat /\ MaxRetries \in Nat
      /\ retries \in Nat /\ retries' \in Nat /\ retries' <= MaxRetries
  BY DEF CutInv, FilesInv, Owed, TypeOK
<1>2. /\ flashed' = flashed /\ pending' = pending \o stages
      /\ pending \in Seq(Sound) /\ Len(pending) \in Nat /\ Len(stages) \in Nat
      /\ pending' \in Seq(Sound) /\ Len(pending') = Len(pending) + Len(stages)
  BY DEF CutInv, Release
<1>3. ASSUME NEW c \in Sound PROVE c.pin.retries \in 0 .. MaxRetries
  BY DEF Sound, Contents
<1> DEFINE limit == MaxRetries + lost
<1>4. limit \in Nat
  BY <1>1
<1>5. CASE wrong' = 0
  <2>1. lost' = 0
    BY <1>5 DEF Lose
  <2>2. flashed'.pin.retries \in 0 .. MaxRetries
    BY <1>2, <1>3 DEF CutInv
  <2>3. PaidAcrossCuts' /\ lost' \in Nat
    <3>1. retries' + wrong' <= MaxRetries + lost'
      BY <1>1, <1>5, <2>1, NothingWrong
    <3> QED
      BY <2>1, <3>1 DEF PaidAcrossCuts
  <2>4. flashed'.pin.retries + wrong' <= MaxRetries + lost' + Len(pending')
    BY <1>1, <1>2, <1>5, <2>1, <2>2
  <2>5. ASSUME NEW k \in 1 .. Len(pending')
        PROVE  pending'[k].pin.retries + wrong' <= MaxRetries + lost' + (Len(pending') - k)
    <3>1. pending'[k].pin.retries \in 0 .. MaxRetries
      BY <1>2, <1>3
    <3>2. Len(pending') - k \in Nat
      BY <1>2
    <3> QED
      BY <1>1, <1>5, <2>1, <3>1, <3>2
  <2> QED
    BY <2>3, <2>4, <2>5 DEF Owed
<1>6. CASE wrong' # 0
  <2>1. lost' = lost
    BY <1>1, <1>6 DEF Lose
  <2>3. retries + wrong <= limit
    BY DEF CutInv, Owed, PaidAcrossCuts
  <2>2. retries' + wrong' <= limit
    <3>1. retries' <= limit
      BY <1>1
    <3> HIDE DEF limit
    <3> QED
      BY <1>1, <1>4, <2>3, <3>1, PriceSum DEF GuessPrice
  <2>4. wrong' <= wrong + Len(stages)
    BY <1>6 DEF Priced
  <2>5. PaidAcrossCuts' /\ lost' \in Nat
    BY <1>1, <2>1, <2>2 DEF PaidAcrossCuts
  <2>6. flashed'.pin.retries + wrong' <= limit + Len(pending')
    <3>1. flashed.pin.retries \in Nat
      BY <1>1, <1>3 DEF CutInv
    <3>2. flashed.pin.retries + wrong <= limit + Len(pending)
      BY DEF CutInv, Owed
    <3> HIDE DEF limit
    <3> QED
      BY <1>1, <1>2, <1>4, <2>4, <3>1, <3>2, EarlierRelease
  <2>7. ASSUME NEW k \in 1 .. Len(pending')
        PROVE  pending'[k].pin.retries + wrong' <= limit + (Len(pending') - k)
    <3>1. CASE k <= Len(pending)
      <4>1. pending'[k] = pending[k] /\ pending[k].pin.retries \in Nat
        BY <1>1, <1>2, <1>3, <3>1
      <4>2. pending[k].pin.retries + wrong <= limit + (Len(pending) - k)
        BY <3>1 DEF CutInv, Owed
      <4>3. Len(pending) - k \in Nat /\ Len(pending') - k = (Len(pending) - k) + Len(stages)
        BY <1>2, <3>1
      <4> HIDE DEF limit
      <4>4. PICK behind \in Nat : behind = Len(pending) - k
        BY <4>3
      <4>5. pending[k].pin.retries + wrong' <= limit + (behind + Len(stages))
        BY <1>1, <1>2, <1>4, <2>4, <4>1, <4>2, <4>4, EarlierRelease
      <4> QED
        BY <4>1, <4>3, <4>4, <4>5
    <3>2. CASE k > Len(pending)
      <4> DEFINE j == k - Len(pending)
      <4>1. j \in 1 .. Len(stages) /\ pending'[k] = stages[j]
        BY <1>2, <3>2
      <4>2. stages[j].pin.retries + wrong' <= retries + wrong + (Len(stages) - j)
        BY <4>1, <1>6 DEF Priced
      <4>3. stages[j].pin.retries \in Nat
        BY <1>1, <1>3, <4>1
      <4>4. Len(stages) - j = Len(pending') - k /\ Len(stages) - j \in Nat
        BY <1>2, <4>1
      <4> HIDE DEF j, limit
      <4>5. stages[j].pin.retries + wrong' <= limit + (Len(stages) - j)
        BY <1>1, <1>4, <2>3, <4>2, <4>3, <4>4, OwnRelease
      <4> QED
        BY <4>1, <4>4, <4>5
    <3> QED
      BY <3>1, <3>2, <1>2
  <2> QED
    BY <2>1, <2>5, <2>6, <2>7 DEF Owed
<1> QED
  BY <1>5, <1>6

\* A release that is made only under a condition is sound if it is sound then.
LEMMA OnlySound ==
    ASSUME NEW c, NEW file, c => file \in Sound
    PROVE  Only(c, file) \in Seq(Sound)
BY DEF Only

\* A new token in EF_AUTHTOKEN touches none of the other files.
LEMMA TokenSound ==
    ASSUME NEW c \in Sound, NEW holder \in PinOrNone
    PROVE  [c EXCEPT !.token = holder] \in Sound
BY DEF Sound, Contents, Recoverable, ForcedIn

\* The token is replaced first, when the applet is entered.
LEMMA EntrySound == FilesInv => EntryReleases \in Seq(Sound)
<1> SUFFICES ASSUME FilesInv PROVE EntryReleases \in Seq(Sound)
  OBVIOUS
<1>1. [Files EXCEPT !.token = NoPin] \in Sound
  BY FilesSound, TokenSound DEF PinOrNone
<1> QED
  BY <1>1, OnlySound DEF EntryReleases

\* setPIN writes the PIN while the master key still lies open.
LEMMA SetPINSound ==
    ASSUME FilesInv, FilesInv', NEW p \in Pins, SetPIN(p), UNCHANGED torn
    PROVE  SetPINReleases(p) \in Seq(Sound)
<1>1. Files \in Sound /\ Files' \in Sound
  BY FilesSound, FilesSoundNext
<1> DEFINE first == [Files EXCEPT !.pin = Files'.pin]
<1>2. first \in Sound
  <2>1. first.pin = Files'.pin /\ first.minpin = Files.minpin /\ first.mkek = mkek
        /\ first.token = paut.holder /\ first.torn = torn
    BY DEF Files
  <2>2. first \in Contents
    BY <1>1 DEF Sound, Contents
  <2>3. ForcedIn(first)
    <3>1. first.minpin = Files'.minpin /\ first.torn = Files'.torn
      BY <2>1 DEF SetPIN, Files
    <3> QED
      BY <1>1, <2>1, <3>1 DEF Sound, ForcedIn
  <2>4. Recoverable(first)
    <3>1. ~torn => mkek = "plain"
      BY DEF FilesInv, MkekSurvivesCuts, SetPIN
    <3> QED
      BY <2>1, <3>1 DEF Recoverable
  <2> QED
    BY <2>2, <2>3, <2>4 DEF Sound
<1> HIDE DEF first
<1>3. Only(mkek = "plain", Files') \in Seq(Sound)
  BY <1>1, OnlySound
<1>4. <<first>> \in Seq(Sound)
  BY <1>2
<1> QED
  BY <1>3, <1>4 DEF SetPINReleases, first

\* A wrong guess.
LEMMA MismatchSound == FilesInv /\ FilesInv' => MismatchReleases \in Seq(Sound)
<1> SUFFICES ASSUME FilesInv, FilesInv' PROVE MismatchReleases \in Seq(Sound)
  OBVIOUS
<1>1. Files' \in Sound
  BY FilesSoundNext
<1> QED
  BY <1>1, EntrySound DEF MismatchReleases

\* A retry spent before the comparison, and the retries given back after a
\* right one, leave the other files alone.
LEMMA PaidSound ==
    ASSUME FilesInv, PinUsable
    PROVE  Paid \in Sound /\ Repaid \in Sound
<1>1. Files \in Sound
  BY FilesSound
<1>2. Spent \in 0 .. MaxRetries /\ Spent <= retries /\ MaxRetries \in 0 .. MaxRetries
  BY DEF FilesInv, TypeOK, PinUsable, Spent
<1>3. /\ Paid.pin = [value |-> pin, retries |-> Spent]
      /\ Repaid.pin = [value |-> pin, retries |-> MaxRetries]
      /\ Paid.minpin = Files.minpin /\ Repaid.minpin = Files.minpin
      /\ Paid.mkek = Files.mkek /\ Repaid.mkek = Files.mkek
      /\ Paid.torn = Files.torn /\ Repaid.torn = Files.torn
      /\ Files.pin = [value |-> pin, retries |-> retries]
  BY DEF Paid, Repaid, Files
<1>4. Paid \in Contents /\ Repaid \in Contents
  BY <1>1, <1>2, <1>3 DEF Sound, Contents, Paid, Repaid
<1>5. Recoverable(Paid) /\ Recoverable(Repaid) /\ ForcedIn(Paid) /\ ForcedIn(Repaid)
  BY <1>1, <1>3 DEF Sound, Recoverable, ForcedIn
<1> QED
  BY <1>4, <1>5 DEF Sound

\* changePIN: the new PIN and the master key under it come in one release, and
\* the force flag is cleared after them.
LEMMA ChangePINSound ==
    ASSUME FilesInv, FilesInv', UNCHANGED torn,
           NEW guess \in Pins, NEW new \in Pins, ChangePIN(guess, new)
    PROVE  ChangePINReleases(new) \in Seq(Sound)
<1>1. Paid \in Sound /\ Repaid \in Sound /\ Files' \in Sound
  BY FilesSoundNext, PaidSound DEF ChangePIN, OldPinRight
<1> DEFINE changed == [Repaid EXCEPT !.pin.value = new, !.mkek = new]
<1>2. changed \in Sound
  <2>1. /\ changed.pin = [value |-> new, retries |-> MaxRetries]
        /\ changed.minpin = [min |-> minPin, force |-> forceChange]
        /\ changed.mkek = new /\ changed.token = paut.holder /\ changed.torn = torn
    BY DEF Repaid, Files
  <2>2. changed \in Contents
    BY <1>1 DEF Sound, Contents, PinOrNone
  <2>3. Recoverable(changed)
    BY <2>1 DEF Recoverable
  <2>4. minPin <= PinLen[new]
    BY DEF ChangePIN, NewPinAcceptable
  <2>5. ForcedIn(changed)
    BY <2>1, <2>4 DEF ForcedIn, FilesInv, TypeOK
  <2> QED
    BY <2>2, <2>3, <2>5 DEF Sound
<1>3. [Files' EXCEPT !.token = paut.holder] \in Sound
  BY <1>1, TokenSound DEF FilesInv, TypeOK, Tokens
<1> HIDE DEF changed
<1>4. /\ <<Paid, Repaid>> \in Seq(Sound) /\ <<changed>> \in Seq(Sound) /\ <<Files'>> \in Seq(Sound)
      /\ Only(forceChange, [Files' EXCEPT !.token = paut.holder]) \in Seq(Sound)
  BY <1>1, <1>2, <1>3, OnlySound DEF FilesInv, TypeOK
<1> QED
  BY <1>4 DEF ChangePINReleases, changed

\* getPinToken: an open master key is wrapped under the PIN just proved.
LEMMA GetPinTokenSound ==
    ASSUME FilesInv, FilesInv', UNCHANGED torn,
           NEW guess \in Pins, NEW perms \in PermRequests, GetPinToken(guess, perms)
    PROVE  GetPinTokenReleases(guess) \in Seq(Sound)
<1>1. Paid \in Sound /\ Repaid \in Sound /\ Files' \in Sound
  BY FilesSoundNext, PaidSound DEF GetPinToken, OldPinRight
<1>2. guess = pin /\ pin' = pin /\ mkek' \in {guess, mkek} /\ (mkek = "plain" => mkek' = guess)
  BY DEF GetPinToken, OldPinRight, WrapOpenMkek
<1>3. ASSUME NEW c \in {Paid, Repaid}, NEW k \in {guess, mkek}
      PROVE  [c EXCEPT !.mkek = k] \in Sound
  <2>1. c \in Sound /\ c.mkek = mkek /\ c.pin.value = pin
    BY <1>1 DEF Paid, Repaid, Files
  <2>2. k \in Pins \cup {"plain"}
    BY DEF FilesInv, TypeOK
  <2> QED
    BY <1>2, <2>1, <2>2 DEF Sound, Contents, Recoverable, ForcedIn
<1>4. [Paid EXCEPT !.mkek = guess] \in Sound /\ [Repaid EXCEPT !.mkek = mkek'] \in Sound
  BY <1>2, <1>3
<1>5. Only(mkek = "plain", [Paid EXCEPT !.mkek = guess]) \in Seq(Sound)
  BY <1>4, OnlySound
<1>6. Only(~forceChange, Files') \in Seq(Sound)
  BY <1>1, OnlySound
<1>7. <<Paid>> \in Seq(Sound) /\ <<[Repaid EXCEPT !.mkek = mkek']>> \in Seq(Sound)
  BY <1>1, <1>4
<1> QED
  BY <1>5, <1>6, <1>7 DEF GetPinTokenReleases

\* Two releases, one after the other.
LEMMA Queued ==
    ASSUME NEW a, NEW b
    PROVE  /\ Len(<<a>> \o <<b>>) = 2
           /\ (<<a>> \o <<b>>)[1] = a /\ (<<a>> \o <<b>>)[2] = b
<1>1. <<a>> \in Seq({a, b}) /\ <<b>> \in Seq({a, b})
  OBVIOUS
<1>2. Len(<<a>>) = 1 /\ Len(<<b>>) = 1 /\ <<a>>[1] = a /\ <<b>>[1] = b
  OBVIOUS
<1> QED
  BY <1>1, <1>2, ConcatProperties

\* One that is not the last of two is the first.
LEMMA FirstOfTwo ==
    ASSUME NEW n, n = 1 \/ n = 2, NEW j \in 1 .. n, j # n
    PROVE  n = 2 /\ j = 1
OBVIOUS

\* The release before the spent retry owes one guess more.
LEMMA OneMore ==
    ASSUME NEW r \in Nat, NEW w \in Nat, NEW w2 \in Nat, w2 <= w + 1, NEW x, x = r, NEW n, n = 1
    PROVE  x + w2 <= r + w + n
OBVIOUS

\* A release that spends the retry, after one that leaves the retries alone.
LEMMA SpentPriced ==
    ASSUME NEW stages, retries \in Nat, wrong \in Nat, retries' \in Nat, wrong' \in Nat,
           \/ Len(stages) = 1 /\ stages[1].pin.retries = retries'
           \/ /\ Len(stages) = 2
              /\ stages[1].pin.retries = retries /\ stages[2].pin.retries = retries',
           wrong' <= wrong + 1, retries' + wrong' <= retries + wrong
    PROVE  Priced(stages)
<1>1. wrong' <= wrong + Len(stages)
  OBVIOUS
<1>2. ASSUME NEW j \in 1 .. Len(stages)
      PROVE  stages[j].pin.retries + wrong' <= retries + wrong + (Len(stages) - j)
  <2>1. CASE j = Len(stages)
    <3>1. stages[j].pin.retries = retries' /\ Len(stages) - j = 0
      BY <2>1
    <3> QED
      BY <3>1
  <2>2. CASE j # Len(stages)
    <3>1. Len(stages) = 2 /\ j = 1
      <4>1. Len(stages) = 1 \/ Len(stages) = 2
        OBVIOUS
      <4> QED
        BY <2>2, <4>1, FirstOfTwo
    <3>2. stages[1].pin.retries = retries /\ Len(stages) - j = 1
      BY <3>1
    <3> QED
      BY <3>1, <3>2, OneMore
  <2> QED
    BY <2>1, <2>2
<1> QED
  BY <1>1, <1>2 DEF Priced

\* No release, and one that leaves the retries alone.
LEMMA UnspentPriced ==
    ASSUME NEW a, retries \in Nat, wrong \in Nat, a.pin.retries = retries, wrong' = wrong
    PROVE  Priced(<<>>) /\ Priced(<<a>>)
<1>1. Priced(<<>>)
  BY DEF Priced
<1>2. Priced(<<a>>)
  <2> DEFINE stages == <<a>>
  <2>1. Len(stages) = 1 /\ stages[1] = a
    OBVIOUS
  <2> HIDE DEF stages
  <2>2. wrong' <= wrong + Len(stages)
    BY <2>1
  <2>3. ASSUME NEW j \in 1 .. Len(stages)
        PROVE  stages[j].pin.retries + wrong' <= retries + wrong + (Len(stages) - j)
    <3>1. j = 1
      BY <2>1
    <3> QED
      BY <2>1, <3>1
  <2>4. Priced(stages)
    BY <2>2, <2>3 DEF Priced
  <2> QED
    BY <2>4 DEF stages
<1> QED
  BY <1>1, <1>2

\* What initialize() releases leaves the retries alone.
LEMMA EntryPriced ==
    ASSUME FilesInv, wrong' = wrong
    PROVE  Priced(EntryReleases)
<1>1. retries \in Nat /\ wrong \in Nat
  BY DEF FilesInv, TypeOK
<1> DEFINE file == [Files EXCEPT !.token = NoPin]
<1>2. file.pin.retries = retries
  BY DEF Files
<1>3. EntryReleases = <<file>> \/ EntryReleases = <<>>
  BY DEF EntryReleases, Only
<1> HIDE DEF file
<1> QED
  BY <1>1, <1>2, <1>3, UnspentPriced

\* A wrong guess, and a guess nobody can read, release the retry they spent.
LEMMA MismatchPriced ==
    ASSUME FilesInv, FilesInv', wrong' <= wrong + 1, retries' + wrong' <= retries + wrong
    PROVE  Priced(MismatchReleases)
<1>1. /\ retries \in Nat /\ wrong \in Nat /\ retries' \in Nat /\ wrong' \in Nat
  BY DEF FilesInv, TypeOK
<1>2. PICK a : a = [Files EXCEPT !.token = NoPin]
  OBVIOUS
<1>3. PICK b : b = Files'
  OBVIOUS
<1>4. a.pin.retries = retries
  BY <1>2 DEF Files
<1>5. b.pin.retries = retries'
  BY <1>3 DEF Files
<1>6. EntryReleases = <<a>> \/ EntryReleases = <<>>
  BY <1>2 DEF EntryReleases, Only
<1>7. CASE EntryReleases = <<a>>
  <2>1. PICK stages : stages = <<a>> \o <<b>>
    OBVIOUS
  <2>2. MismatchReleases = stages
    BY <1>3, <1>7, <2>1 DEF MismatchReleases
  <2>3. Len(stages) = 2 /\ stages[1] = a /\ stages[2] = b
    BY <2>1, Queued
  <2>4. stages[1].pin.retries = retries /\ stages[2].pin.retries = retries'
    BY <1>4, <1>5, <2>3
  <2>5. Priced(stages)
    BY <1>1, <2>3, <2>4, SpentPriced
  <2> QED
    BY <2>2, <2>5
<1>8. CASE EntryReleases = <<>>
  <2>1. MismatchReleases = <<b>>
    BY <1>3, <1>8 DEF MismatchReleases
  <2>2. Len(<<b>>) = 1 /\ <<b>>[1] = b
    OBVIOUS
  <2> QED
    BY <1>1, <1>5, <2>1, <2>2, SpentPriced
<1> QED
  BY <1>6, <1>7, <1>8

\* Whatever a command, or a reset, releases is sound, and pays for its guess.
LEMMA CommandReleases ==
    ASSUME FilesInv, FilesInv', Command \/ Erase
    PROVE  \E stages \in Seq(Sound) : Release(stages) /\ Priced(stages)
<1> DEFINE Goal == \E stages \in Seq(Sound) : Release(stages) /\ Priced(stages)
<1>1. Files' \in Sound
  BY FilesSoundNext
<1>2. <<Files'>> \in Seq(Sound) /\ <<>> \in Seq(Sound)
  BY <1>1
<1>3. /\ retries \in Nat /\ wrong \in Nat /\ retries' \in Nat /\ wrong' \in Nat
  BY DEF FilesInv, TypeOK
<1>4. CASE (NoEffect \/ GetKeyAgreement) /\ Release(EntryReleases)
  <2>1. wrong' = wrong
    BY <1>4 DEF NoEffect, GetKeyAgreement
  <2> QED
    BY <1>4, <2>1, EntrySound, EntryPriced
<1>5. ASSUME wrong' = wrong, Release(<<>>) PROVE Goal
  <2>1. Priced(<<>>)
    BY <1>3, <1>5 DEF Priced
  <2> QED
    BY <1>2, <1>5, <2>1
<1>6. ASSUME UNCHANGED torn, NEW p \in Pins, SetPIN(p), Release(SetPINReleases(p)) PROVE Goal
  <2>1. Priced(SetPINReleases(p))
    BY <1>6 DEF SetPIN, Priced
  <2> QED
    BY <1>6, <2>1, SetPINSound
<1>7. ASSUME NEW guess, Mismatch(guess), Release(MismatchReleases) PROVE Goal
  <2>1. wrong' <= wrong + 1 /\ retries' + wrong' <= retries + wrong
    BY <1>3, <1>7 DEF Mismatch, PinUsable, Spent
  <2> QED
    BY <1>7, <2>1, MismatchSound, MismatchPriced
<1>8. ASSUME GetPinTokenUnreadable, Release(MismatchReleases) PROVE Goal
  <2>1. wrong' <= wrong + 1 /\ retries' + wrong' <= retries + wrong
    BY <1>3, <1>8 DEF GetPinTokenUnreadable, PinUsable, Spent
  <2> QED
    BY <1>8, <2>1, MismatchSound, MismatchPriced
<1>9. ASSUME UNCHANGED torn, NEW guess \in Pins, NEW new \in Pins, ChangePIN(guess, new),
             Release(ChangePINReleases(new))
      PROVE  Goal
  <2>1. Priced(ChangePINReleases(new))
    BY <1>9 DEF ChangePIN, OldPinRight, Priced
  <2> QED
    BY <1>9, <2>1, ChangePINSound
<1>10. ASSUME NEW guess \in Pins, NEW new \in Pins, ChangePINRefused(guess, new),
              Release(<<Paid, Repaid>>)
       PROVE  Goal
  <2>1. Paid \in Sound /\ Repaid \in Sound
    BY <1>10, PaidSound DEF ChangePINRefused, OldPinRight
  <2>2. <<Paid, Repaid>> \in Seq(Sound)
    BY <2>1
  <2>3. Priced(<<Paid, Repaid>>)
    BY <1>10 DEF ChangePINRefused, OldPinRight, Priced
  <2> QED
    BY <1>10, <2>2, <2>3
<1>11. ASSUME UNCHANGED torn, NEW guess \in Pins, NEW perms \in PermRequests,
              GetPinToken(guess, perms), Release(GetPinTokenReleases(guess))
       PROVE  Goal
  <2>1. Priced(GetPinTokenReleases(guess))
    BY <1>11 DEF GetPinToken, OldPinRight, Priced
  <2> QED
    BY <1>11, <2>1, GetPinTokenSound
<1>12. ASSUME wrong' = 0 \/ (wrong' = wrong /\ retries' = retries), Release(<<Files'>>)
       PROVE  Goal
  <2> DEFINE last == Files'
  <2>1. last.pin.retries = retries'
    BY DEF Files
  <2> HIDE DEF last
  <2>2. Priced(<<last>>)
    BY <1>3, <1>12, <2>1 DEF Priced
  <2> QED
    BY <1>2, <1>12, <2>2 DEF last
<1>13. CASE Erase
  BY <1>12, <1>13 DEF Erase, Reset
<1>14. ASSUME NEW n \in MinLenRequests, NEW force \in BOOLEAN, SetMinPINLength(n, force),
              Release(<<Files'>>)
       PROVE  Goal
  BY <1>12, <1>14 DEF SetMinPINLength
<1>15. ASSUME NEW p \in Pins, SetPINRefused(p), Release(<<>>) PROVE Goal
  BY <1>5, <1>15 DEF SetPINRefused
<1>16. ASSUME NEW n \in MinLenRequests, SetMinPINLengthRefused(n), Release(<<>>) PROVE Goal
  BY <1>5, <1>16 DEF SetMinPINLengthRefused
<1>17. CASE Command
  BY <1>17, <1>4, <1>6, <1>7, <1>8, <1>9, <1>10, <1>11, <1>14, <1>15, <1>16
     DEF Command, ChangePINMismatch, GetPinTokenMismatch
<1> QED
  BY <1>13, <1>17

\* Every command, and a reset, keeps the invariant.
LEMMA CommandStep == ASSUME CutInv, Command \/ Erase PROVE CutInv'
<1>1. FilesInv /\ FilesInv' /\ TypeOK /\ TypeOK'
  BY FilesStep DEF CutInv, FilesInv
<1>2. PICK stages \in Seq(Sound) : Release(stages) /\ Priced(stages)
  BY <1>1, CommandReleases
<1>3. GuessPrice
  BY <1>1, NextPrice DEF Command, Erase, Next
<1>4. Lose(0)
  BY DEF Command, Erase
<1>5. flashed' \in Sound /\ pending' \in Seq(Sound)
  BY <1>2, ReleaseStep
<1>6. Owed'
  BY <1>1, <1>2, <1>3, <1>4, OwedStep
<1> QED
  BY <1>1, <1>5, <1>6 DEF CutInv

\* Part of a release: the PIN file is whole, and the rest is marked as torn.
LEMMA TornSound ==
    ASSUME CutInv, NEW k \in 1 .. Len(pending), NEW left \in TornAt(k)
    PROVE  left \in Sound
<1>1. pending[k] \in Sound /\ Written(k - 1) \in Sound
  BY DEF CutInv, Written
<1>2. DOMAIN flashed = {"pin", "minpin", "mkek", "token", "torn"}
  BY DEF CutInv, Sound, Contents
<1>3. PICK new : left = [f \in DOMAIN flashed |->
          IF f = "torn" THEN TRUE ELSE IF f \in new THEN pending[k][f] ELSE Written(k - 1)[f]]
  BY DEF TornAt
<1> DEFINE after == pending[k]
           before == Written(k - 1)
<1>4. after \in Sound /\ before \in Sound
  BY <1>1
<1>5. left = [f \in {"pin", "minpin", "mkek", "token", "torn"} |->
          IF f = "torn" THEN TRUE ELSE IF f \in new THEN after[f] ELSE before[f]]
  BY <1>2, <1>3
<1> HIDE DEF after, before
<1>6. /\ left.torn = TRUE /\ left.pin \in {after.pin, before.pin}
      /\ left.minpin \in {after.minpin, before.minpin}
      /\ left.mkek \in {after.mkek, before.mkek} /\ left.token \in {after.token, before.token}
  BY <1>5
<1>7. left \in Contents
  <2>1. left = [pin |-> left.pin, minpin |-> left.minpin, mkek |-> left.mkek,
                token |-> left.token, torn |-> left.torn]
    BY <1>5
  <2> QED
    BY <1>4, <1>6, <2>1 DEF Sound, Contents
<1> QED
  BY <1>6, <1>7 DEF Sound, Recoverable, ForcedIn

\* A torn release has the PIN file of before or of after.
LEMMA TornPin ==
    ASSUME CutInv, NEW k \in 1 .. Len(pending), NEW left \in TornAt(k)
    PROVE  left.pin \in {pending[k].pin, Written(k - 1).pin}
<1>1. "pin" \in DOMAIN flashed
  BY DEF CutInv, Sound, Contents
<1>2. PICK new : left = [f \in DOMAIN flashed |->
          IF f = "torn" THEN TRUE ELSE IF f \in new THEN pending[k][f] ELSE Written(k - 1)[f]]
  BY DEF TornAt
<1> DEFINE after == pending[k]
           before == Written(k - 1)
<1>3. left.pin = IF "pin" \in new THEN after.pin ELSE before.pin
  BY <1>1, <1>2
<1> QED
  BY <1>3

\* What a cut after k releases leaves gives back no more guesses than it loses.
LEMMA CutPrice ==
    ASSUME CutInv, NEW k \in 0 .. Len(pending), NEW left \in Survivors(k)
    PROVE  /\ left \in Sound
           /\ left.pin.retries + wrong <= MaxRetries + lost + (Len(pending) - k)
<1>1. ASSUME NEW n \in 0 .. Len(pending)
      PROVE  /\ Written(n) \in Sound
             /\ Written(n).pin.retries + wrong <= MaxRetries + lost + (Len(pending) - n)
  <2>1. CASE n = 0
    <3>1. Len(pending) - n = Len(pending)
      BY <2>1 DEF CutInv
    <3> QED
      BY <2>1, <3>1 DEF CutInv, Written, Owed
  <2>2. CASE n # 0
    <3>1. n \in 1 .. Len(pending) /\ Written(n) = pending[n]
      BY <2>2 DEF CutInv, Written
    <3> QED
      BY <3>1 DEF CutInv, Owed
  <2> QED
    BY <2>1, <2>2
<1>2. CASE left = Written(k)
  BY <1>1, <1>2
<1>3. CASE k < Len(pending) /\ left \in TornAt(k + 1)
  <2> DEFINE n == k + 1
  <2>1. n \in 1 .. Len(pending) /\ n - 1 = k
    BY <1>3
  <2>2. left \in Sound
    BY <1>3, <2>1, TornSound
  <2>3. left.pin \in {Written(n).pin, Written(k).pin}
    BY <1>3, <2>1, TornPin DEF Written
  <2>4. /\ wrong \in Nat /\ lost \in Nat /\ MaxRetries \in Nat /\ Len(pending) \in Nat
        /\ left.pin.retries \in Nat
    BY <2>2 DEF CutInv, FilesInv, Owed, TypeOK, Sound, Contents
  <2>5. Written(n).pin.retries + wrong <= MaxRetries + lost + (Len(pending) - n)
    BY <1>1, <2>1
  <2>6. Written(k).pin.retries + wrong <= MaxRetries + lost + (Len(pending) - k)
    BY <1>1
  <2>7. left.pin.retries + wrong <= MaxRetries + lost + (Len(pending) - k)
    BY <2>1, <2>3, <2>4, <2>5, <2>6
  <2> QED
    BY <2>2, <2>7
<1> QED
  BY <1>2, <1>3 DEF Survivors

\* After a cut the program starts from sound files, and no token is in use.
LEMMA PowerCutStep == ASSUME CutInv, PowerCut PROVE CutInv'
<1>0. PICK k \in 0 .. Len(pending) :
          (\E left \in Survivors(k) : RestartFrom(left)) /\ UNCHANGED wrong /\ Lose(Len(pending) - k)
  BY DEF PowerCut
<1>1. PICK left \in Survivors(k) : RestartFrom(left)
  BY <1>0
<1>2. /\ left \in Sound
      /\ left.pin.retries + wrong <= MaxRetries + lost + (Len(pending) - k)
  BY CutPrice
<1>3. flashed' = left /\ pending' = <<>>
  BY <1>1 DEF RestartFrom
<1>4. /\ pin' = left.pin.value /\ retries' = left.pin.retries /\ wrong' = wrong
      /\ minPin' = left.minpin.min /\ forceChange' = left.minpin.force /\ mkek' = left.mkek
      /\ torn' = left.torn
      /\ paut' = [PowerLoss(paut) EXCEPT !.holder = left.token]
      /\ session_pin' = NoPin /\ new_pin_mismatches' = 0 /\ needs_power_cycle' = FALSE
      /\ hkey' = "none" /\ resp' = "ok"
  BY <1>0, <1>1 DEF RestartFrom
<1>5. left \in Contents
  BY <1>2 DEF Sound
<1>6. TypeOK'
  <2>1. paut' \in Tokens
    BY <1>4, <1>5 DEF PowerLoss, Tokens, CutInv, FilesInv, TypeOK, Contents
  <2>2. NumbersOK'
    BY <1>4, <1>5 DEF NumbersOK, Contents, CutInv, FilesInv, TypeOK
  <2>3. NamesOK'
    BY <1>4, <1>5 DEF NamesOK, Contents, PinOrNone, Statuses
  <2>4. FlagsOK'
    BY <1>4, <1>5, <2>1 DEF FlagsOK, Contents
  <2> QED
    BY <2>2, <2>3, <2>4 DEF TypeOK, NumbersOK, NamesOK, FlagsOK
<1>7. OldTokenStaysDead'
  BY <1>4 DEF PowerLoss, Tokens, CutInv, FilesInv, TypeOK, OldTokenStaysDead
<1>8. MkekSurvivesCuts' /\ ShortPinForcedAcrossCuts'
  BY <1>2, <1>4 DEF Sound, Recoverable, ForcedIn, MkekSurvivesCuts,
     ShortPinForcedAcrossCuts, ShortPinIsForced
<1>9. torn' \in BOOLEAN
  BY <1>4, <1>5 DEF Contents
<1>10. Owed'
  <2>1. lost' = IF wrong = 0 THEN 0 ELSE lost + (Len(pending) - k)
    BY <1>0, <1>4 DEF Lose
  <2>2. /\ lost \in Nat /\ wrong \in Nat /\ MaxRetries \in Nat /\ Len(pending) - k \in Nat
        /\ left.pin.retries \in 0 .. MaxRetries
    BY <1>5 DEF CutInv, FilesInv, Owed, TypeOK, Contents
  <2>3. lost' \in Nat /\ left.pin.retries + wrong <= MaxRetries + lost'
    BY <1>2, <2>1, <2>2
  <2> QED
    BY <1>3, <1>4, <2>2, <2>3 DEF Owed, PaidAcrossCuts
<1> QED
  BY <1>2, <1>3, <1>6, <1>7, <1>8, <1>9, <1>10 DEF CutInv, FilesInv

\* Every command, write-back and power cut keeps the invariant.
LEMMA StorageStep == CutInv /\ [StorageNext]_storageVars => CutInv'
<1> SUFFICES ASSUME CutInv, [StorageNext]_storageVars PROVE CutInv'
  OBVIOUS
<1>1. CASE Flush
  <2>1. flashed' \in Sound /\ pending' \in Seq(Sound)
    BY <1>1, HeadTailProperties DEF Flush, CutInv
  <2>2. FilesInv'
    BY <1>1 DEF Flush, CutInv, FilesInv, vars, flash, ram, TypeOK, OldTokenStaysDead,
       MkekSurvivesCuts, ShortPinForcedAcrossCuts, ShortPinIsForced
  <2>3. Owed'
    <3>1. /\ lost' = lost /\ wrong' = wrong /\ retries' = retries /\ lost \in Nat
          /\ wrong \in Nat /\ MaxRetries \in Nat
      BY <1>1 DEF Flush, vars, flash, CutInv, FilesInv, Owed, TypeOK
    <3>2. /\ pending \in Seq(Sound) /\ Len(pending) \in Nat /\ Len(pending) >= 1
          /\ flashed' = pending[1] /\ Len(pending') = Len(pending) - 1
          /\ \A k \in 1 .. Len(pending') : pending'[k] = pending[k + 1]
      BY <1>1, HeadTailProperties DEF Flush, CutInv
    <3>3. PaidAcrossCuts'
      BY <3>1 DEF CutInv, Owed, PaidAcrossCuts
    <3>4. ASSUME NEW n \in 1 .. Len(pending)
          PROVE  /\ pending[n].pin.retries \in Nat
                 /\ pending[n].pin.retries + wrong <= MaxRetries + lost + (Len(pending) - n)
      BY <3>2 DEF CutInv, Owed, Sound, Contents
    <3>5. flashed'.pin.retries + wrong' <= MaxRetries + lost' + Len(pending')
      <4>1. 1 \in 1 .. Len(pending)
        BY <3>2
      <4> QED
        BY <3>1, <3>2, <3>4, <4>1
    <3>6. ASSUME NEW k \in 1 .. Len(pending')
          PROVE  pending'[k].pin.retries + wrong' <= MaxRetries + lost' + (Len(pending') - k)
      <4> DEFINE n == k + 1
      <4>1. n \in 1 .. Len(pending) /\ pending'[k] = pending[n] /\ Len(pending) - n = Len(pending') - k
        BY <3>2
      <4> HIDE DEF n
      <4> QED
        BY <3>1, <3>4, <4>1
    <3> QED
      BY <3>1, <3>3, <3>5, <3>6 DEF Owed
  <2> QED
    BY <2>1, <2>2, <2>3 DEF CutInv
<1>2. CASE UNCHANGED storageVars
  BY <1>2 DEF storageVars, CutInv, FilesInv, vars, flash, ram, TypeOK, OldTokenStaysDead,
     MkekSurvivesCuts, ShortPinForcedAcrossCuts, ShortPinIsForced, Owed, PaidAcrossCuts
<1> QED
  BY <1>1, <1>2, CommandStep, PowerCutStep DEF StorageNext

\* The files, and every release on its way to the flash, stay sound, wherever
\* power is cut: inside a command, between its writes, or inside a release.
THEOREM StorageInvariant == StorageSpec => []CutInv
<1>1. StorageInit => CutInv
  <2> SUFFICES ASSUME StorageInit PROVE CutInv
    OBVIOUS
  <2>1. TypeOK /\ OldTokenStaysDead /\ torn = FALSE
    BY InitPinInv DEF StorageInit, PinInv, Init, OldTokenStaysDead
  <2>2. MkekSurvivesCuts /\ ShortPinForcedAcrossCuts
    BY DEF StorageInit, Init, MkekSurvivesCuts, ShortPinForcedAcrossCuts, ShortPinIsForced
  <2>3. FilesInv
    BY <2>1, <2>2 DEF FilesInv
  <2>4. Owed
    BY DEF StorageInit, Init, Files, Owed, PaidAcrossCuts
  <2> QED
    BY <2>3, <2>4, FilesSound DEF CutInv, StorageInit
<1> QED
  BY <1>1, StorageStep, PTL DEF StorageSpec

\* However often power is cut between two writes of setPIN, changePIN and
\* getPinToken, the stored PIN opens the master key (or it still lies open).
THEOREM MkekSurvivesPowerCuts == StorageSpec => []MkekSurvivesCuts
<1>1. CutInv => MkekSurvivesCuts
  BY DEF CutInv, FilesInv
<1> QED
  BY <1>1, StorageInvariant, PTL

\* A guess answered stays known when power is cut: the cuts give back at most as
\* many retries as they lose releases, torn ones included.
THEOREM RetriesSurvivePowerCuts == StorageSpec => []PaidAcrossCuts
<1>1. CutInv => PaidAcrossCuts
  BY DEF CutInv, Owed
<1> QED
  BY <1>1, StorageInvariant, PTL

\* No cut separates a PIN that is too short from the flag that forces its change.
THEOREM ForcedChangeSurvivesPowerCuts == StorageSpec => []ShortPinForcedAcrossCuts
<1>1. CutInv => ShortPinForcedAcrossCuts
  BY DEF CutInv, FilesInv
<1> QED
  BY <1>1, StorageInvariant, PTL

\* The token of an old PIN may come back to EF_AUTHTOKEN by a cut, but never to use.
THEOREM OldTokensStayDead == StorageSpec => []OldTokenStaysDead
<1>1. CutInv => OldTokenStaysDead
  BY DEF CutInv, FilesInv
<1> QED
  BY <1>1, StorageInvariant, PTL
==============================================================================
