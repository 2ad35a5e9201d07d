------------------------------ MODULE OathProofs ------------------------------
(***************************************************************************)
(* Proofs about Oath, for any names, access codes, PINs, number of slots   *)
(* and tries.                                                              *)
(***************************************************************************)
EXTENDS Oath, WellFoundedInduction, TLAPS

\* The type invariant by the part of the state: the store, the access code, the PIN.
StoreOK ==
    /\ cred \in [Slots -> Creds \cup {Empty}]
    /\ made \in 0 .. MaxMade
    /\ out \in [imf : 0 .. MaxFactor, last : 0 .. MaxFactor \cup {None}] \cup {None}

AccessOK == code \in Keys \cup {None} /\ validated \in BOOLEAN /\ under \in Keys \cup {None}

PinOK == pin \in Pins \cup {None} /\ tries \in 0 .. MaxTries /\ wrong \in 0 .. MaxTries

\* Every stored factor is ahead of the last code made from it.
FactorsAhead == \A i \in Slots \ Free : cred[i].last # None => cred[i].last < cred[i].imf

StoreInv == StoreOK /\ NamesUnique /\ FactorsAhead /\ HotpMovesOn
AccessInv == AccessOK /\ CodeClosesSessions
PinInv == PinOK /\ TriesArePaid

Inv == StoreInv /\ AccessInv /\ PinInv

\* A set of slots that is not empty has a first one.
LEMMA FirstIn ==
    ASSUME NEW S \in SUBSET Slots, S # {}
    PROVE  First(S) \in S
<1>1. S \subseteq Nat
  BY DEF Slots
<1>2. PICK i \in S : \A j \in S : ~(<<j, i>> \in OpToRel(<, Nat))
  BY <1>1, NatLessThanWellFounded, WFMin, Zenon
<1>3. ASSUME NEW j \in S PROVE i <= j
  <2>1. ~(j < i)
    BY <1>1, <1>2 DEF OpToRel
  <2> QED
    BY <1>1, <2>1
<1> QED
  BY <1>3 DEF First

(***************************************************************************)
(* The store                                                               *)
(***************************************************************************)

\* A command that leaves the store alone, or empties it, keeps its invariant.
LEMMA StoreKept ==
    ASSUME StoreInv, UNCHANGED <<made, out>>,
           cred' = cred \/ cred' = [i \in Slots |-> Empty]
    PROVE  StoreInv'
<1>1. CASE cred' = cred
  BY <1>1 DEF StoreInv, StoreOK, NamesUnique, FactorsAhead, HotpMovesOn, Free
<1>2. CASE cred' = [i \in Slots |-> Empty]
  BY <1>2 DEF StoreInv, StoreOK, NamesUnique, FactorsAhead, HotpMovesOn, Free
<1> QED
  BY <1>1, <1>2

\* PUT stores a fresh credential where its name is, or where none is.
LEMMA PutInv ==
    ASSUME StoreInv, NEW n \in Names, NEW hotp \in BOOLEAN, NEW factor \in Factors,
           Put(n, hotp, factor)
    PROVE  StoreInv'
<1> DEFINE i == IF Named(n) # {} THEN First(Named(n)) ELSE First(Free)
           c == Stored(n, hotp, factor)
<1>1. i \in Slots /\ (i \in Named(n) \/ (Named(n) = {} /\ i \in Free))
  BY FirstIn DEF Put, Named, Free
<1>2. cred' = [cred EXCEPT ![i] = c] /\ made' = made + 1 /\ out' = out
  BY DEF Put
<1>3. made \in 0 .. MaxMade /\ made < MaxMade /\ MaxMade \in Nat
  BY OathAssumption DEF Put, StoreInv, StoreOK
<1>4. c \in Creds /\ c.name = n /\ c.last = None
  <2>1. made + 1 \in 1 .. MaxMade
    BY <1>3
  <2>2. (IF hotp THEN factor ELSE 0) \in 0 .. MaxFactor
    BY OathAssumption
  <2> QED
    BY <2>1, <2>2 DEF Stored, Creds
<1> HIDE DEF i, c
<1>5. StoreOK'
  <2>1. made' \in 0 .. MaxMade
    BY <1>2, <1>3
  <2> QED
    BY <1>1, <1>2, <1>4, <2>1 DEF StoreInv, StoreOK
<1>6. \A j \in Slots : cred'[j] = IF j = i THEN c ELSE cred[j]
  BY <1>1, <1>2 DEF StoreInv, StoreOK
<1>7. NamesUnique'
  BY <1>1, <1>4, <1>6, EmptyAssumption DEF StoreInv, NamesUnique, Named, Free
<1>8. FactorsAhead'
  BY <1>1, <1>4, <1>6, EmptyAssumption DEF StoreInv, FactorsAhead, Free
<1>9. HotpMovesOn'
  BY <1>2 DEF StoreInv, HotpMovesOn
<1> QED
  BY <1>5, <1>7, <1>8, <1>9 DEF StoreInv

\* DELETE empties one slot.
LEMMA DeleteInv ==
    ASSUME StoreInv, NEW n \in Names, Delete(n)
    PROVE  StoreInv'
<1>1. PICK i \in Slots : cred' = [cred EXCEPT ![i] = Empty]
  BY FirstIn DEF Delete, Named
<1>2. UNCHANGED <<made, out>>
  BY DEF Delete
<1>3. \A j \in Slots : cred'[j] = IF j = i THEN Empty ELSE cred[j]
  BY <1>1 DEF StoreInv, StoreOK
<1>4. StoreOK'
  BY <1>1, <1>2 DEF StoreInv, StoreOK
<1>5. NamesUnique' /\ FactorsAhead'
  BY <1>3 DEF StoreInv, NamesUnique, FactorsAhead, Free
<1> QED
  BY <1>2, <1>4, <1>5 DEF StoreInv, HotpMovesOn

\* CALCULATE answers from a factor that is ahead of the last, and moves it on.
LEMMA CalculateInv ==
    ASSUME StoreInv, NEW n \in Names, Calculate(n)
    PROVE  StoreInv'
<1>1. PICK i \in Named(n) :
        /\ cred[i].imf < MaxFactor
        /\ out' = [imf |-> cred[i].imf, last |-> cred[i].last]
        /\ cred' = [cred EXCEPT ![i].imf = @ + 1, ![i].last = cred[i].imf]
  BY FirstIn DEF Calculate, Named
<1> DEFINE c == [cred[i] EXCEPT !.imf = cred[i].imf + 1, !.last = cred[i].imf]
<1>2. i \in Slots \ Free /\ made' = made
  BY <1>1 DEF Calculate, Named
<1>3. cred[i] \in Creds
  BY <1>2 DEF StoreInv, StoreOK, Free
<1>4. cred[i].imf \in 0 .. MaxFactor /\ cred[i].imf + 1 \in 0 .. MaxFactor
  BY <1>1, <1>3, OathAssumption DEF Creds
<1>5. c \in Creds /\ c.name = cred[i].name /\ c.imf = cred[i].imf + 1 /\ c.last = cred[i].imf
  BY <1>3, <1>4 DEF Creds
<1>6. cred' = [cred EXCEPT ![i] = c]
  BY <1>1, <1>2, <1>3 DEF StoreInv, StoreOK, Creds
<1> HIDE DEF c
<1>7. \A j \in Slots : cred'[j] = IF j = i THEN c ELSE cred[j]
  BY <1>2, <1>6 DEF StoreInv, StoreOK
<1>8. StoreOK'
  <2>1. out' \in [imf : 0 .. MaxFactor, last : 0 .. MaxFactor \cup {None}]
    BY <1>1, <1>3 DEF Creds
  <2> QED
    BY <1>2, <1>5, <1>6, <2>1 DEF StoreInv, StoreOK
<1>9. NamesUnique'
  BY <1>2, <1>5, <1>7, EmptyAssumption DEF StoreInv, NamesUnique, Free
<1>10. FactorsAhead'
  <2>1. c.last < c.imf
    BY <1>4, <1>5
  <2> QED
    BY <1>2, <1>7, <2>1 DEF StoreInv, FactorsAhead, Free
<1>11. HotpMovesOn'
  BY <1>1, <1>2 DEF StoreInv, FactorsAhead, HotpMovesOn
<1> QED
  BY <1>8, <1>9, <1>10, <1>11 DEF StoreInv

\* Every APDU, reset and power cycle keeps the store's invariant.
LEMMA StoreStep == StoreInv /\ [Next]_vars => StoreInv'
<1> SUFFICES ASSUME StoreInv, [Next]_vars PROVE StoreInv'
  OBVIOUS
<1>1. ASSUME NEW n \in Names, NEW hotp \in BOOLEAN, NEW factor \in Factors, Put(n, hotp, factor)
      PROVE  StoreInv'
  BY <1>1, PutInv
<1>2. ASSUME NEW n \in Names, Delete(n) \/ Calculate(n) PROVE StoreInv'
  BY <1>2, DeleteInv, CalculateInv
<1>3. ASSUME NEW key \in Keys \cup {None}, SetCode(key) \/ Validate(key) PROVE StoreInv'
  BY <1>3, StoreKept DEF SetCode, Validate
<1>4. ASSUME NEW p \in Pins, SetPin(p) \/ VerifyPin(p) \/ VerifyPinFailed(p) PROVE StoreInv'
  BY <1>4, StoreKept DEF SetPin, VerifyPin, VerifyPinFailed
<1>5. ASSUME NEW p \in Pins, NEW new \in Pins, ChangePin(p, new) PROVE StoreInv'
  BY <1>5, StoreKept DEF ChangePin
<1>6. CASE ClearCode \/ ValidateWithoutCode \/ PowerCycle \/ UNCHANGED vars
  BY <1>6, StoreKept DEF ClearCode, ValidateWithoutCode, PowerCycle, vars
<1>7. CASE Reset \/ FactoryReset
  BY <1>7, StoreKept DEF Reset, FactoryReset, Emptied
<1> QED
  BY <1>1, <1>2, <1>3, <1>4, <1>5, <1>6, <1>7 DEF Next

(***************************************************************************)
(* The access code and the OTP PIN                                         *)
(***************************************************************************)

\* Every step keeps what an access code asks for.
LEMMA AccessStep == AccessInv /\ [Next]_vars => AccessInv'
<1> SUFFICES ASSUME AccessInv, [Next]_vars PROVE AccessInv'
  OBVIOUS
<1> USE DEF AccessInv, AccessOK, CodeClosesSessions, Validated, Invalidated
<1>1. CASE access' = access
  BY <1>1 DEF access
<1>2. ASSUME NEW key \in Keys, SetCode(key) PROVE AccessInv'
  BY <1>2 DEF SetCode
<1>7. ASSUME NEW shown \in Keys \cup {None}, Validate(shown) PROVE AccessInv'
  BY <1>7 DEF Validate
<1>3. ASSUME NEW p \in Pins, VerifyPin(p) \/ VerifyPinFailed(p) PROVE AccessInv'
  BY <1>3 DEF VerifyPin, VerifyPinFailed
<1>4. CASE ClearCode \/ ValidateWithoutCode \/ PowerCycle
  BY <1>4 DEF ClearCode, ValidateWithoutCode, PowerCycle
<1>5. CASE Reset \/ FactoryReset
  BY <1>5 DEF Reset, FactoryReset, Emptied
<1>6. ASSUME ~(access' = access)
      PROVE  \/ \E key \in Keys : SetCode(key)
             \/ \E shown \in Keys \cup {None} : Validate(shown)
             \/ \E p \in Pins : VerifyPin(p) \/ VerifyPinFailed(p)
             \/ ClearCode \/ ValidateWithoutCode \/ PowerCycle \/ Reset \/ FactoryReset
  <2>1. ASSUME NEW n \in Names, NEW hotp \in BOOLEAN, NEW factor \in Factors, Put(n, hotp, factor)
        PROVE  access' = access
    BY <2>1 DEF Put
  <2>2. ASSUME NEW n \in Names, Delete(n) \/ Calculate(n) PROVE access' = access
    BY <2>2 DEF Delete, Calculate
  <2>3. ASSUME NEW p \in Pins, SetPin(p) PROVE access' = access
    BY <2>3 DEF SetPin
  <2>4. ASSUME NEW p \in Pins, NEW new \in Pins, ChangePin(p, new) PROVE access' = access
    BY <2>4 DEF ChangePin
  <2>5. UNCHANGED vars => access' = access
    BY DEF vars
  <2> QED
    BY <1>6, <2>1, <2>2, <2>3, <2>4, <2>5, Zenon DEF Next
<1> QED
  BY <1>1, <1>2, <1>3, <1>4, <1>5, <1>6, <1>7

\* Every step keeps the count of the tries.
LEMMA PinStep == PinInv /\ [Next]_vars => PinInv'
<1> SUFFICES ASSUME PinInv, [Next]_vars PROVE PinInv'
  OBVIOUS
<1> USE OathAssumption DEF PinInv, PinOK, TriesArePaid
<1>1. ASSUME UNCHANGED pinVars PROVE PinInv'
  BY <1>1 DEF pinVars
<1>2. ASSUME NEW p \in Pins, NewPin(p) PROVE PinInv'
  BY <1>2 DEF NewPin
<1>3. ASSUME NEW p \in Pins, VerifyPinFailed(p) PROVE PinInv'
  BY <1>3 DEF VerifyPinFailed
<1>4. ASSUME Emptied PROVE PinInv'
  BY <1>4 DEF Emptied
<1>5. ASSUME NEW n \in Names, NEW hotp \in BOOLEAN, NEW factor \in Factors, Put(n, hotp, factor)
      PROVE  UNCHANGED pinVars
  BY <1>5, Zenon DEF Put
<1>6. ASSUME NEW n \in Names, Delete(n) \/ Calculate(n) PROVE UNCHANGED pinVars
  BY <1>6, Zenon DEF Delete, Calculate
<1>7. ASSUME NEW key \in Keys \cup {None}, SetCode(key) \/ Validate(key) PROVE UNCHANGED pinVars
  BY <1>7, Zenon DEF SetCode, Validate
<1>8. ASSUME ClearCode \/ ValidateWithoutCode \/ PowerCycle \/ UNCHANGED vars PROVE UNCHANGED pinVars
  BY <1>8, Zenon DEF ClearCode, ValidateWithoutCode, PowerCycle, vars
<1>9. ASSUME NEW p \in Pins, SetPin(p) \/ VerifyPin(p) PROVE NewPin(p)
  BY <1>9, Zenon DEF SetPin, VerifyPin
<1>10. ASSUME NEW p \in Pins, NEW new \in Pins, ChangePin(p, new) PROVE NewPin(new)
  BY <1>10, Zenon DEF ChangePin
<1>11. ASSUME Reset \/ FactoryReset PROVE Emptied
  BY <1>11, Zenon DEF Reset, FactoryReset
<1> QED
  BY <1>1, <1>2, <1>3, <1>4, <1>5, <1>6, <1>7, <1>8, <1>9, <1>10, <1>11, Zenon DEF Next

(***************************************************************************)
(* Theorems                                                                *)
(***************************************************************************)

\* The invariant of the OATH application holds in every reachable state.
THEOREM OathInvariant == Spec => []Inv
<1>1. Init => Inv
  <2> SUFFICES ASSUME Init PROVE Inv
    OBVIOUS
  <2>1. StoreInv
    BY OathAssumption DEF Init, StoreInv, StoreOK, NamesUnique, FactorsAhead, HotpMovesOn, Free
  <2>2. AccessInv
    BY DEF Init, AccessInv, AccessOK, CodeClosesSessions
  <2>3. PinInv
    BY OathAssumption DEF Init, PinInv, PinOK, TriesArePaid
  <2> QED
    BY <2>1, <2>2, <2>3 DEF Inv
<1>2. Inv /\ [Next]_vars => Inv'
  BY StoreStep, AccessStep, PinStep DEF Inv
<1> QED
  BY <1>1, <1>2, PTL DEF Spec

\* A name is stored in one slot at most, whatever was deleted and put.
THEOREM NamesStayUnique == Spec => []NamesUnique
<1>1. Inv => NamesUnique
  BY DEF Inv, StoreInv
<1> QED
  BY <1>1, OathInvariant, PTL

\* No credential answers two codes from one moving factor.
THEOREM HotpNeverGoesBack == Spec => []HotpMovesOn
<1>1. Inv => HotpMovesOn
  BY DEF Inv, StoreInv
<1> QED
  BY <1>1, OathInvariant, PTL

\* SET CODE ends the sessions opened before it: one that is open under an access code
\* was opened while that code was in force.
THEOREM SessionsEndWithTheirCode == Spec => []CodeClosesSessions
<1>1. Inv => CodeClosesSessions
  BY DEF Inv, AccessInv
<1> QED
  BY <1>1, OathInvariant, PTL

\* The tries left and the wrong PINs verified never exceed MAX_OTP_COUNTER.
THEOREM TriesBounded == Spec => []TriesArePaid
<1>1. Inv => TriesArePaid
  BY DEF Inv, PinInv
<1> QED
  BY <1>1, OathInvariant, PTL
===============================================================================
