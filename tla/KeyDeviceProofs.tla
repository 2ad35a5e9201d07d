--------------------------- MODULE KeyDeviceProofs ---------------------------
(***************************************************************************)
(* Proofs about KeyDevice, for any lock keys and any number of resets.     *)
(***************************************************************************)
EXTENDS KeyDevice, TLAPS

Inv == TypeOK /\ SealedAlone

\* TypeOK by sort: the provers treat contents, numbers and flags apart.
ContentsOK ==
    /\ keydev \in Contents \cup {None}
    /\ keydev_enc \in Sealed \cup {None}
    /\ keydev_dec \in Contents
    /\ exported \in Sealed \cup {None}

NumbersOK == mkek \in 1 .. MaxKeys /\ serial \in 1 .. MaxKeys /\ mkek <= serial

FlagsOK ==
    /\ pinSet \in BOOLEAN /\ opened \in BOOLEAN
    /\ has_keydev_dec \in BOOLEAN /\ mse_init \in BOOLEAN

CmdOK == cmd \in {"BOOT", "PIN", "MSE", "ENABLE", "DISABLE", "UNLOCK", "UNLOCK_FAILED",
                  "EXPORT", "IMPORT", "RESET"}

\* The parts are the whole.
LEMMA TypeParts == TypeOK <=> ContentsOK /\ NumbersOK /\ FlagsOK /\ CmdOK
BY DEF TypeOK, ContentsOK, NumbersOK, FlagsOK, CmdOK

\* Zeros and another device's key are contents, sealing a content with a lock
\* key gives a sealed one, and an empty file is neither.
LEMMA ContentFacts ==
    /\ Zeros \in Contents /\ Foreign \in Contents
    /\ None \notin Contents /\ None \notin Sealed
    /\ \A lk \in LockKeys \cup {NoLock}, c \in Contents : [lock |-> lk, content |-> c] \in Sealed
    /\ \A s \in Sealed : s.content \in Contents
BY KeyAssumption, NoneAssumption DEF Zeros, Foreign, Contents, Sealed

\* A key generated within the bound of the model is a content.
LEMMA GeneratedKey ==
    ASSUME NEW k \in 1 .. MaxKeys, NEW layer \in 0 .. MaxKeys
    PROVE  [key |-> k, layer |-> layer] \in Contents
BY KeyAssumption DEF Contents

\* Whatever a platform sends as a backup is a sealed content or nothing.
LEMMA BackupTypes ==
    ASSUME ContentsOK, NEW backup \in Backups
    PROVE  backup \in Sealed \cup {None}
BY ContentFacts DEF ContentsOK, Backups

\* A factory-new device satisfies the invariant.
LEMMA InitInv == Init => Inv
<1> SUFFICES ASSUME Init PROVE Inv
  OBVIOUS
<1>1. ContentsOK
  <2>1. 1 \in 1 .. MaxKeys /\ 1 \in 0 .. MaxKeys
    BY KeyAssumption
  <2> QED
    BY <2>1, ContentFacts, GeneratedKey DEF Init, ContentsOK
<1>2. NumbersOK
  BY KeyAssumption DEF Init, NumbersOK
<1>3. FlagsOK /\ CmdOK
  BY DEF Init, FlagsOK, CmdOK
<1> QED
  BY <1>1, <1>2, <1>3, TypeParts DEF Init, Inv, SealedAlone

\* Every command, reset and boot preserves the invariant.
LEMMA NextInv == Inv /\ [Next]_vars => Inv'
<1> SUFFICES ASSUME Inv, [Next]_vars PROVE Inv'
  OBVIOUS
<1>a. ContentsOK /\ NumbersOK /\ FlagsOK /\ CmdOK /\ SealedAlone
  BY TypeParts DEF Inv
<1>q. SUFFICES ContentsOK' /\ NumbersOK' /\ FlagsOK' /\ CmdOK' /\ SealedAlone'
  BY DEF Inv, TypeOK, ContentsOK, NumbersOK, FlagsOK, CmdOK
<1>1. CASE SetPIN
  <2>1. ContentsOK'
    BY <1>a, <1>1, ContentFacts DEF ContentsOK, SetPIN, files, ram, pinPart, Did
  <2>2. NumbersOK'
    BY <1>a, <1>1, KeyAssumption DEF NumbersOK, SetPIN, files, ram, pinPart, Did
  <2>3. FlagsOK' /\ CmdOK'
    BY <1>a, <1>1 DEF FlagsOK, CmdOK, SetPIN, files, ram, pinPart, Did
  <2>4. SealedAlone'
    BY <1>a, <1>1, ContentFacts DEF SealedAlone, ContentsOK, SetPIN, files, ram, pinPart, Did
  <2> QED
    BY <2>1, <2>2, <2>3, <2>4
<1>2. CASE EnterPIN
  <2>1. ContentsOK'
    BY <1>a, <1>2, ContentFacts DEF ContentsOK, EnterPIN, files, ram, pinPart, Did
  <2>2. NumbersOK'
    BY <1>a, <1>2, KeyAssumption DEF NumbersOK, EnterPIN, files, ram, pinPart, Did
  <2>3. FlagsOK' /\ CmdOK'
    BY <1>a, <1>2 DEF FlagsOK, CmdOK, EnterPIN, files, ram, pinPart, Did
  <2>4. SealedAlone'
    BY <1>a, <1>2, ContentFacts DEF SealedAlone, ContentsOK, EnterPIN, files, ram, pinPart, Did
  <2> QED
    BY <2>1, <2>2, <2>3, <2>4
<1>3. CASE MSE
  <2>1. ContentsOK'
    BY <1>a, <1>3, ContentFacts DEF ContentsOK, MSE, files, ram, pinPart, Did
  <2>2. NumbersOK'
    BY <1>a, <1>3, KeyAssumption DEF NumbersOK, MSE, files, ram, pinPart, Did
  <2>3. FlagsOK' /\ CmdOK'
    BY <1>a, <1>3 DEF FlagsOK, CmdOK, MSE, files, ram, pinPart, Did
  <2>4. SealedAlone'
    BY <1>a, <1>3, ContentFacts DEF SealedAlone, ContentsOK, MSE, files, ram, pinPart, Did
  <2> QED
    BY <2>1, <2>2, <2>3, <2>4
<1>4. ASSUME NEW lk \in LockKeys, Enable(lk)
      PROVE  ContentsOK' /\ NumbersOK' /\ FlagsOK' /\ CmdOK' /\ SealedAlone'
  <2>1. ContentsOK'
    BY <1>a, <1>4, ContentFacts DEF ContentsOK, Enable, files, ram, pinPart, Did
  <2>2. NumbersOK'
    BY <1>a, <1>4, KeyAssumption DEF NumbersOK, Enable, files, ram, pinPart, Did
  <2>3. FlagsOK' /\ CmdOK'
    BY <1>a, <1>4 DEF FlagsOK, CmdOK, Enable, files, ram, pinPart, Did
  <2>4. SealedAlone'
    BY <1>a, <1>4, ContentFacts DEF SealedAlone, ContentsOK, Enable, files, ram, pinPart, Did
  <2> QED
    BY <2>1, <2>2, <2>3, <2>4
<1>5. ASSUME NEW lk \in LockKeys, Unlock(lk)
      PROVE  ContentsOK' /\ NumbersOK' /\ FlagsOK' /\ CmdOK' /\ SealedAlone'
  <2>1. ContentsOK'
    BY <1>a, <1>5, ContentFacts DEF ContentsOK, Unlock, files, ram, pinPart, Did
  <2>2. NumbersOK'
    BY <1>a, <1>5, KeyAssumption DEF NumbersOK, Unlock, files, ram, pinPart, Did
  <2>3. FlagsOK' /\ CmdOK'
    BY <1>a, <1>5 DEF FlagsOK, CmdOK, Unlock, files, ram, pinPart, Did
  <2>4. SealedAlone'
    BY <1>a, <1>5, ContentFacts DEF SealedAlone, ContentsOK, Unlock, files, ram, pinPart, Did
  <2> QED
    BY <2>1, <2>2, <2>3, <2>4
<1>6. ASSUME NEW lk \in LockKeys, UnlockFailed(lk)
      PROVE  ContentsOK' /\ NumbersOK' /\ FlagsOK' /\ CmdOK' /\ SealedAlone'
  <2>1. ContentsOK'
    BY <1>a, <1>6, ContentFacts DEF ContentsOK, UnlockFailed, files, ram, pinPart, Did
  <2>2. NumbersOK'
    BY <1>a, <1>6, KeyAssumption DEF NumbersOK, UnlockFailed, files, ram, pinPart, Did
  <2>3. FlagsOK' /\ CmdOK'
    BY <1>a, <1>6 DEF FlagsOK, CmdOK, UnlockFailed, files, ram, pinPart, Did
  <2>4. SealedAlone'
    BY <1>a, <1>6, ContentFacts DEF SealedAlone, ContentsOK, UnlockFailed, files, ram, pinPart, Did
  <2> QED
    BY <2>1, <2>2, <2>3, <2>4
<1>7. CASE Disable
  <2>1. ContentsOK'
    BY <1>a, <1>7, ContentFacts DEF ContentsOK, Disable, files, ram, pinPart, Did
  <2>2. NumbersOK'
    BY <1>a, <1>7, KeyAssumption DEF NumbersOK, Disable, files, ram, pinPart, Did
  <2>3. FlagsOK' /\ CmdOK'
    BY <1>a, <1>7 DEF FlagsOK, CmdOK, Disable, files, ram, pinPart, Did
  <2>4. SealedAlone'
    BY <1>a, <1>7, ContentFacts DEF SealedAlone, ContentsOK, Disable, files, ram, pinPart, Did
  <2> QED
    BY <2>1, <2>2, <2>3, <2>4
<1>8. CASE Export
  <2>1. ContentsOK'
    BY <1>a, <1>8, ContentFacts DEF ContentsOK, Export, files, ram, pinPart, Did
  <2>2. NumbersOK'
    BY <1>a, <1>8, KeyAssumption DEF NumbersOK, Export, files, ram, pinPart, Did
  <2>3. FlagsOK' /\ CmdOK'
    BY <1>a, <1>8 DEF FlagsOK, CmdOK, Export, files, ram, pinPart, Did
  <2>4. SealedAlone'
    BY <1>a, <1>8, ContentFacts DEF SealedAlone, ContentsOK, Export, files, ram, pinPart, Did
  <2> QED
    BY <2>1, <2>2, <2>3, <2>4
<1>9. ASSUME NEW backup \in Backups, Import(backup)
      PROVE  ContentsOK' /\ NumbersOK' /\ FlagsOK' /\ CmdOK' /\ SealedAlone'
  <2>0. backup \in Sealed \cup {None}
    BY <1>a, <1>9, BackupTypes
  <2>1. ContentsOK'
    BY <1>a, <1>9, ContentFacts, <2>0 DEF ContentsOK, Import, files, ram, pinPart, Did
  <2>2. NumbersOK'
    BY <1>a, <1>9, KeyAssumption DEF NumbersOK, Import, files, ram, pinPart, Did
  <2>3. FlagsOK' /\ CmdOK'
    BY <1>a, <1>9 DEF FlagsOK, CmdOK, Import, files, ram, pinPart, Did
  <2>4. SealedAlone'
    BY <1>a, <1>9, ContentFacts DEF SealedAlone, ContentsOK, Import, files, ram, pinPart, Did
  <2> QED
    BY <2>1, <2>2, <2>3, <2>4
<1>10. CASE Reset
  <2>0. [key |-> serial + 1, layer |-> mkek + 1] \in Contents
    <3>1. serial + 1 \in 1 .. MaxKeys /\ mkek + 1 \in 0 .. MaxKeys
      BY <1>a, <1>10, KeyAssumption DEF NumbersOK, Reset
    <3> QED
      BY <3>1, GeneratedKey
  <2>1. ContentsOK'
    BY <1>a, <1>10, ContentFacts, <2>0 DEF ContentsOK, Reset, files, ram, pinPart, Did
  <2>2. NumbersOK'
    BY <1>a, <1>10, KeyAssumption DEF NumbersOK, Reset, files, ram, pinPart, Did
  <2>3. FlagsOK' /\ CmdOK'
    BY <1>a, <1>10 DEF FlagsOK, CmdOK, Reset, files, ram, pinPart, Did
  <2>4. SealedAlone'
    BY <1>a, <1>10, ContentFacts DEF SealedAlone, ContentsOK, Reset, files, ram, pinPart, Did
  <2> QED
    BY <2>1, <2>2, <2>3, <2>4
<1>11. CASE Boot
  <2>0. serial < MaxKeys => [key |-> serial + 1, layer |-> 0] \in Contents
    <3>1. serial < MaxKeys => serial + 1 \in 1 .. MaxKeys /\ 0 \in 0 .. MaxKeys
      BY <1>a, KeyAssumption DEF NumbersOK
    <3> QED
      BY <3>1, GeneratedKey
  <2>1. ContentsOK'
    BY <1>a, <1>11, ContentFacts, <2>0 DEF ContentsOK, Boot, files, ram, pinPart, Did, Stored
  <2>2. NumbersOK'
    BY <1>a, <1>11, KeyAssumption DEF NumbersOK, Boot, files, ram, pinPart, Did
  <2>3. FlagsOK' /\ CmdOK'
    BY <1>a, <1>11 DEF FlagsOK, CmdOK, Boot, files, ram, pinPart, Did
  <2>4. SealedAlone'
    BY <1>a, <1>11, ContentFacts DEF SealedAlone, ContentsOK, Boot, files, ram, pinPart, Did, Stored
  <2> QED
    BY <2>1, <2>2, <2>3, <2>4
<1>12. CASE UNCHANGED vars
  <2>1. ContentsOK'
    BY <1>a, <1>12, ContentFacts DEF ContentsOK, vars, pinPart, files, ram, Did
  <2>2. NumbersOK'
    BY <1>a, <1>12, KeyAssumption DEF NumbersOK, vars, pinPart, files, ram, Did
  <2>3. FlagsOK' /\ CmdOK'
    BY <1>a, <1>12 DEF FlagsOK, CmdOK, vars, pinPart, files, ram, Did
  <2>4. SealedAlone'
    BY <1>a, <1>12, ContentFacts DEF SealedAlone, ContentsOK, vars, pinPart, files, ram, Did
  <2> QED
    BY <2>1, <2>2, <2>3, <2>4
<1> QED
  BY <1>1, <1>2, <1>3, <1>4, <1>5, <1>6, <1>7, <1>8, <1>9, <1>10, <1>11, <1>12 DEF Next

\* The invariant holds in every reachable state.
THEOREM KeyInvariant == Spec => []Inv
BY InitInv, NextInv, PTL DEF Spec

\* A sealed device key never lies open beside its seal, for any lock keys and
\* any number of resets.
THEOREM SealNeverBesideKey == Spec => []SealedAlone
<1>1. Inv => SealedAlone
  BY DEF Inv
<1> QED
  BY <1>1, KeyInvariant, PTL

(***************************************************************************)
(* The action properties, one action at a time                             *)
(***************************************************************************)

\* The key in flash only changes where KeyLostOnlyWhenStale says.
LEMMA LostStep ==
    ASSUME Inv, [Next]_vars
    PROVE  Stored # None /\ Stored' # Stored =>
               cmd' \in {"RESET", "IMPORT"} \/ (cmd' = "DISABLE" /\ keydev_dec # Stored)
<1>a. ContentsOK /\ SealedAlone
  BY TypeParts DEF Inv
<1> USE <1>a, ContentFacts DEF ContentsOK, SealedAlone, Stored, files, Did
<1>1. CASE SetPIN \/ EnterPIN \/ MSE \/ Export
  BY <1>1 DEF SetPIN, EnterPIN, MSE, Export
<1>2. ASSUME NEW lk \in LockKeys, Enable(lk) PROVE Stored' = Stored
  BY <1>2 DEF Enable
<1>3. ASSUME NEW lk \in LockKeys, Unlock(lk) \/ UnlockFailed(lk) PROVE Stored' = Stored
  BY <1>3 DEF Unlock, UnlockFailed
<1>4. CASE Disable
  BY <1>4 DEF Disable
<1>5. ASSUME NEW backup \in Backups, Import(backup) PROVE cmd' = "IMPORT"
  BY <1>5 DEF Import
<1>6. CASE Reset
  BY <1>6 DEF Reset
<1>7. CASE Boot
  BY <1>7 DEF Boot
<1>8. CASE UNCHANGED vars
  BY <1>8 DEF vars
<1> QED
  BY <1>1, <1>2, <1>3, <1>4, <1>5, <1>6, <1>7, <1>8 DEF Next

\* No command but a reset, an import or a disable with a stale copy in RAM
\* loses the device key.
THEOREM KeyIsKept == Spec => KeyLostOnlyWhenStale
<1>1. Inv /\ [Next]_vars =>
        [Stored # None /\ Stored' # Stored =>
           cmd' \in {"RESET", "IMPORT"} \/ (cmd' = "DISABLE" /\ keydev_dec # Stored)]_vars
  BY LostStep
<1> QED
  BY <1>1, KeyInvariant, PTL DEF Spec, KeyLostOnlyWhenStale

\* A locked device without a key gets one only as LockOpensOnlyByKey says.
LEMMA OpenStep ==
    ASSUME Inv, [Next]_vars
    PROVE  Used = None /\ keydev_enc # None /\ Used' # None =>
               cmd' = "RESET" \/ (cmd' = "UNLOCK" /\ Used'.content = keydev_enc.content)
<1> SUFFICES ASSUME Used = None, keydev_enc # None, Used' # None
             PROVE  cmd' = "RESET" \/ (cmd' = "UNLOCK" /\ Used'.content = keydev_enc.content)
  OBVIOUS
<1>a. keydev = None /\ ~has_keydev_dec
  <2>1. ~has_keydev_dec
    <3>1. [content |-> keydev_dec, via |-> 0] # None
      BY TypeParts, KeyAssumption, NoneAssumption DEF Inv, ContentsOK
    <3> QED
      BY <3>1 DEF Used
  <2> QED
    BY <2>1 DEF Inv, SealedAlone
<1> USE <1>a DEF Used, files, ram, Did
<1>1. CASE SetPIN \/ EnterPIN \/ MSE \/ Export
  BY <1>1 DEF SetPIN, EnterPIN, MSE, Export
<1>2. ASSUME NEW lk \in LockKeys, Enable(lk) PROVE FALSE
  BY <1>2 DEF Enable
<1>3. ASSUME NEW lk \in LockKeys, Unlock(lk)
      PROVE  cmd' = "UNLOCK" /\ Used'.content = keydev_enc.content
  BY <1>3 DEF Unlock
<1>4. ASSUME NEW lk \in LockKeys, UnlockFailed(lk) PROVE FALSE
  BY <1>4 DEF UnlockFailed
<1>5. CASE Disable
  BY <1>5 DEF Disable
<1>6. ASSUME NEW backup \in Backups, Import(backup) PROVE FALSE
  BY <1>6 DEF Import
<1>7. CASE Reset
  BY <1>7 DEF Reset
<1>8. CASE Boot
  <2>1. Stored # None
    BY ContentFacts, TypeParts DEF Inv, ContentsOK, Stored
  <2> QED
    BY <1>8, <2>1 DEF Boot
<1>9. CASE UNCHANGED vars
  BY <1>9 DEF vars, pinPart, MkekOpens
<1> QED
  BY <1>1, <1>2, <1>3, <1>4, <1>5, <1>6, <1>7, <1>8, <1>9 DEF Next

\* A locked device opens to its lock key alone.
THEOREM LockHolds == Spec => LockOpensOnlyByKey
<1>1. Inv /\ [Next]_vars =>
        [Used = None /\ keydev_enc # None /\ Used' # None =>
           cmd' = "RESET" \/ (cmd' = "UNLOCK" /\ Used'.content = keydev_enc.content)]_vars
  BY OpenStep
<1> QED
  BY <1>1, KeyInvariant, PTL DEF Spec, LockOpensOnlyByKey

\* The key in use only becomes another where UsedKeyStaysOrGoes says.
LEMMA UseStep ==
    ASSUME [Next]_vars
    PROVE  Used # None /\ Used' \notin {Used, None} =>
               cmd' \in {"UNLOCK", "UNLOCK_FAILED", "DISABLE", "RESET", "BOOT"}
<1> SUFFICES ASSUME Used # None, Used' \notin {Used, None}
             PROVE  cmd' \in {"UNLOCK", "UNLOCK_FAILED", "DISABLE", "RESET", "BOOT"}
  OBVIOUS
<1> USE DEF Used, MkekOpens, files, ram, pinPart, Did
<1>1. CASE SetPIN
  BY <1>1 DEF SetPIN
<1>2. CASE EnterPIN
  BY <1>2 DEF EnterPIN
<1>3. CASE MSE \/ Export
  BY <1>3 DEF MSE, Export
<1>4. ASSUME NEW lk \in LockKeys, Enable(lk) PROVE FALSE
  BY <1>4 DEF Enable
<1>5. ASSUME NEW lk \in LockKeys, Unlock(lk) \/ UnlockFailed(lk)
      PROVE  cmd' \in {"UNLOCK", "UNLOCK_FAILED"}
  BY <1>5 DEF Unlock, UnlockFailed
<1>6. CASE Disable \/ Reset \/ Boot
  BY <1>6 DEF Disable, Reset, Boot
<1>7. ASSUME NEW backup \in Backups, Import(backup) PROVE FALSE
  BY <1>7 DEF Import
<1>8. CASE UNCHANGED vars
  BY <1>8 DEF vars
<1> QED
  BY <1>1, <1>2, <1>3, <1>4, <1>5, <1>6, <1>7, <1>8 DEF Next

\* No command but an unlock, a disabled lock, a reset or a power cycle puts
\* another key in the place of the one in use (load_keydev).
THEOREM UsedKeyIsKept == Spec => UsedKeyStaysOrGoes
<1>1. [Next]_vars =>
        [Used # None /\ Used' \notin {Used, None} =>
           cmd' \in {"UNLOCK", "UNLOCK_FAILED", "DISABLE", "RESET", "BOOT"}]_vars
  BY UseStep
<1> QED
  BY <1>1, PTL DEF Spec, UsedKeyStaysOrGoes
==============================================================================
