------------------------------ MODULE KeyDevice ------------------------------
(***************************************************************************)
(* The device key from which every credential key is derived, and what is  *)
(* done to it: lock and unlock, disabling the lock, export and import of a *)
(* backup, reset and power-up (cbor_config.c, cbor_vendor.c, cbor_reset.c, *)
(* load_keydev and scan_files of fido.c, load_mkek of kek.c).              *)
(*                                                                         *)
(* A key file holds a content: a generated key (numbered) and the number   *)
(* of the master key it is encrypted under, 0 for none.  Key 0 are zeros,  *)
(* Foreign is the key of another device's backup.  Encryption is perfect:  *)
(* opening a content with another master key gives a value equal to no     *)
(* other.  The PIN appears as whether session_pin opens the master key     *)
(* (module ClientPin says which PIN does).                                 *)
(*                                                                         *)
(* One action is one command.  A command that is refused (no token, no MSE *)
(* session, a ciphertext that does not verify) is a stuttering step, but   *)
(* an UNLOCK under a wrong key is not.                                     *)
(***************************************************************************)
EXTENDS Naturals

CONSTANTS
    LockKeys,  \* keys a platform locks with
    NoLock,    \* of a backup that no key opens
    None,      \* an empty file; no key
    MaxKeys    \* bound of the model: device keys ever generated

ASSUME KeyAssumption == MaxKeys \in Nat \ {0} /\ NoLock \notin LockKeys

Foreign == [key |-> MaxKeys + 1, layer |-> 0]
Zeros == [key |-> 0, layer |-> 0]

Contents == [key : 0 .. MaxKeys + 1, layer : 0 .. MaxKeys]
Sealed == [lock : LockKeys \cup {NoLock}, content : Contents]

ASSUME NoneAssumption == None \notin Contents \cup Sealed \cup [content : Contents, via : 0 .. MaxKeys]

VARIABLES
    keydev,          \* EF_KEY_DEV
    keydev_enc,      \* EF_KEY_DEV_ENC: a content sealed with a lock key
    mkek,            \* number of the master key in EF_MKEK
    serial,          \* device keys generated so far
    pinSet, opened,  \* a PIN wraps the master key; session_pin opens it
    keydev_dec, has_keydev_dec,
    mse_init,
    exported,        \* history: the backup that the platform kept
    cmd              \* history: the last command that did something

files   == <<keydev, keydev_enc, mkek, serial>>
pinPart == <<pinSet, opened>>
ram     == <<keydev_dec, has_keydev_dec, mse_init>>
vars    == <<files, pinPart, ram, exported, cmd>>

TypeOK ==
    /\ keydev \in Contents \cup {None}
    /\ keydev_enc \in Sealed \cup {None}
    /\ mkek \in 1 .. MaxKeys /\ serial \in 1 .. MaxKeys /\ mkek <= serial
    /\ pinSet \in BOOLEAN /\ opened \in BOOLEAN
    /\ keydev_dec \in Contents /\ has_keydev_dec \in BOOLEAN /\ mse_init \in BOOLEAN
    /\ exported \in Sealed \cup {None}
    /\ cmd \in {"BOOT", "PIN", "MSE", "ENABLE", "DISABLE", "UNLOCK", "UNLOCK_FAILED",
                "EXPORT", "IMPORT", "RESET"}

(***************************************************************************)
(* Helpers                                                                 *)
(***************************************************************************)

\* load_mkek().
MkekOpens == ~pinSet \/ opened

\* load_keydev(): a key decrypted by UNLOCK is used as it is, the one in the
\* file is opened with the master key.
Used ==
    IF has_keydev_dec THEN [content |-> keydev_dec, via |-> 0]
    ELSE IF keydev = None \/ ~MkekOpens THEN None
    ELSE [content |-> keydev, via |-> mkek]

\* The device key in flash, open or sealed.
Stored == IF keydev # None THEN keydev ELSE IF keydev_enc # None THEN keydev_enc.content ELSE None

Did(name) == cmd' = name

(***************************************************************************)
(* PIN and MSE                                                             *)
(***************************************************************************)

\* setPIN wraps the master key and forgets what opens it.
SetPIN ==
    /\ ~pinSet
    /\ pinSet' = TRUE /\ opened' = FALSE
    /\ Did("PIN")
    /\ UNCHANGED <<files, ram, exported>>

\* The right PIN in getPinToken or changePIN.
EnterPIN ==
    /\ pinSet
    /\ opened' = TRUE
    /\ Did("PIN")
    /\ UNCHANGED <<files, pinSet, ram, exported>>

\* Key agreement for the ciphertexts of ENABLE and UNLOCK.
MSE ==
    /\ mse_init' = TRUE
    /\ Did("MSE")
    /\ UNCHANGED <<files, pinPart, keydev_dec, has_keydev_dec, exported>>

(***************************************************************************)
(* Lock                                                                    *)
(***************************************************************************)

EnableKeepsZeros(lk) == \* mutant
    /\ keydev # None /\ mse_init
    /\ keydev_enc' = [lock |-> lk, content |-> keydev]
    /\ keydev' = Zeros
    /\ Did("ENABLE")
    /\ UNCHANGED <<mkek, serial, pinPart, ram, exported>>

\* AUT_ENABLE seals the file as it is, under the master key's encryption.
Enable(lk) ==
    /\ keydev # None /\ mse_init
    /\ keydev_enc' = [lock |-> lk, content |-> keydev]
    /\ keydev' = None
    /\ Did("ENABLE")
    /\ UNCHANGED <<mkek, serial, pinPart, ram, exported>>

DisableAfterZeroing == \* mutant
    /\ keydev_enc # None /\ has_keydev_dec
    /\ keydev' = Zeros
    /\ keydev_dec' = Zeros
    /\ keydev_enc' = None
    /\ Did("DISABLE")
    /\ UNCHANGED <<mkek, serial, pinPart, has_keydev_dec, mse_init, exported>>

\* AUT_DISABLE stores the decrypted key and zeroes it; has_keydev_dec stays.
Disable ==
    /\ keydev_enc # None /\ has_keydev_dec
    /\ keydev' = keydev_dec
    /\ keydev_dec' = Zeros
    /\ keydev_enc' = None
    /\ Did("DISABLE")
    /\ UNCHANGED <<mkek, serial, pinPart, has_keydev_dec, mse_init, exported>>

Unlock(lk) ==
    /\ mse_init
    /\ keydev_enc # None /\ keydev_enc.lock = lk
    /\ keydev_dec' = keydev_enc.content
    /\ has_keydev_dec' = TRUE
    /\ Did("UNLOCK")
    /\ UNCHANGED <<files, pinPart, mse_init, exported>>

UnlockFailedCounts(lk) == \* mutant
    /\ mse_init
    /\ keydev_enc # None /\ keydev_enc.lock # lk
    /\ keydev_dec' = Zeros
    /\ has_keydev_dec' = TRUE
    /\ Did("UNLOCK_FAILED")
    /\ UNCHANGED <<files, pinPart, mse_init, exported>>

\* A wrong key: the library zeroes its output buffer, keydev_dec.
UnlockFailed(lk) ==
    /\ mse_init
    /\ keydev_enc # None /\ keydev_enc.lock # lk
    /\ keydev_dec' = Zeros
    /\ Did("UNLOCK_FAILED")
    /\ UNCHANGED <<files, pinPart, has_keydev_dec, mse_init, exported>>

(***************************************************************************)
(* Backup                                                                  *)
(***************************************************************************)

Export ==
    /\ has_keydev_dec
    /\ exported' = keydev_enc
    /\ Did("EXPORT")
    /\ UNCHANGED <<files, pinPart, ram>>

\* What a platform may send: a backup of this device, one of another, noise, nothing.
Backups ==
    {[lock |-> lk, content |-> Foreign] : lk \in LockKeys}
    \cup {exported, [lock |-> NoLock, content |-> Zeros], None}

ImportBeside(backup) == \* mutant
    /\ keydev_enc' = backup
    /\ Did("IMPORT")
    /\ UNCHANGED <<keydev, mkek, serial, pinPart, ram, exported>>

\* The backup is stored as it comes and the open key erased.
Import(backup) ==
    /\ keydev_enc' = backup
    /\ keydev' = None
    /\ Did("IMPORT")
    /\ UNCHANGED <<mkek, serial, pinPart, ram, exported>>

(***************************************************************************)
(* Reset and power                                                         *)
(***************************************************************************)

\* New files: a new key under a new master key.  The RAM stays.
Reset ==
    /\ serial < MaxKeys
    /\ serial' = serial + 1 /\ mkek' = mkek + 1
    /\ keydev' = [key |-> serial + 1, layer |-> mkek + 1]
    /\ keydev_enc' = None
    /\ pinSet' = FALSE
    /\ Did("RESET")
    /\ UNCHANGED <<opened, ram, exported>>

\* scan_files() makes a key when there is none, and leaves it open for the
\* master key exists already.
Boot ==
    /\ keydev_dec' = Zeros /\ has_keydev_dec' = FALSE /\ mse_init' = FALSE
    /\ opened' = FALSE
    /\ IF Stored = None
       THEN /\ serial < MaxKeys
            /\ serial' = serial + 1
            /\ keydev' = [key |-> serial + 1, layer |-> 0]
       ELSE UNCHANGED <<serial, keydev>>
    /\ Did("BOOT")
    /\ UNCHANGED <<keydev_enc, mkek, pinSet, exported>>

(***************************************************************************)
(* Specification                                                           *)
(***************************************************************************)

\* After the first boot of a factory-new device.
Init ==
    /\ keydev = [key |-> 1, layer |-> 1] /\ keydev_enc = None
    /\ mkek = 1 /\ serial = 1
    /\ pinSet = FALSE /\ opened = FALSE
    /\ keydev_dec = Zeros /\ has_keydev_dec = FALSE /\ mse_init = FALSE
    /\ exported = None
    /\ cmd = "BOOT"

Next ==
    \/ SetPIN
    \/ EnterPIN
    \/ MSE
    \/ \E lk \in LockKeys : Enable(lk) \/ Unlock(lk) \/ UnlockFailed(lk)
    \/ Disable
    \/ Export
    \/ \E backup \in Backups : Import(backup)
    \/ Reset
    \/ Boot

Spec == Init /\ [][Next]_vars

(***************************************************************************)
(* Properties                                                              *)
(***************************************************************************)

\* A sealed device key never lies open beside its seal: the lock protects
\* what the flash holds, whatever was enabled, disabled or imported before.
SealedAlone == keydev_enc # None => keydev = None

\* A locked device that has no key to use regains one only by an UNLOCK with
\* the lock's key, and then the sealed one, or by a reset: not by a PIN, not by
\* a wrong UNLOCK, not by a power cycle.
LockOpensOnlyByKey ==
    [][Used = None /\ keydev_enc # None /\ Used' # None =>
        cmd' = "RESET" \/ (cmd' = "UNLOCK" /\ Used'.content = keydev_enc.content)]_vars

\* The device key in flash is lost only by a reset, by an import, or by
\* disabling the lock while the RAM holds something else than the sealed key
\* (zeros of an earlier disable or of a failed UNLOCK, a key from before an
\* import or a reset).
KeyLostOnlyWhenStale ==
    [][Stored # None /\ Stored' # Stored =>
        cmd' \in {"RESET", "IMPORT"} \/ (cmd' = "DISABLE" /\ keydev_dec # Stored)]_vars

\* The key in use is replaced by another one only by unlocking (also in vain,
\* after an earlier success), disabling the lock, a reset or a power cycle:
\* locking and importing leave it or take it away.
UsedKeyStaysOrGoes ==
    [][Used # None /\ Used' \notin {Used, None} =>
        cmd' \in {"UNLOCK", "UNLOCK_FAILED", "DISABLE", "RESET", "BOOT"}]_vars
==============================================================================
