# A TLA+ development of the DI-TI-FIDO-key firmware

This directory models the logic of the security-key firmware in `src/src/`: a
CTAP 2.1 authenticator (FIDO2) with an OATH and a Yubikey-style OTP application
beside it, on a two-core microcontroller (the README names the ESP32-S3). TLC checks the models on small instances;
the TLA+ proof system proves what matters most for every value of the constants.
File names below without a path are in `src/src/`.

1. [The system](#1-the-system)
2. [The models](#2-the-models)
3. [What the runs check](#3-what-the-runs-check)
4. [Bounds](#4-bounds)
5. [Fairness](#5-fairness)
6. [What is proved](#6-what-is-proved)
7. [Where code and documents disagree](#7-where-code-and-documents-disagree)
8. [What is not modelled](#8-what-is-not-modelled)
9. [Plan](#9-plan)

## 1. The system

One core answers USB packets and the button; the other runs `cbor_thread`
(`cbor.c`), which takes one CTAP command at a time from a queue and executes it
to its end. OATH and OTP commands arrive as APDUs (`oath.c`, `otp.c`) or as
keyboard reports (`otp.c`). Commands therefore do not interleave with each
other, with one exception: the keyboard callbacks of `otp.c` run on the USB core
while the other core executes a CTAP command, and both use `apdu`. Otherwise
what interleaves is *sequences* of commands, sent by platforms that do
not know of each other, with power cycles and resets between any two; and power
may be cut inside a command, while its writes are on their way to the flash. State is
of two kinds, and most hazards come from the two getting out of step:

* **files in flash** (`files.c`, `files.h`), which survive a power cycle and are
  emptied by `authenticatorReset`;
* **static variables in RAM**, which a power cycle clears and a reset does *not*.

| Component | Files | RAM | Operations | What makes it correct |
|---|---|---|---|---|
| **clientPIN** `cbor_client_pin.c` | EF_PIN (tries, length, hash), EF_MINPINLEN (minimum, forced change), EF_AUTHTOKEN | `session_pin`, `paut`, `new_pin_mismatches`, `needs_power_cycle`, `hkey` | getPINRetries, getKeyAgreement, setPIN, changePIN, getPinToken(s) | each guess costs a try; a token belongs to the present PIN; a PIN that became too short must be changed |
| **pinUvAuthToken** `cbor_client_pin.c`, checked everywhere | EF_AUTHTOKEN | `paut` (in use, verified, permissions, relying party) | begin, verify, spend, reset | verification is fresh, permissions are those granted, the first registration binds the relying party |
| **Master key** `kek.c` | EF_MKEK | `session_pin` | load, store, wrap, unwrap | the stored PIN, and only it, opens the master key |
| **Device key, lock and backup** `fido.c`, `cbor_vendor.c`, `cbor_config.c` | EF_KEY_DEV, EF_KEY_DEV_ENC | `keydev_dec`, `has_keydev_dec`, `mse` | scan_files, AUT_ENABLE, AUT_DISABLE, UNLOCK, export, import | never open beside its seal; a locked device opens to the lock's key only |
| **Credential store** `credential.c` | EF_CRED slots, EF_RP records | none | credential_store, deletion, update | the records count the credentials; one credential per user and relying party |
| **credentialManagement** `cbor_cred_mgmt.c` | the store | two pairs of counters, the hash of the enumeration | enumerate (begin/next, twice), delete, update, metadata | an undisturbed enumeration reports everything once |
| **makeCredential** `cbor_make_credential.c` | the store | `paut` | register | presence, verification, binding |
| **getAssertion, getNextAssertion** `cbor_get_assertion.c` | the store, the sign counter | the saved list, its index and total, the request it came from | select, sign, go on | protected credentials need verification; the saved list is answered once |
| **authenticatorReset** `cbor_reset.c` | all | none | delete every file, scan anew | nothing of the old owner stays usable |
| **authenticatorConfig** `cbor_config.c` | EF_MINPINLEN, key files, EF_OPTS | `paut` | setMinPINLength, AUT_ENABLE/DISABLE, enterprise attestation | the minimum only rises |
| **largeBlobs** `cbor_large_blobs.c` | EF_LARGEBLOB | fragment buffer, expected offset and length | get, write by fragments | only a complete and valid array replaces the old one |
| **OATH** `oath.c` | EF_OATH_CRED slots, EF_OATH_CODE, EF_OTP_PIN | `validated`, challenge | put, delete, calculate, set code, validate, reset, set/change/verify PIN | names unique; HOTP factors never repeat; wrong PINs cost tries |
| **OTP** `otp.c` | two slots, each configuration + counter | session counters, `scanned`, `config_seq`, frame buffers | configure, delete, update, swap, status, press | codes grow across presses, wraps and power cycles |
| **U2F** `cmd_register.c`, `cmd_authenticate.c` | sign counter | none | register, authenticate | the counter grows |
| **Presence, CBOR thread** `fido.c`, `cbor.c`, report callbacks in `otp.c` | none | two queues, `apdu`, the status byte, the frame being sent | run a command, wait for the button, send an answer or a frame part | every command is answered, once, with its own outcome; a touch serves one command |
| **File system** (SDK) | flash pages | a page cache, written later by the other core | put, delete, flush | what was acknowledged becomes durable |

*Interactions.* getPinToken sets `session_pin` (master key) and `paut` (token).
Every command with a token calls `verify` and reads `paut`; makeCredential binds
it and getAssertion spends it. All credential keys derive from the device key,
which needs the master key, which needs `session_pin`. makeCredential,
getAssertion and credentialManagement share the store. Reset empties the files
of all of them; each keeps its own RAM. Whatever a command puts into a file is
read at once and reaches the flash later, release by release (`low_flash_available`).

*Hard behaviours.* RAM that outlives a reset (mismatch counter, verified flag,
decrypted device key, saved assertion list, enumeration counters); a position
and a total kept between commands of several platforms; two files written one
after the other; values compared at one width and stored at another; counters in
a byte; two mechanisms that set one flag. `PROJECT.json` lists each of them under
"hazards", at its line.

## 2. The models

One action is one command (an APDU, a button press, a power cycle); in
`CborThread` it is one step of a core between two accesses to what the cores
share. A command that is refused without a trace is a stuttering step; a refusal
that leaves something behind (a lost try, a saved list, a forgotten hash, a
stored credential) is an action of its own. Cryptography is perfect: a hash or a
ciphertext *is* what it was made from plus the key, and opening it with another
key gives a value equal to no other. "History" variables record what happened,
for the properties; no guard of a code action reads them, except the counters
that bound the model.

| Module | Models | Correspondence |
|---|---|---|
| `ClientPin` | clientPIN with the files it shares: master key, minimum length, reset | EF_PIN is `pin`, `retries`; EF_MINPINLEN is `minPin`, `forceChange`; EF_MKEK is `mkek` (open, or the PIN that wraps it); `paut.holder` is the PIN with which the token now valid was obtained |
| `PinGate` | the abstract promise: a secret, a budget, at most one live token earned with the present secret | `ClientPin!GateSpec` maps `retries` to the budget and `paut.holder` to the live token |
| `PinStorage` | `ClientPin` (EXTENDS it) on a flash that lags behind | `Files` is what the program reads, `pending` the releases not yet written, `flashed` the flash; each command appends its releases in the order of its `low_flash_available` calls |
| `PinToken` | the token from grant to loss and every command that checks it | `paut` as in the code; the PIN is reduced to whether one is set |
| `LargeBlobs` | the fragmented write of largeBlobs, composed with `PinToken` (EXTENDS it): any command may come between two fragments | `expectedLength` and `got` (`temp_lba` up to `expectedNextOffset`) are the statics; `acked` is what a platform was told |
| `CredStore` | EF_CRED and EF_RP under registration, overwrite, update, deletion, and the device key that seals credentials | `Similar` is the comparison of user ids up to the shorter length; the count byte is modulo `ByteMod`; `devKey` is what `load_keydev` returns, `Loads` whether `credential_load` opens a slot |
| `CredStorage` | `CredStore` (EXTENDS it) and the sign counter on the same flash | every command that answers a counter raises it in a release of its own, after the credential's |
| `CredMgmt` | both enumerations over `CredStore` (EXTENDS it) | the four counters and `rpIdHashx` of the code; `NoHash` once it was freed; `EnumCredsBeginFails` and `EnumCredsNextFails` are the refusals for a credential that the device key in use does not open |
| `Assertion` | makeCredential's store, getAssertion's selection, getNextAssertion's list | `credsx`, `credentialCounter`; `savedx` is the request kept with the list |
| `KeyDevice` | device key, lock, backup, master key number | key files hold a key and the master key it is encrypted under; `Used` is what `load_keydev` returns |
| `Oath` | the OATH applet's writing APDUs | one slot record per EF_OATH_CRED file; `imf` is the moving factor; `under` is the access code when the session was last validated |
| `Otp` | two slots, counters, the press | a code is the pair of counters it is made from; `Lost` is a counter that an update cut off |
| `OtpStorage` | `Otp` (EXTENDS it) on a flash that lags behind | as `PinStorage`; each command is the action of `Otp` and at most one release; `used` counts what was typed, outside the flash |
| `CborThread` | the two cores, their queues, the button wait, `apdu`, the keyboard callbacks and the host that polls them | `toCard`, `toUsb` are the queues; `rdata`, `rlen`, `sw` are `apdu`'s; `left`, `curr`, `exp` are the send size and the two sequence numbers of `otp.c`; `over` is how far a frame still to be read was written over |
| `MC*` | small instances of the above for TLC | model values, sizes, symmetry |
| `*Proofs` | the theorems; `ClientPinProofs` is also about `PinStorage`, `PinTokenProofs` about `LargeBlobs`, `CredStoreProofs` about `CredMgmt` and `CredStorage`, `OtpProofs` about `OtpStorage` | each EXTENDS the modules it is about |

Composition: `PinStorage`, `CredStorage`, `OtpStorage`, `CredMgmt` and `LargeBlobs` reuse the
actions of the module they extend, so what a command does is written once. Every
credentialManagement command is shown to be a step of the store or to leave it
alone (`ImplementsStore`), every fragment a `WriteLargeBlob` of `PinToken` or a
stutter (`ImplementsToken`). The other modules overlap where components share
state, each keeping of the other's state what its own properties need:
`PinToken` has of the PIN only whether it is set, `KeyDevice` only whether
`session_pin` opens the master key, `Assertion` takes "verified" as a parameter
that `PinToken` decides.

Modelling decisions a reader may question:

* **Power cuts** (`PinStorage`, `CredStorage`, `OtpStorage`). `file_put_data` changes what the
  program reads, `low_flash_available` releases it, and the SDK's other core
  writes the releases in order. The SDK is a submodule absent from the
  repository, so this is an assumption, stated in `Flush` and `PowerCut`; a
  release of several files may be torn by a cut. A command is still one action:
  a cut inside it leaves some of its releases and no RAM, which is what the cut
  after it leaves when it loses the others. In the other modules files change
  at once and power is lost between two commands, after their writes have landed.
  What a platform has seen is kept outside the flash (`lost`, `used`, `answered`):
  a cut brings files back, not what somebody learnt.
* **The USB core** (`CborThread`). Its side of the queues, the start of the
  thread and the button timeout are the SDK's. The model assumes what the code
  relies on: one event at a time, each acknowledged, one answer to each request
  for the button; and that it calls the button callback of `otp.c` only while no
  command is under way. It is not assumed that the keyboard interface is quiet.
* **Lengths of answers** (`CborThread`). A handler is its outcome; an answer has
  a body of one length or none.
* **Large-blob units** (`LargeBlobs`). A byte carries the name of the array it
  was cut from, so a checksum passes for one whole array only.
* **PIN lengths** (`ClientPin`): the 64th byte of the padded PIN must be zero, so
  a PIN of 64 bytes is refused: `huge`.
* **getPinToken with a foreign key agreement** decrypts to noise: a guess that
  matches no PIN (`NoPin`), which costs a try; setPIN and changePIN fail their
  HMAC first and cost none.
* **Usage timers** of the token are never observed (`cbor_client_pin.c:246-265`
  is called from nowhere) and the check of `in_use` in `verify` is commented out
  (lines 222-223): neither limits a token in the models.
* **Deletion and update** of a credential are permitted by the relying party the
  request names (`cbor_cred_mgmt.c:333`), not the credential's.
* **A user's slot** (`Assertion`): a resident registration goes to the first
  free slot or over any credential of its relying party; `CredStore` says which.
* **After a deletion** the hash is read through a pointer into the deleted file
  (`cbor_cred_mgmt.c:340`); the model takes it as still readable.
* **Device key after UNLOCK**: the lock seals the file as it is, under the
  master key's encryption, and `load_keydev` (`fido.c:173`) uses what UNLOCK
  restored without removing that layer. The model keeps the layer, so the key
  in use under a lock differs from the one without; `has_keydev_dec` also
  stays set after AUT_DISABLE and a reset.
* **A power cycle opens OATH** even under an access code: `validated` starts as
  TRUE (`oath.c:47`), and a right OTP PIN sets the same flag. VALIDATE compares as
  many bytes of the response as were sent (`oath.c:299`), so a response too short
  to show the key may open the session and an empty one does: `Validate(None)`.
  What a new code does promise is `CodeClosesSessions`.
* **The device key in use** changes with a lock, an unlock, a backup, a reset
  and at power-up, in the store to any key or none (`KeyChanges`); `KeyDevice`
  says which. Loading and opening depend on nothing else.

## 3. What the runs check

All passing runs explore their whole state space and find no deadlock.

| Run | States | Properties | What they say |
|---|---|---|---|
| `client_pin` | 50,548 | `MkekFollowsPin` | the master key is wrapped under the stored PIN, and open exactly while there is none |
| | | `TokenHolderCanLoadKey` | who holds a usable token can still load the device key, whatever others guessed or changed |
| | | `TokenFollowsPin` | the token that verifies was obtained with the present PIN |
| | | `ShortPinIsForced` | a PIN below the minimum is under a forced change, in any order of the two settings |
| | | `GateSpec` | the component implements `PinGate` |
| `pin_storage` | 161,670 | `MkekSurvivesCuts` | wherever power is cut, the stored PIN opens the master key or the next right PIN wraps it |
| | | `PaidAcrossCuts` | tries left and guesses answered never exceed the budget by more than the releases that cuts lost |
| | | `ShortPinForcedAcrossCuts` | a cut between releases leaves no PIN that is too short without its forced change |
| | | `OldTokenStaysDead` | a token of the old PIN that a cut keeps is never usable |
| `pin_token` | 43,050 | `UvIsFresh` | a response with UV rests on a PIN entered since power-up and not spent since |
| | | `ServedAsGranted` | a token serves what was asked for with the PIN; once spent large blobs only; after a loss nothing |
| | | `RegistrationBindsToken` | after a registration, also one refused later, the token serves that relying party only |
| | | `GrantedLbwLasts` | a permission to write large blobs outlasts every assertion and registration |
| | | `AckedIsStored` | an array acknowledged to its end, with no other start between, is the one stored |
| `cred_mgmt` | 175,720 | `RpCountsMatch` | one record per relying party with credentials, its byte their number |
| | | `OnePerIsolatedUser` | a second registration of a user replaces the first under the same device key (for ids that are no prefix of another), whatever keys were used between |
| | | `RpEnumerationExact`, `CredEnumerationExact` | an undisturbed enumeration, interleaved with the other one, reports everything once |
| | | `HashOutlivesEnumeration` | the hash an enumeration continues with is not freed under it, unless a next was refused for want of the device key |
| `cred_storage` | 989,656 | `CountersGrow` | a counter is repeated only as often as cuts lost releases |
| | | `DriftOnlyByCuts` | records and credentials differ by no more than torn releases put out of step, until a relying party outgrows a byte |
| | | `RefusedStoresNothing` | a full store leaves no trace, although the credential is put before its record is looked for |
| `assertion` | 236,137 | `ProtectedNeedsUv` | credProtect 2 and 3 hold also for answers from a saved list |
| | | `NextAssertionsExact` | a saved list, also one cut to its size, is answered once each, newest first, and ends exactly at its end |
| `key_device` | 22,727 | `SealedAlone` | a sealed key is never open beside its seal |
| | | `LockOpensOnlyByKey` | a locked device without a key regains one only by its lock's key or a reset |
| | | `KeyLostOnlyWhenStale` | the key in flash is lost only by reset, import, or disabling with a stale RAM copy |
| | | `UsedKeyStaysOrGoes` | locking and importing never replace the key in use by another |
| `oath` | 47,572 | `NamesUnique` | a name is stored once, over any holes |
| | | `HotpMovesOn` | no credential answers two codes from one factor |
| | | `CodeClosesSessions` | a session from before an access code does not outlive its setting, whatever validated it |
| | | `TriesArePaid` | wrong PINs cost tries, and nothing but a right PIN (or a new one) restores them |
| `otp` | 1.32 million (under `MCView` the count varies a little) | `CodesGrow` | between cuts, a later code has later counters, except where the property names what disturbs them |
| | | `LostOnlyWithCode` | a configuration goes only with its access code, a reset or a cut that loses releases, never by a swap |
| | | `RepeatsAreLostWrites` | a cut brings a counter behind the codes typed from it by no more than the releases it lost |
| `cbor_thread` | 546,061 | `AnswerIsOwn` | what is sent is the outcome of that command, unless the keyboard interface came in between |
| | | `TouchIsForThisCommand` | a handler goes on only with a press made for it, and no stray event runs a command twice |
| | | `FrameReadWhole` | a frame whose bytes are all read was collected in order, and unmixed if nothing was written over it |
| | | `EveryCommandAnswered` | every command is answered in the end (liveness) |

Every module also defines a type invariant, which carries the ranges that the
code's widths impose (a counter that would wrap, an index that would leave its
list); it belongs to the inductive invariants of section 6. For each property
`PROJECT.json` names a mutant: a plausible bug in a mapped definition, under
which TLC finds the property violated. The two violation runs are in section 7.

Exceptions inside properties are behaviours of the code, not conveniences:

* `CodesGrow` exempts a configuration that is not `steady`. The usage counter is
  raised only by `init_otp`, at the first press of a power-up; a status report
  before it (`otp.c:328-331`) takes its place, so the first codes of that
  power-up may repeat pairs. A swap (`otp.c:408-430`) moves the configurations
  but not the session counters. An update (`otp.c:404`) writes the slot without
  its counter. At 0x7fff the usage counter stops.
* `RepeatsAreLostWrites` exempts lost releases: a press types its code before it
  writes the counter (`otp.c:231-244`, `290-305`), so a cut may repeat the moving
  factor or the usage counter. It also exempts a configuration that is `loose`: one
  whose counter an update cut off, or that a torn swap left in both slots.
* `FrameReadWhole` exempts parts that were written over: `apdu.rdata` stays at
  `otp_frame_tx` after a keyboard frame, and the status that ends a configuration
  (`otp.c:332-342`), the HOTP code of a press (`otp.c:223`) or the answer of a CTAP
  command that a frame interrupted is written there.
* `PaidAcrossCuts` exempts lost releases: the spent try is released before the PIN
  is compared and not awaited (`cbor_client_pin.c:609`), so a cut after the answer
  gives it back.
* `OnePerIsolatedUser` is about credentials under one device key: a registration
  skips what it cannot open (`credential.c:265`), which stays and takes a slot.
* `HashOutlivesEnumeration` and `CredEnumerationExact` end at a next that is refused
  because the device key no longer opens the credential: it frees the hash and
  allows another call (`cbor_cred_mgmt.c:226-236`, `415-417`).
* `KeyLostOnlyWhenStale` exempts AUT_DISABLE with a stale copy:
  `cbor_config.c:138` zeroes the decrypted key and leaves `has_keydev_dec` set,
  so a second lock and disable would store zeros.
* `AnswerIsOwn` exempts a command during which the keyboard interface ran. A
  report callback makes `res_APDU` point elsewhere and sets `apdu.sw`
  (`otp.c:597`, `otp.c:554`); an error written to `res_APDU[-1]` (`cbor.c:109`)
  then misses the status byte, which is still zero, and the answer reads as success.
* `MkekSurvivesCuts` exempts a torn release: changePIN puts the new PIN and the
  master key wrapped under it into one release (`cbor_client_pin.c:541-549`), and
  nothing restores a flash that has one without the other.
* `ShortPinForcedAcrossCuts` exempts the same torn release.
* `DriftOnlyByCuts` exempts a relying party that had as many credentials as a
  byte counts, less the files out of step: its count may wrap (`credential.c:310`),
  and a deletion may then erase a record that still counts.
* `CountersGrow` exempts lost releases: the counter is raised after the answer is
  made (`cbor_get_assertion.c:599`), so a cut may repeat it.
* `RefusedStoresNothing` exempts a store out of step: only then can a slot be free
  for the credential and none for its record, and the credential stays
  (`credential.c:312`).
* `AckedIsStored` exempts an array that another start interrupts, also a start
  that is refused: it resets the statics first (`cbor_large_blobs.c`).

## 4. Bounds

| Run | Bound | Why it is enough |
|---|---|---|
| `client_pin` | four PINs: two of the default length (a change between equals), a longer one, one too long | every comparison of length and identity has both outcomes |
| | five tries, lock at three | the lock and the exhaustion are separate events, with tries left between |
| | a byte of 8 values; minimum requests absent, 5, 7, 8 | one raises, one is above every PIN, one overflows; lengths 4, 6, 7 lie on both sides |
| `pin_storage` | two PINs, three tries, lock at two, three lost releases, one release in the queue when a command starts | a command queues up to five releases behind it, so a cut falls before, inside and after each; a longer backlog only adds older contents that a cut inside the earlier command left already |
| `pin_token` | two relying parties, four permission requests | bound and not bound, right and wrong; the default, all, without large blobs, none |
| | arrays of 2, 3 and 4 units, fragments of up to 2, shortest length 2 | one array is of the shortest length, two need several fragments and may be mixed; empty fragments occur |
| `cred_mgmt` | three slots, two relying parties, three users, two device keys or none, a byte of 3 values | the count wraps when one relying party fills the store, as 256 would, and a third relying party in the store would only wrap the other enumeration; "a" is a prefix of "ab", "z" is apart; a store holds credentials under the key in use and under another |
| `cred_storage` | two slots, three relying parties, two device keys or none, a byte of 8 values, counters up to 5, three lost releases or files out of step | a third relying party finds the store full; cuts may follow on each other and tear the same file twice; `peak + drift` stays below the byte, so `DriftOnlyByCuts` is never exempted (the wrap is in `cred_mgmt`) |
| `assertion` | three slots, three registrations, a list of two | a list is cut to its size (`cbor_get_assertion.c:284`) when three credentials match; a slot is overwritten or refilled after a deletion |
| | `RestartBound`: only a device whose registrations all fell in one power session is cycled | the creation clock restarts once between registrations, which suffices to make a newer credential sort as older |
| `key_device` | two lock keys, three generated keys | own, other and foreign backups; two resets, so a stale copy may be two owners old |
| `oath` | two slots, three names, two codes, two PINs, three tries, four credentials ever, factors up to 3 | names exceed slots; the last try and one before; a name deleted and put again |
| `otp` | usage counter to 2 of 4 values, session counter of 2, two configurations ever, two access codes, one seed | both counters wrap or stop within a few presses; two configurations fill both slots, or follow each other in one |
| | one lost release, none in the queue when a command starts | a cut falls before, inside and after each release; the proofs of the same properties hold for any number of both. `MCView` leaves `cmd` and `out` out of the states compared: no step reads them, and a property reads them only in the step that wrote them |
| `cbor_thread` | queues of two events, frames of one and four parts, a body of three (four with its CRC), a code of one | the queues of the code are longer; two places are needed, for the acknowledgement and the event after it: with one the request for the button is dropped (`queue_try_add`) and both cores wait for ever |

`MaxKeys`, `MaxMade`, `MaxConfigs`, `MaxFactor`, `MaxBacklog`, `MaxSigned`,
`MaxLost`, `MaxFragment` and `RestartBound` appear in
guards and bound the model, not the device; the other constants are sizes of the
code. Symmetry is used only between values that no definition tells apart, in runs that
check safety only.

## 5. Fairness

Only `CborThread` assumes fairness, weak fairness of each core:
`WF_vars(Card) /\ WF_vars(Usb)`. The card core is a loop that blocks on its
queue and otherwise runs to the next one (`cbor.c`, `cbor_thread`;
`fido.c`, `wait_button_pressed`); the USB core is the SDK's main loop, which polls
its queue, and whose button timeout ends every wait that the user does not end.
Neither is disabled by the other or by the keyboard interface once it can go on,
so weak fairness is enough. No fairness is assumed of commands, of the user's
choice or of the host that reads frames.

Everything else is a safety or an action property: a command may be followed by
none, and a device may be unplugged for good. In particular no flush is assumed
fair; what `PinStorage`, `CredStorage` and `OtpStorage` show holds if the flash never catches up.

## 6. What is proved

Each proof module EXTENDS its component. The theorems hold for every value of
the constants that satisfies the component's named assumptions
(`PinAssumption`, `ByteAssumption`, `SlotAssumption`, `SimilarAssumption`,
`RpAssumption`, `ArrayAssumption`, `SizeAssumption`, `KeyAssumption`, `OathAssumption`,
`CounterAssumption`, ...): they state that the "nothing" values are not real ones,
that limits fit their byte, and that sets of requests contain requests. `Otp` also
states two relations of its counters that the code's widths give: a session
counter has no more values than a usage counter (8 and 16 bits), and the seed of
an HOTP slot is no last value of its counter. The runs evaluate all of them.

Three of the proofs share a pattern. Under power cuts nothing can be said of the
present files alone, for a cut brings back older ones; so the invariants of
`PinStorage`, `CredStorage` and `OtpStorage` speak of *contents*, and say the same of
the files as the program reads them, of the flash and of each release on its way to it.

| Theorem | Statement | Argument |
|---|---|---|
| `ClientPinProofs!PinInvariant` | `PinInv` always | the conjunction is inductive; no single conjunct is: `GuessesArePaid` needs the types (the try is spent before the comparison, so the decrement must not wrap), `TokenHolderCanLoadKey` needs `MkekFollowsPin` and `TokenFollowsPin` (the token's PIN opens the key only because it is the stored one) |
| `TypeCorrect`, `MkekRecoverable`, `TokenBelongsToPin`, `TokenHolderLoads`, `ShortPinsAreForced`, `GuessesBounded` | the types and the run's invariants; `GuessesArePaid` (tries left and wrong guesses never exceed the budget), which the run with cuts checks as `PaidAcrossCuts` | from `PinInv` |
| `ClientPinProofs!ImplementsGate` | `Spec => GateSpec` | each command maps to one action of `PinGate` or a stutter; a guess that is compared has a try to spend, which is `PinUsable`, and a token is earned with the stored PIN, which is `TokenFollowsPin` |
| `ClientPinProofs!StorageInvariant` | `CutInv`: every content is `Sound`, its PIN opens its master key and its short PIN is forced; and its tries, with the guesses answered so far, exceed the budget by no more than the releases lost and those behind it | `ClientPin`'s own lemmas assume only what survives a cut, so each command keeps it; its releases follow one file at a time, and a torn one mixes two sound contents |
| `MkekSurvivesPowerCuts`, `RetriesSurvivePowerCuts`, `ForcedChangeSurvivesPowerCuts`, `OldTokensStayDead` | the four invariants of `pin_storage` | from `CutInv` |
| `CredStoreProofs!ImplementsStore` | every credentialManagement command is a store step or none | by actions |
| `RecordsCountCredentials` | `RpCountsMatch` | inductive with the types; rests on cardinality lemmas (`WriteAdds`, `DeleteRemoves`), on modular arithmetic of the byte (`ModSmall`, `ModWrap`) and on `FreeRecord`: a free credential slot implies a free record, because each relying party with a record owns a credential |
| `CredentialsAreReachable` | `RpWithCredentialsIsListed`: a relying party with credentials is listed, up to the byte's limit | a count below the byte's size is its own remainder |
| `RegistrationsReplace` | `OnePerIsolatedUser` | inductive; an isolated user's registration finds its own slot, or none |
| `EnumerationInvariant` | `RpEnum`, `CredEnum`: what an undisturbed enumeration has reported are the first slots of its set, in order, and its two bytes are the next place and the size | the place of a slot is its `Rank`, the number of slots of the set up to it; ranks are a bijection with 1 .. size (`RankCounts`), also where the byte wraps at a full store (`EnumBytes`) |
| `RpEnumerationsAreExact`, `CredEnumerationsAreExact`, `HashesOutliveEnumerations` | the invariants of `cred_mgmt` about enumerations, for any device keys | from it: as many ranks reported as there are slots are all of them |
| `CredStoreProofs!StorageInvariant` | `StorageInv`: contents no torn release went into are in step, and `CounterLag`, the counter is ahead of a content by no more than the releases after it | a command keeps it by the store's invariant; a cut pays in `lost` for the releases after the content it leaves |
| `CountersGrowAcrossCuts`, `WholeCutsKeepCounts`, `RefusalStoresNothing` | `CountersGrow`; `drift = 0 => RpCountsMatch`; `RefusedStoresNothing` | from it; a store in step has a free record for each free slot (`FreeRecord`) |
| `CutsBoundTheDrift` | `DriftOnlyByCuts` | the bound for each relying party is not inductive: a credential that finds no record must be covered by a count too high elsewhere. `Level` adds the differences up over the relying parties, as sets of units (`Over`): a command leaves the sum alone (`StoredLevel`, `DeletedLevel`, `UnlistedLevel`, where as many counts as slots balance the excess, `OverBalance`), and a release torn anywhere adds one (`TornRelease`), which is no more than `drift` gains |
| `AssertionProofs!ListInvariant` | `AssertionInv`: the saved list holds distinct credentials, newest first, of the request kept with it and visible to it, and the answers so far are its beginning | inductive, for any number of slots and any length of the list; the list a request makes is cut from a sequence without repetitions |
| `ProtectedAreShownVerified`, `NextAnswersAreExact` | `ProtectedNeedsUv`, `NextAssertionsExact` | conjuncts of it |
| `OtpProofs!CounterInvariant` | `StorageInv`, of which the first part is `OtpInv`: the counter of a slot covers its last code (`Covered`), and once the slots were scanned the next code of a steady slot comes after its last (`Ahead`) | each action changes a slot by a few operators (`Unsteady`, `Raised`, a swap, a press), and each has a lemma (`OtpStep`) |
| | and of each content: it is behind the codes typed by no more than the releases after it and those lost (`KeepsUp`, `ContentsInv`) | no command raises a counter by more than one (`Evolves`), and one that raises it releases it, or leaves what was released last (`Appended`, `Still`); that needs a configuration whose codes count to be in one slot (`Alone`), which a torn swap breaks and `loose` exempts |
| `CodesAlwaysGrow`, `RepeatsAreBounded` | `CodesGrow`, `RepeatsAreLostWrites` | from it |
| `CodeGuardsTheSlot` | `LostOnlyWithCode` | from it and the step: what a cut leaves when it loses nothing is the last release, which holds every configuration of the slots (`Held`) |
| `PinTokenProofs!TokenInvariant` | `IInv` | the strengthening ties what RAM holds to history: a verified flag to a fresh PIN, a held token's permissions to its grant, the binding to the first registration. The properties are about responses, and a response only reads RAM |
| `VerificationIsFresh`, `TokensServeWhatWasGranted`, `RegistrationsBindTheToken` | the three action properties | each from `IInv` and the step |
| `LbwLasts` | `GrantedLbwLasts` | inductive: spending a token assigns exactly that permission |
| `PinTokenProofs!ImplementsToken`, `BlobTokenLasts` | `BlobSpec => Spec` of `PinToken`, and with it its theorems while blobs are written | by actions |
| `BlobInvariant` | types, and what an acknowledgement means | `AckedIsStored` is not inductive: `AllAckedIsOwn` adds that who was acknowledged all the buffer holds wrote all of it, and that its length is the one announced |
| `AcknowledgedIsStored` | `AckedIsStored` | from `BlobInvariant` |
| `CborThreadProofs!TouchBelongsToCommand` | `TouchIsForThisCommand`, for any queue of more than one place | `Phases` lists where the cores and both queues can be at once; in none of them is an event left over |
| `AnswersBelongToCommand` | `AnswerIsOwn` | the outcome is followed from the handler through `apdu.sw`, the status byte and the length, phase by phase, while no callback came |
| `FramesAreReadWhole` | `FrameReadWhole`, for any lengths | the bytes left are as many as the parts left need: `FrameInv`, with two lemmas about division (`PartsCover`, `PartRead`); a part that is not the frame's lies below `over` |
| `KeyDeviceProofs!KeyInvariant`, `SealNeverBesideKey` | types and `SealedAlone` | inductive together |
| `KeyIsKept`, `LockHolds`, `UsedKeyIsKept` | `KeyLostOnlyWhenStale`, `LockOpensOnlyByKey`, `UsedKeyStaysOrGoes` | step lemmas, the first two under the invariant: `SealedAlone` makes the sealed key the stored one |
| `OathProofs!NamesStayUnique` | `NamesUnique` | inductive; the slot PUT takes is the first with that name, or the first free one when there is none (`FirstIn`: a non-empty set of slots has a first) |
| `HotpNeverGoesBack` | `HotpMovesOn` | not inductive: `FactorsAhead` adds that every stored factor is ahead of the last code made from it |
| `SessionsEndWithTheirCode`, `TriesBounded` | `CodeClosesSessions`, `TriesArePaid` | inductive with the types of their variables |

*Only model-checked:* liveness (`EveryCommandAnswered`), which is out of this
prover's reach, as is ENABLED; every other property that a passing run checks is
proved. What a recursive definition or fold computes for every input could not be
proved either; no module uses a RECURSIVE operator, and no theorem depends on a fold.

## 7. Where code and documents disagree

Each of these is a run that TLC ends with a counterexample.

| Run | The code | The document |
|---|---|---|
| `client_pin_blocked` | the mismatch counter in RAM survives a reset (`cbor_client_pin.c:493`), so the first wrong guess of a new PIN may be answered PIN_AUTH_BLOCKED | `test_010_pin.py`: PIN_INVALID for the first guesses after reset and setPIN |
| `pin_token_presence` | makeCredential without a token asks for no touch and sets UP (`cbor_make_credential.c:291`) | `README.md`: user presence is enforced by the button |

Two more are defined in the modules and hold of no run; a reader who adds the
definition to the configuration named sees the counterexample.

| Definition, configuration | The code | The document |
|---|---|---|
| `MinPinNeverLowered`, `MCClientPin.cfg` | newMinPINLength is compared as 64 bits and stored as 8 (`cbor_config.c:186,196`), so a large request lowers the minimum | `test_037_minpinlength.py`: lowering is a policy violation |
| `NothingAfterSilentAssertion`, `MCAssertion.cfg` | a saved list survives the assertions after it (`cbor_get_assertion.c:369`), so getNextAssertion answers after an assertion with up = false | `test_022_discoverable.py`: no other credentials are returned |

Noted without a property, for no document says otherwise: after a reset, UV may be
reported for a registration on a device without a PIN, from the verified flag
of the old token (`cbor_make_credential.c:315`); getPINRetries reads EF_PIN
also when it is empty (`cbor_client_pin.c:345`); the OTP PIN can be changed
without cost in tries; only two bytes of an HOTP's 64-bit factor are kept
(`otp.c:226`); OTP code pairs repeat in the cases of section 3; user ids are compared up to the
shorter length (`credential.c:270`), so a user may own two credentials beside one
whose id is a prefix; a next refused for want of the device key leaves an enumeration that
allows another call and has lost its hash; a torn swap leaves one configuration twice
and the other not at all; an update, a swap
or a command for an empty slot sent as a keyboard frame is answered by a frame
whose length is the one left behind by the command before (`otp.c:554`,
`FrameSilent`); the statics of an unfinished large blob survive a reset; the
errors of `cbor_large_blobs.c` that are returned as a negated constant reach the
status byte modulo 256.

## 8. What is not modelled

* **The SDK**: the flash page cache and its write-back, the USB stack, the button
  and the start of the second core are a submodule absent from the repository.
  What the code relies on is in `Flush`, `PowerCut`, the USB core's actions of
  `CborThread` and the host that reads frames; they are marked external.
* **The first start** (`fido.c:314`): the device key is encrypted in the page it
  was just put into, in one release with the master key. Whether a cut can
  separate the two depends on that page cache.
* **The order of a deletion** (`cbor_cred_mgmt.c:340`): the read through a pointer
  into the deleted file has an outcome only the SDK decides.
* **Writes inside a command** of OATH, largeBlobs and the device key: each
  of these commands puts what belongs together into one release; the power cycle
  of their modules comes between commands, after the writes have landed. A cut
  before that brings an OATH factor or try back as it does in `OtpStorage` and
  `PinStorage`.
* **CALCULATE ALL, LIST, VERIFY CODE, getInfo, selection, metadata, U2F version**: reads.
* **U2F**: its counter and its wait for the button are modelled; key handles are
  checked by ciphers and nothing of them is kept.
* **Management** (`management.c`), **enterprise attestation, PHY settings**: each
  stores one value unread by the commands modelled, except that the stored
  capabilities switch whole applications off.
* **CBOR/COSE encoding, certificates, extension outputs, known apps**: data
  conversion and tables.
* **Ciphers, hashes, random numbers** (mbedtls, SDK): perfect, as said above.

## 9. Plan

Done: `ClientPin` with `PinGate` and `PinStorage`, `CredStore` with `CredMgmt` and
`CredStorage`, `Assertion`, `PinToken` with `LargeBlobs`, `KeyDevice`, `Oath`,
`Otp` with `OtpStorage`, `CborThread`, and proofs of every safety property of theirs that is checked.

Next, in this order:

1. **Composition** of `PinToken` with `Assertion`, so that "verified" is no
   longer a parameter: the token that a request presents decides it, and
   `ProtectedNeedsUv` follows for the two together.
2. **The types of `CborThread` and `Otp`** as refinements: the keyboard frames of
   `otp.c` deliver the status that `Otp` computes.
3. **Writes inside the commands** of `KeyDevice`, as `PinStorage` has them, once
   the page cache of the SDK is available to read.
