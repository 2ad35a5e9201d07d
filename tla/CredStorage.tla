----------------------------- MODULE CredStorage -----------------------------
(***************************************************************************)
(* CredStore and the global sign counter on a flash that lags behind, with *)
(* power cuts at any instruction (PinStorage explains releases and cuts).  *)
(*                                                                         *)
(* credential_store() and deleteCredential put the credential and the      *)
(* record of its relying party in one release, which a cut may tear.  The  *)
(* counter is read before the signature and raised after it, in a release  *)
(* of its own, by makeCredential, by each assertion (getNextAssertion      *)
(* included) and by the U2F authenticate command; U2F register and the     *)
(* check-only form answer no counter and write nothing.  None of them      *)
(* answers without a device key.                                           *)
(***************************************************************************)
EXTENDS CredStore, Sequences

CONSTANTS
    MaxBacklog,  \* bound: releases still in the queue when a command starts
    MaxSigned,   \* bound: highest counter value (32 bits in the code)
    MaxLost      \* bound: releases lost and files put out of step by cuts

ASSUME StorageAssumption == MaxBacklog \in Nat /\ MaxSigned \in Nat /\ MaxLost \in Nat

VARIABLES
    counter,   \* EF_COUNTER
    answered,  \* history: 1 + the highest counter in an answer since the reset
    resp,      \* CTAP status of the last command
    flashed,   \* the files on the flash
    pending,   \* the files after each release not yet written
    lost,      \* history: releases that cuts lost since the reset
    drift,     \* history: files of torn releases out of step since the reset
    peak       \* history: most credentials a relying party had since the reset

cvars == <<storeVars, devKey, counter, answered, resp, flashed, pending, lost, drift, peak>>

\* The files as the program reads them (drift travels with them).
Files == [cred |-> cred, record |-> record, counter |-> counter, drift |-> drift]

Release(stages) ==
    /\ Len(pending) <= MaxBacklog
    /\ pending' = pending \o stages
    /\ UNCHANGED flashed

(***************************************************************************)
(* Commands                                                                *)
(***************************************************************************)

\* The counter of this answer, and the one of the next.
SignTwice == answered' = counter + 1 /\ UNCHANGED counter \* mutant
Sign == answered' = counter + 1 /\ counter' = counter + 1

\* getAssertion, getNextAssertion, U2F authenticate, and makeCredential of a
\* credential that is not resident: an answer, then the write.
Answer ==
    /\ counter < MaxSigned /\ devKey # NoKey
    /\ Sign
    /\ UNCHANGED <<storeVars, devKey, lost, drift, peak>>
    /\ Release(<<Files'>>)
    /\ resp' = "ok"

\* r has one credential more, perhaps.
Crowd(r) == peak' = Max({peak, Cardinality(CredsOf(r)')})

HasRecordFor(r) == RecordsOf(r) # {} \/ FreeIn(record) # {}

\* makeCredential of a resident credential: store, then raise the counter.
Stored(r, u) == (StoreNew(r, u) /\ HasRecordFor(r)) \/ StoreOver(r, u)

MakeResident(r, u) ==
    /\ counter < MaxSigned
    /\ Stored(r, u)
    /\ Sign
    /\ Crowd(r)
    /\ UNCHANGED <<devKey, lost, drift>>
    /\ Release(<<[Files' EXCEPT !.counter = counter], Files'>>)
    /\ resp' = "ok"

\* No free slot: nothing is written, and no counter is answered.
MakeRefusedFull(r, u) ==
    /\ devKey # NoKey
    /\ Replaceable(r, u) = {}
    /\ FreeIn(cred) = {}
    /\ resp' = "KEY_STORE_FULL"
    /\ UNCHANGED <<storeVars, devKey, counter, answered, flashed, pending, lost, drift, peak>>

\* A free slot but no record: the credential is put, and neither released nor
\* taken back when credential_store() fails.
MakeRefusedUnlisted(r, u) ==
    /\ StoreNew(r, u)
    /\ ~HasRecordFor(r)
    /\ Crowd(r)
    /\ resp' = "KEY_STORE_FULL"
    /\ UNCHANGED <<devKey, counter, answered, flashed, pending, lost, drift>>

\* deleteCredential and updateUserInformation.
Manage(i) ==
    /\ Delete(i) \/ UpdateUser(i)
    /\ UNCHANGED <<counter, drift>>
    /\ Release(<<Files'>>)
    /\ resp' = "ok"
    /\ UNCHANGED <<devKey, answered, lost, peak>>

\* The device key in use changes; its own files are those of KeyDevice.
UseOtherKey ==
    /\ KeyChanges
    /\ resp' = "ok"
    /\ UNCHANGED <<counter, answered, flashed, pending, lost, drift, peak>>

\* A reset makes a new device key: no earlier counter or credential matters.
\* The erasure (initialize_flash, in the SDK) is taken to be done when it returns.
Erase ==
    /\ EraseStore
    /\ NewKey
    /\ counter' = 0
    /\ drift' = 0
    /\ answered' = 0
    /\ lost' = 0
    /\ peak' = 0
    /\ flashed' = Files'
    /\ pending' = <<>>
    /\ resp' = "ok"

(***************************************************************************)
(* Flash and power (the SDK)                                               *)
(***************************************************************************)

Flush ==
    /\ pending # <<>>
    /\ flashed' = Head(pending)
    /\ pending' = Tail(pending)
    /\ UNCHANGED <<storeVars, devKey, counter, answered, resp, lost, drift, peak>>

Written(k) == IF k = 0 THEN flashed ELSE pending[k]

Changed(k) ==
    {f \in {"cred", "record"} \X Slots : pending[k][f[1]][f[2]] # Written(k - 1)[f[1]][f[2]]}
    \cup {f \in {<<"counter", 0>>} : pending[k].counter # Written(k - 1).counter}

Part(k, new, f) ==
    [i \in Slots |-> IF <<f, i>> \in new THEN pending[k][f][i] ELSE Written(k - 1)[f][i]]

\* One release of n files torn puts at most n - 1 of them out of step.
TornAt(k) ==
    {[cred    |-> Part(k, new, "cred"),
      record  |-> Part(k, new, "record"),
      counter |-> IF <<"counter", 0>> \in new THEN pending[k].counter ELSE Written(k - 1).counter,
      drift   |-> Written(k - 1).drift + Cardinality(Changed(k)) - 1] :
     new \in (SUBSET Changed(k)) \ {{}, Changed(k)}}

\* A cut keeps some whole releases, and perhaps part of the next one.
PowerCut ==
    \E k \in 0 .. Len(pending) :
        \E left \in {Written(k)} \cup (IF k < Len(pending) THEN TornAt(k + 1) ELSE {}) :
            /\ lost' = lost + Len(pending) - k
            /\ lost' <= MaxLost
            /\ left.drift <= MaxLost
            /\ cred' = left.cred
            /\ record' = left.record
            /\ counter' = left.counter
            /\ drift' = left.drift
            /\ flashed' = left
            /\ pending' = <<>>
            /\ resp' = "ok"
            /\ NewKey
            /\ UNCHANGED <<answered, peak>>

(***************************************************************************)
(* Specification                                                           *)
(***************************************************************************)

StorageInit ==
    /\ StoreInit
    /\ counter = 0
    /\ answered = 0
    /\ resp = "ok"
    /\ lost = 0
    /\ drift = 0
    /\ peak = 0
    /\ flashed = Files
    /\ pending = <<>>

StorageNext ==
    \/ Answer
    \/ \E r \in Rps, u \in Users : MakeResident(r, u) \/ MakeRefusedFull(r, u) \/ MakeRefusedUnlisted(r, u)
    \/ \E i \in Slots : Manage(i)
    \/ UseOtherKey
    \/ Erase
    \/ Flush
    \/ PowerCut

StorageSpec == StorageInit /\ [][StorageNext]_cvars

(***************************************************************************)
(* Properties                                                              *)
(***************************************************************************)

\* Every answer carries a higher counter than the answers before it, except
\* that a cut may repeat as many counters as it lost releases.
CountersGrow == counter + lost >= answered

\* The count of a relying party differs from the number of its credentials by
\* no more than the files that cuts left out of step, however many stores,
\* deletions and refusals followed; as long as the counts stay within a byte.
CountOf(r) == IF RecordsOf(r) = {} THEN 0 ELSE record[Min(RecordsOf(r))].count

DriftOnlyByCuts ==
    peak + drift < ByteMod => \A r \in Rps :
        LET held == Cardinality(CredsOf(r))
        IN  CountOf(r) <= held + drift /\ held <= CountOf(r) + drift

\* KEY_STORE_FULL means that nothing was stored, although the credential is
\* put before its record is looked for: only a cut can leave a free slot for
\* the credential and none for the record.
RefusedStoresNothing == [][resp' = "KEY_STORE_FULL" /\ drift = 0 => UNCHANGED storeVars]_cvars
==============================================================================
