------------------------------ MODULE CredStore ------------------------------
(***************************************************************************)
(* The resident credentials (credential.c) and the relying-party records   *)
(* kept beside them: EF_CRED slots written by credential_store() and EF_RP *)
(* slots that count the credentials of each relying party in one byte.     *)
(* cbor_make_credential.c stores, cbor_cred_mgmt.c deletes and updates.    *)
(*                                                                         *)
(* A request that is refused (no authorisation, a full store, an unknown   *)
(* credential id) changes nothing and is a stuttering step.  A credential  *)
(* id names the slot it is stored in: the code compares it with the slots  *)
(* in order and takes the first that agrees, up to the shorter length, so  *)
(* every occupied slot is the target of some request.                      *)
(*                                                                         *)
(* A credential is sealed with a key derived from the device key in use,   *)
(* and only opens while that device key is in use.  The device key in use  *)
(* changes with lock, unlock, disable, import, PIN entry and power (module *)
(* KeyDevice); here any command may find any of them, or none.             *)
(***************************************************************************)
EXTENDS Naturals, FiniteSets, FiniteSetsExt

CONSTANTS
    NumSlots,  \* MAX_RESIDENT_CREDENTIALS
    Rps,       \* relying parties
    Users,     \* user ids
    Similar,   \* pairs of user ids that agree on the shorter length
    Empty,     \* a slot without data
    DeviceKeys, \* device keys that load_keydev() may return
    NoKey,     \* load_keydev() fails: the device is locked
    ByteMod    \* number of values of a uint8_t

ASSUME SlotAssumption == NumSlots \in Nat \ {0} /\ ByteMod \in Nat /\ 1 < ByteMod /\ NumSlots <= ByteMod
ASSUME EmptyAssumption ==
    Empty \notin [rp : Rps, user : Users, key : DeviceKeys] \cup [rp : Rps, count : 0 .. (ByteMod - 1)]
ASSUME KeyAssumption == NoKey \notin DeviceKeys
ASSUME SimilarAssumption ==
    /\ Similar \subseteq Users \X Users
    /\ \A u, v \in Users : <<u, u>> \in Similar /\ (<<u, v>> \in Similar => <<v, u>> \in Similar)

VARIABLES
    cred,   \* EF_CRED + i: relying party, user and sealing key of a credential
    record, \* EF_RP + i: a relying party and its count byte
    devKey  \* the device key in use

storeVars == <<cred, record>>

Slots == 1 .. NumSlots

StoreTypeOK ==
    /\ cred \in [Slots -> [rp : Rps, user : Users, key : DeviceKeys] \cup {Empty}]
    /\ record \in [Slots -> [rp : Rps, count : 0 .. (ByteMod - 1)] \cup {Empty}]

KeyTypeOK == devKey \in DeviceKeys \cup {NoKey}

(***************************************************************************)
(* Helpers                                                                 *)
(***************************************************************************)

FreeIn(file) == {i \in Slots : file[i] = Empty}
UsedIn(file) == Slots \ FreeIn(file)

CredsOf(r) == {i \in UsedIn(cred) : cred[i].rp = r}
RecordsOf(r) == {i \in UsedIn(record) : record[i].rp = r}

\* credential_load() opens the credential in slot i.  Without a device key the
\* seal is tried with a value that sealed nothing.
Loads(i) == cred[i].key = devKey

\* The credentials a new one of user u at r may replace: those that open, and
\* whose user ids agree up to the shorter length.
OthersOf(r, u) == {i \in CredsOf(r) : Loads(i) /\ <<cred[i].user, u>> \notin Similar} \* mutant
Replaceable(r, u) == {i \in CredsOf(r) : Loads(i) /\ <<cred[i].user, u>> \in Similar}

Write(i, r, u) == cred' = [cred EXCEPT ![i] = [rp |-> r, user |-> u, key |-> devKey]]

\* One more credential at r: its record, or the first free one.
Counted(r) ==
    IF RecordsOf(r) # {} THEN [record EXCEPT ![Min(RecordsOf(r))].count = (@ + 1) % ByteMod]
    ELSE IF FreeIn(record) # {} THEN [record EXCEPT ![Min(FreeIn(record))] = [rp |-> r, count |-> 1]]
    ELSE record

\* One less: the record goes with the last credential.
UncountedKeepsLast(r) == \* mutant
    IF RecordsOf(r) = {} THEN record
    ELSE [record EXCEPT ![Min(RecordsOf(r))].count = (@ + ByteMod - 1) % ByteMod]
Uncounted(r) ==
    IF RecordsOf(r) = {} THEN record
    ELSE LET j == Min(RecordsOf(r))
             n == (record[j].count + ByteMod - 1) % ByteMod
         IN  IF n = 0 THEN [record EXCEPT ![j] = Empty] ELSE [record EXCEPT ![j].count = n]

(***************************************************************************)
(* Operations                                                              *)
(***************************************************************************)

\* credential_store() of a user the relying party does not know under this
\* device key.  Without a device key makeCredential ends before it.
StoreNew(r, u) ==
    /\ devKey # NoKey
    /\ Replaceable(r, u) = {}
    /\ FreeIn(cred) # {}
    /\ Write(Min(FreeIn(cred)), r, u)
    /\ record' = Counted(r)

StoreOverCounted(r, u) == \* mutant
    /\ devKey # NoKey
    /\ Replaceable(r, u) # {}
    /\ Write(Min(Replaceable(r, u)), r, u)
    /\ record' = Counted(r)

\* credential_store() over the first credential of the user.
StoreOver(r, u) ==
    /\ devKey # NoKey
    /\ Replaceable(r, u) # {}
    /\ Write(Min(Replaceable(r, u)), r, u)
    /\ UNCHANGED record

\* deleteCredential, which opens nothing.
Delete(i) ==
    /\ i \in UsedIn(cred)
    /\ cred' = [cred EXCEPT ![i] = Empty]
    /\ record' = Uncounted(cred[i].rp)

\* updateUserInformation opens the credential, makes a new one with the stored
\* user id and stores it; it lands on the first slot that credential_store() finds.
UpdateUser(i) ==
    /\ i \in UsedIn(cred) /\ Loads(i)
    /\ StoreOver(cred[i].rp, cred[i].user)

EraseStore ==
    /\ cred' = [i \in Slots |-> Empty]
    /\ record' = [i \in Slots |-> Empty]

\* A command of KeyDevice or of the PIN, or power, gives another device key.
NewKey == devKey' \in DeviceKeys \cup {NoKey}
KeyChanges == NewKey /\ UNCHANGED storeVars

StoreInit ==
    /\ cred = [i \in Slots |-> Empty]
    /\ record = [i \in Slots |-> Empty]
    /\ devKey \in DeviceKeys

\* A reset generates a device key too.
StoreNext ==
    \/ (\E r \in Rps, u \in Users : StoreNew(r, u) \/ StoreOver(r, u)) /\ UNCHANGED devKey
    \/ (\E i \in Slots : Delete(i) \/ UpdateUser(i)) /\ UNCHANGED devKey
    \/ EraseStore /\ NewKey

StoreSpec == StoreInit /\ [][StoreNext \/ KeyChanges]_<<storeVars, devKey>>

(***************************************************************************)
(* Properties                                                              *)
(***************************************************************************)

\* A relying party has one record exactly while it has credentials, and its
\* count byte is their number (modulo a byte): no order of stores, overwrites,
\* updates and deletions lets the two files drift apart.
RpCountsMatch ==
    \A r \in Rps :
        /\ RecordsOf(r) = {} <=> CredsOf(r) = {}
        /\ \A i \in RecordsOf(r) : record[i].count = Cardinality(CredsOf(r)) % ByteMod
        /\ \A i, j \in RecordsOf(r) : i = j

Isolated(u) == \A v \in Users : <<u, v>> \in Similar => v = u

\* A user whose id is no prefix of another's, nor has one, owns at most one
\* credential at each relying party under each device key: a registration
\* replaces the earlier one, also when other device keys were in use meanwhile.
\* Under another device key it cannot be opened, stays, and takes a slot.
OnePerIsolatedUser ==
    \A r \in Rps, u \in Users : Isolated(u) =>
        \A i, j \in CredsOf(r) :
            cred[i].user = u /\ cred[j].user = u /\ cred[i].key = cred[j].key => i = j
==============================================================================
