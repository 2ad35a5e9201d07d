------------------------------ MODULE CredMgmt ------------------------------
(***************************************************************************)
(* authenticatorCredentialManagement (cbor_cred_mgmt.c) over the store of  *)
(* CredStore: the two enumerations, each a begin command followed by next  *)
(* commands, whose place is kept in static variables that every other      *)
(* command leaves as it found them.                                        *)
(*                                                                         *)
(* A begin is authorised by the token, a next by nothing.  A begin that is *)
(* not authorised, and a next when the counter has passed the total or,    *)
(* for relying parties, when nothing is found at its place, change nothing *)
(* and are stuttering steps.  The statics are uint8_t, so an enumeration   *)
(* counts modulo ByteMod.                                                  *)
(***************************************************************************)
EXTENDS CredStore, Sequences, SequencesExt

VARIABLES
    rp_counter, rp_total, cred_counter, cred_total,
    hashx,         \* rpIdHashx: the relying party whose credentials are listed;
                   \* NoHash once the buffer behind it was freed
    rpSeen, credSeen,  \* history: the slots reported since the begin, in order
    rpQuiet, credQuiet \* history: a begin succeeded, and since then the store was not
                       \* touched and no next was refused for want of the device key

CONSTANT NoHash

ASSUME HashAssumption == NoHash \notin Rps

rpEnum   == <<rp_counter, rp_total, rpSeen, rpQuiet>>
credEnum == <<cred_counter, cred_total, hashx, credSeen, credQuiet>>
vars     == <<storeVars, devKey, rpEnum, credEnum>>

Bytes == 0 .. (ByteMod - 1)

TypeOK ==
    /\ StoreTypeOK /\ KeyTypeOK
    /\ {rp_counter, rp_total, cred_counter, cred_total} \subseteq Bytes
    /\ hashx \in Rps \cup {NoHash}
    /\ rpSeen \in Seq(Slots) /\ credSeen \in Seq(Slots)
    /\ rpQuiet \in BOOLEAN /\ credQuiet \in BOOLEAN

\* The relying parties an enumeration reports: a count byte above zero.
ListedRps == {i \in UsedIn(record) : record[i].count > 0}

\* The slot at which the byte that counts the slots of S, in order, is k.
AtCount(S, k) == {i \in S : Cardinality({j \in S : j <= i}) % ByteMod = k}

Size(S) == Cardinality(S) % ByteMod

Bump(counter) == (counter + 1) % ByteMod

(***************************************************************************)
(* Enumerations                                                            *)
(***************************************************************************)

EnumRPsBeginUncounted == \* mutant
    /\ ListedRps # {}
    /\ rp_counter' = 1
    /\ rp_total' = Size(ListedRps)
    /\ rpSeen' = <<Min(ListedRps)>>
    /\ rpQuiet' = TRUE
    /\ UNCHANGED <<storeVars, devKey, credEnum>>

EnumRPsBegin ==
    /\ ListedRps # {}
    /\ rp_counter' = Bump(1)
    /\ rp_total' = Size(ListedRps)
    /\ rpSeen' = <<Min(ListedRps)>>
    /\ rpQuiet' = TRUE
    /\ UNCHANGED <<storeVars, devKey, credEnum>>

EnumRPsBeginNone ==
    /\ ListedRps = {}
    /\ rp_counter' = 1
    /\ rp_total' = 0
    /\ rpSeen' = <<>>
    /\ rpQuiet' = FALSE
    /\ UNCHANGED <<storeVars, devKey, credEnum>>

EnumRPsNext ==
    /\ rp_counter <= rp_total
    /\ \E i \in AtCount(ListedRps, rp_counter) :
        rpSeen' = IF rpQuiet THEN Append(rpSeen, i) ELSE <<>>
    /\ rp_counter' = Bump(rp_counter)
    /\ UNCHANGED <<storeVars, devKey, rp_total, rpQuiet, credEnum>>

\* The hash is kept for the next command while some are left, else freed.
KeepsUnlessLast(counter, total) == counter < total \* mutant
Keeps(counter, total) == counter <= total

EnumCredsBeginUncounted(r) == \* mutant
    /\ CredsOf(r) # {} /\ Loads(Min(CredsOf(r)))
    /\ cred_counter' = 1
    /\ cred_total' = Size(CredsOf(r))
    /\ hashx' = IF Keeps(1, Size(CredsOf(r))) THEN r ELSE hashx
    /\ credSeen' = <<Min(CredsOf(r))>>
    /\ credQuiet' = TRUE
    /\ UNCHANGED <<storeVars, devKey, rpEnum>>

\* rpIdHashx is assigned only when the enumeration goes on.
EnumCredsBegin(r) ==
    /\ CredsOf(r) # {} /\ Loads(Min(CredsOf(r)))
    /\ cred_counter' = Bump(1)
    /\ cred_total' = Size(CredsOf(r))
    /\ hashx' = IF Keeps(Bump(1), Size(CredsOf(r))) THEN r ELSE hashx
    /\ credSeen' = <<Min(CredsOf(r))>>
    /\ credQuiet' = TRUE
    /\ UNCHANGED <<storeVars, devKey, rpEnum>>

\* The first credential does not open: the total is set, the counter not moved.
EnumCredsBeginFails(r) ==
    /\ CredsOf(r) # {} /\ ~Loads(Min(CredsOf(r)))
    /\ cred_counter' = 1
    /\ cred_total' = Size(CredsOf(r))
    /\ credSeen' = <<>>
    /\ credQuiet' = FALSE
    /\ UNCHANGED <<storeVars, devKey, hashx, rpEnum>>

EnumCredsBeginNone(r) ==
    /\ CredsOf(r) = {}
    /\ cred_counter' = 1
    /\ cred_total' = 0
    /\ credSeen' = <<>>
    /\ credQuiet' = FALSE
    /\ UNCHANGED <<storeVars, devKey, hashx, rpEnum>>

\* What the next command compares the slots with: a freed buffer holds anything.
Hash == IF hashx = NoHash THEN Rps \cup {NoHash} ELSE {hashx}

EnumCredsNext ==
    /\ cred_counter <= cred_total
    /\ \E r \in Hash : \E i \in AtCount(CredsOf(r), cred_counter) :
        /\ Loads(i)
        /\ credSeen' = IF credQuiet THEN Append(credSeen, i) ELSE <<>>
        /\ hashx' = IF Keeps(Bump(cred_counter), cred_total) THEN hashx ELSE NoHash
    /\ cred_counter' = Bump(cred_counter)
    /\ UNCHANGED <<storeVars, devKey, cred_total, credQuiet, rpEnum>>

\* The credential at this place does not open: the buffer is freed, the
\* counters stay, and another next is allowed.
EnumCredsNextFails ==
    /\ cred_counter <= cred_total
    /\ \E r \in Hash : \E i \in AtCount(CredsOf(r), cred_counter) : ~Loads(i)
    /\ hashx' = NoHash
    /\ credSeen' = <<>>
    /\ credQuiet' = FALSE
    /\ UNCHANGED <<storeVars, devKey, cred_counter, cred_total, rpEnum>>

\* Nothing at this place: the buffer is freed, the counters stay.
EnumCredsNextNone ==
    /\ cred_counter <= cred_total
    /\ \E r \in Hash : AtCount(CredsOf(r), cred_counter) = {}
    /\ hashx' = NoHash
    /\ UNCHANGED <<storeVars, devKey, cred_counter, cred_total, credSeen, credQuiet, rpEnum>>

(***************************************************************************)
(* Commands on the store, and power                                        *)
(***************************************************************************)

\* The device key in use changes and no enumeration learns of it.
ChangeKey == KeyChanges /\ UNCHANGED <<rpEnum, credEnum>>

\* The statics are left as they are.
StoreCommand ==
    /\ StoreNext
    /\ rpQuiet' = FALSE /\ rpSeen' = <<>>
    /\ credQuiet' = FALSE /\ credSeen' = <<>>
    /\ UNCHANGED <<rp_counter, rp_total, cred_counter, cred_total, hashx>>

Statics(counter1, total1, counter2, total2) ==
    /\ counter1 = 1 /\ total1 = 0
    /\ counter2 = 1 /\ total2 = 0

PowerCycle ==
    /\ Statics(rp_counter', rp_total', cred_counter', cred_total')
    /\ hashx' = NoHash
    /\ rpQuiet' = FALSE /\ rpSeen' = <<>>
    /\ credQuiet' = FALSE /\ credSeen' = <<>>
    /\ KeyChanges

Init ==
    /\ StoreInit
    /\ Statics(rp_counter, rp_total, cred_counter, cred_total)
    /\ hashx = NoHash
    /\ rpSeen = <<>> /\ credSeen = <<>>
    /\ rpQuiet = FALSE /\ credQuiet = FALSE

Next ==
    \/ EnumRPsBegin
    \/ EnumRPsBeginNone
    \/ EnumRPsNext
    \/ \E r \in Rps : EnumCredsBegin(r)
    \/ \E r \in Rps : EnumCredsBeginFails(r)
    \/ \E r \in Rps : EnumCredsBeginNone(r)
    \/ EnumCredsNext
    \/ EnumCredsNextFails
    \/ EnumCredsNextNone
    \/ ChangeKey
    \/ StoreCommand
    \/ PowerCycle

Spec == Init /\ [][Next]_vars

(***************************************************************************)
(* Properties                                                              *)
(***************************************************************************)

\* An enumeration of relying parties during which the store is not touched,
\* whatever other enumeration is interleaved: no relying party is reported
\* twice, and next is refused as finished only after all were reported (unless
\* there are as many as a byte has values).
RpEnumerationExact ==
    rpQuiet =>
        /\ IsInjective(rpSeen) /\ Range(rpSeen) \subseteq ListedRps
        /\ rp_counter > rp_total =>
              Range(rpSeen) = ListedRps \/ Cardinality(ListedRps) = ByteMod

\* The same of the credentials of one relying party, whatever happens to the
\* device key, until a next is refused for want of it: all of its credentials,
\* each once, and never one of another relying party.
CredEnumerationExact ==
    credQuiet /\ credSeen # <<>> =>
        LET all == CredsOf(cred[Head(credSeen)].rp) IN
        /\ IsInjective(credSeen) /\ Range(credSeen) \subseteq all
        /\ cred_counter > cred_total =>
              Range(credSeen) = all \/ Cardinality(all) = ByteMod

\* While an undisturbed enumeration has credentials left to report, the hash
\* it continues with has not been freed.  A next that is refused for want of
\* the device key does free it, and the enumeration goes on without it; no
\* other refusal does so.
HashOutlivesEnumeration ==
    credQuiet /\ cred_counter <= cred_total /\ Len(credSeen) < cred_total => hashx # NoHash

\* A relying party that has credentials is reported by an enumeration, unless
\* they fill the whole store and their count byte is zero again.
RpWithCredentialsIsListed ==
    \A r \in Rps : CredsOf(r) # {} /\ Cardinality(CredsOf(r)) < ByteMod =>
        RecordsOf(r) \cap ListedRps # {}
==============================================================================
