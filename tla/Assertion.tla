----------------------------- MODULE Assertion -----------------------------
(***************************************************************************)
(* Registrations, assertions and getNextAssertion over the resident        *)
(* credentials (cbor_make_credential.c, cbor_get_assertion.c): which       *)
(* credentials a request sees, and the list that one getAssertion saves in *)
(* RAM for the getNextAssertion commands that follow.                      *)
(*                                                                         *)
(* One action is one command.  Whether a request carries a good token is   *)
(* the parameter verified (module PinToken says when it may).  A command   *)
(* that fails changes nothing and is a stuttering step, except the         *)
(* failures that leave something behind, which are actions.  A credential  *)
(* id is the record it decrypts to: any platform may keep it and put it in *)
(* an allow list, also after the resident copy was deleted.  User ids are  *)
(* not modelled: a resident registration goes to the first free slot or    *)
(* over any slot of its relying party (module CredStore says which).  An   *)
(* allow list names an id once.                                            *)
(* Creation times count the registrations since power-up.  The sign        *)
(* counter is left out.                                                    *)
(***************************************************************************)
EXTENDS Naturals, FiniteSets, Sequences, SequencesExt

CONSTANTS
    Rps,       \* relying parties
    NumSlots,  \* MAX_RESIDENT_CREDENTIALS
    MaxList,   \* MAX_CREDENTIAL_COUNT_IN_LIST
    Empty,     \* a slot without data; no list; no response
    Kinds,     \* relying party and credProtect of the registrations asked for
    MaxMade    \* bound of the model on registrations

ASSUME SizeAssumption == NumSlots \in Nat \ {0} /\ MaxList \in Nat \ {0} /\ MaxMade \in Nat
ASSUME KindAssumption == Kinds \subseteq Rps \X (1 .. 3)

VARIABLES
    resident,         \* EF_CRED
    made,             \* ids of the credentials made with the present device key
    clock,            \* registrations since power-up (board_millis)
    serial,           \* history: registrations ever
    credsx,           \* the list getNextAssertion answers from
    credentialCounter,
    savedx,           \* residentx, flagsx and datax, the request it belongs to
    answered,         \* history: credentials of the list answered (the first counts as answered)
    out               \* the last response

store == <<resident, made, clock, serial>>
list  == <<credsx, credentialCounter, savedx, answered>>
vars  == <<store, list, out>>

Slots == 1 .. NumSlots

Credentials == [serial : 1 .. MaxMade, rp : Rps, protect : 1 .. 3, creation : 1 .. MaxMade]
Requests == [rp : Rps, resident : BOOLEAN, uv : BOOLEAN, up : BOOLEAN, size : 1 .. MaxList]

TypeOK ==
    /\ resident \in [Slots -> Credentials \cup {Empty}]
    /\ made \subseteq Credentials
    /\ clock \in 0 .. MaxMade /\ serial \in 0 .. MaxMade
    /\ credsx \in Seq(Credentials) /\ Len(credsx) <= MaxList
    /\ credsx = <<>> => credentialCounter \in {0, 1}
    /\ credsx # <<>> => credentialCounter \in 1 .. (Len(credsx) - 1)
    /\ IF credsx = <<>> THEN savedx = Empty ELSE savedx \in Requests
    /\ answered \in Seq(Credentials)
    /\ out \in [cmd : {"GA", "GNA"}, cred : Credentials, to : Requests] \cup {Empty}

(***************************************************************************)
(* Helpers                                                                 *)
(***************************************************************************)

\* Resident credentials of r, the first MaxList of them in slot order.
SlotsOf(r) == {i \in Slots : resident[i] # Empty /\ resident[i].rp = r}
Found(r) == {resident[i] : i \in {k \in SlotsOf(r) : Cardinality({j \in SlotsOf(r) : j < k}) < MaxList}}

\* credProtect: 3 needs user verification, 2 only for discovery.
ShownUnlessRequired(c, uv, discovered) == c.protect = 3 => uv \* mutant
Shown(c, uv, discovered) == (c.protect = 3 \/ (c.protect = 2 /\ discovered)) => uv

\* The most recent creation first.
Sorted(S) == \* none when there is nothing to answer
    {s \in SetToSeqs(S) : s # <<>> /\ \A i, j \in DOMAIN s : i < j => s[i].creation >= s[j].creation}

Forget ==
    /\ credsx' = <<>>
    /\ credentialCounter' = 0
    /\ savedx' = Empty

(***************************************************************************)
(* authenticatorMakeCredential                                             *)
(***************************************************************************)

Targets(r) ==
    LET free == {i \in Slots : resident[i] = Empty}
    IN  SlotsOf(r) \cup {i \in free : \A j \in free : i <= j}

\* A resident credential (rk) is stored, any other only exists as its id.
MakeCredential(r, protect, rk) ==
    /\ serial < MaxMade
    /\ LET c == [serial |-> serial + 1, rp |-> r, protect |-> protect, creation |-> clock + 1] IN
        /\ IF rk THEN \E i \in Targets(r) : resident' = [resident EXCEPT ![i] = c]
                 ELSE UNCHANGED resident
        /\ made' = made \cup {c}
    /\ serial' = serial + 1 /\ clock' = clock + 1
    /\ out' = Empty
    /\ UNCHANGED list

(***************************************************************************)
(* authenticatorGetAssertion                                               *)
(***************************************************************************)

\* The credentials a request sees; allow = {}: no allow list.
Seen(r, allow, verified) ==
    {c \in (IF allow = {} THEN Found(r) ELSE {c \in allow : c.rp = r}) : Shown(c, verified, allow = {})}

Request(r, allow, verified, up, size) ==
    [rp |-> r, resident |-> allow = {}, uv |-> verified, up |-> up, size |-> size]

Save(s, request) ==
    /\ credsx' = s
    /\ credentialCounter' = 1
    /\ savedx' = request
    /\ answered' = <<s[1]>>

Reply(cmd, c, request) == out' = [cmd |-> cmd, cred |-> c, to |-> request]

\* A list is saved when more than one credential is seen, unless up = false;
\* an earlier list that is not replaced stays.
GetAssertion(r, allow, verified, up) ==
    \E s \in Sorted(Seen(r, allow, verified)) :
        /\ IF up /\ Len(s) > 1 THEN Save(s, Request(r, allow, verified, up, Len(s))) ELSE UNCHANGED list
        /\ Reply("GA", s[1], Request(r, allow, verified, up, Len(s)))
        /\ UNCHANGED store

\* Refused while building the answer (hmac-secret under another key): the list
\* is saved and getNextAssertion goes on from its second entry.
GetAssertionBroken(r, allow, verified) ==
    \E s \in Sorted(Seen(r, allow, verified)) :
        /\ Len(s) > 1
        /\ Save(s, Request(r, allow, verified, TRUE, Len(s)))
        /\ out' = Empty
        /\ UNCHANGED store

(***************************************************************************)
(* authenticatorGetNextAssertion                                           *)
(***************************************************************************)

\* credsx is indexed from 0 in the code.
NextCredentialTwice == credsx[credentialCounter] \* mutant
NextCredential == credsx[credentialCounter + 1]

\* The counter, once incremented, has reached the end.
Exhausted(counter) == counter + 1 = Len(credsx)

GetNextAssertion ==
    /\ credentialCounter < Len(credsx)
    /\ Reply("GNA", NextCredential, savedx)
    /\ answered' = Append(answered, NextCredential)
    /\ IF Exhausted(credentialCounter)
       THEN Forget
       ELSE credentialCounter' = credentialCounter + 1 /\ UNCHANGED <<credsx, savedx>>
    /\ UNCHANGED store

\* Nothing left, more than 30 s since the last (timerx), or an answer that
\* cannot be built.
GetNextAssertionRefused ==
    /\ Forget
    /\ answered' = <<>>
    /\ out' = Empty
    /\ UNCHANGED store

(***************************************************************************)
(* The store and power                                                     *)
(***************************************************************************)

\* deleteCredential.
Delete(i) ==
    /\ resident[i] # Empty
    /\ resident' = [resident EXCEPT ![i] = Empty]
    /\ out' = Empty
    /\ UNCHANGED <<made, clock, serial, list>>

\* The files go, the RAM stays: credsx too.
Reset ==
    /\ resident' = [i \in Slots |-> Empty] /\ made' = {}
    /\ out' = Empty
    /\ UNCHANGED <<clock, serial, list>>

\* Bound of the model: one power cycle between registrations that are listed
\* together is enough to restart their clock.
RestartBound == clock = serial

PowerCycle ==
    /\ RestartBound
    /\ credsx' = <<>> /\ credentialCounter' = 1 /\ savedx' = Empty
    /\ answered' = <<>>
    /\ clock' = 0
    /\ out' = Empty
    /\ UNCHANGED <<resident, made, serial>>

Init ==
    /\ resident = [i \in Slots |-> Empty] /\ made = {}
    /\ clock = 0 /\ serial = 0
    /\ credsx = <<>> /\ credentialCounter = 1 /\ savedx = Empty
    /\ answered = <<>>
    /\ out = Empty

AllowLists == {allow \in SUBSET made : Cardinality(allow) <= MaxList}

Next ==
    \/ \E kind \in Kinds, rk \in BOOLEAN : MakeCredential(kind[1], kind[2], rk)
    \/ \E r \in Rps, allow \in AllowLists, verified \in BOOLEAN :
        \/ \E up \in BOOLEAN : GetAssertion(r, allow, verified, up)
        \/ GetAssertionBroken(r, allow, verified)
    \/ GetNextAssertion
    \/ GetNextAssertionRefused
    \/ \E i \in Slots : Delete(i)
    \/ Reset
    \/ PowerCycle

Spec == Init /\ [][Next]_vars

(***************************************************************************)
(* Properties                                                              *)
(***************************************************************************)

\* A credential with credProtect 3 is answered for only in a verified
\* assertion, one with credProtect 2 is discovered only in one, and only at
\* its relying party; also when getNextAssertion answers from a list that an
\* earlier command saved.
ProtectedNeedsUv ==
    out # Empty =>
        /\ out.cred.rp = out.to.rp
        /\ out.cred.protect = 3 => out.to.uv
        /\ out.cred.protect = 2 /\ out.to.resident => out.to.uv

\* getNextAssertion, however its calls are interleaved with other commands,
\* never answers twice for a credential of its list, goes from the most recent
\* creation to the oldest, and ends exactly when all were answered.
NextAssertionsExact ==
    /\ IsInjective(answered)
    /\ \A i, j \in DOMAIN answered : i < j => answered[i].creation >= answered[j].creation
    /\ out # Empty /\ out.cmd = "GNA" => (credsx = <<>> <=> Len(answered) = out.to.size)

\* "No other credentials should be returned" after an assertion with
\* up = false (test_returned_credential): getNextAssertion is refused.
NothingAfterSilentAssertion ==
    [][out # Empty /\ out.cmd = "GA" /\ ~out.to.up => out' = Empty \/ out'.cmd = "GA"]_vars
==============================================================================
