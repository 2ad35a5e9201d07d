------------------------------ MODULE PinToken ------------------------------
(***************************************************************************)
(* The life of a pinUvAuthToken: obtained with the PIN, bound to a relying *)
(* party, spent by an assertion, lost at a reset, a changePIN or a power   *)
(* cycle; and the commands that rest on it (cbor_client_pin.c,             *)
(* cbor_make_credential.c, cbor_get_assertion.c, cbor_cred_mgmt.c,         *)
(* cbor_large_blobs.c, cbor_config.c).                                     *)
(*                                                                         *)
(* One action is one command.  clientPIN appears as far as it touches the  *)
(* token (module ClientPin has all of it), the credentials a command works *)
(* on do not appear (modules Assertion and CredMgmt).  A command refused   *)
(* before it touches the token is a stuttering step.                       *)
(*                                                                         *)
(* paut.user_present is never TRUE (beginUsingPinUvAuthToken is called     *)
(* with false) and the usage timers are never observed in this code, so    *)
(* neither is modelled: a token lives until one of the actions here ends   *)
(* it.                                                                     *)
(***************************************************************************)
EXTENDS Naturals

CONSTANTS
    Rps,          \* relying parties
    NoRp,         \* token not bound
    PermRequests, \* permission sets a platform asks for
    Empty         \* no response; no grant

Permissions == {"mc", "ga", "cm", "lbw", "acfg"}

ASSUME RpAssumption == NoRp \notin Rps
ASSUME PermAssumption == PermRequests \subseteq SUBSET Permissions
ASSUME EmptyAssumption == \A perms \in SUBSET Permissions : perms # Empty

VARIABLES
    pinSet,      \* EF_PIN has data
    held,        \* some platform holds the token now in EF_AUTHTOKEN
    paut,        \* RAM part of the token
    hkey_init,   \* a clientPIN command was run since power-up
    grant,       \* history: permissions asked for with the token, Empty after a loss
    fresh,       \* history: a PIN was entered since power-up and no assertion
                 \* with user presence followed
    registered,  \* history: relying party of the first registration under the token
    out          \* last response: what was served, by which permission

token   == <<held, paut, hkey_init>>
history == <<grant, fresh, registered>>
vars    == <<pinSet, token, history, out>>

RpOrNone == Rps \cup {NoRp}

Tokens == [in_use : BOOLEAN, user_verified : BOOLEAN, permissions : SUBSET Permissions, rp : RpOrNone]
Responses == [cmd : {"MC", "GA", "CM", "LB", "CFG"}, perm : Permissions \cup {"none"},
              rp : RpOrNone, uv : BOOLEAN, up : BOOLEAN, touched : BOOLEAN]

TypeOK ==
    /\ pinSet \in BOOLEAN /\ held \in BOOLEAN /\ hkey_init \in BOOLEAN /\ fresh \in BOOLEAN
    /\ paut \in Tokens
    /\ paut.permissions # {} => paut.in_use
    /\ grant # Empty => grant \in SUBSET Permissions
    /\ registered \in RpOrNone
    /\ out \in Responses \cup {Empty}

(***************************************************************************)
(* Helpers                                                                 *)
(***************************************************************************)

Serve(cmd, perm, r, uv, up, touched) ==
    out' = [cmd |-> cmd, perm |-> perm, rp |-> r, uv |-> uv, up |-> up, touched |-> touched]

\* The token presented verifies (pinUvAuthParam) and allows perm.
Allows(perm) == held /\ perm \in paut.permissions

\* A token that names a relying party serves no other.
MayServe(r) == paut.rp \in {NoRp, r}

\* getUserVerifiedFlagValue().
UserVerified == paut.in_use /\ paut.user_verified

\* A registration binds a token that names no relying party.
BindNothing(t, r) == t \* mutant
Bind(t, r) == IF t.rp = NoRp THEN [t EXCEPT !.rp = r] ELSE t

\* clearUserVerifiedFlag() and clearPinUvAuthTokenPermissionsExceptLbw(),
\* which assigns LBW whether it was granted or not.
ClearedKeepsUv(t) == IF t.in_use THEN [t EXCEPT !.permissions = {"lbw"}] ELSE t \* mutant
ClearedDropsLbw(t) == \* mutant
    IF t.in_use THEN [t EXCEPT !.user_verified = FALSE, !.permissions = {}] ELSE t
ClearedAddsLbw(t) == \* mutant
    IF t.in_use THEN [t EXCEPT !.user_verified = FALSE, !.permissions = @ \cup {"lbw"}] ELSE t
Cleared(t) ==
    IF t.in_use THEN [t EXCEPT !.user_verified = FALSE, !.permissions = {"lbw"}] ELSE t

\* resetPinUvAuthToken(): a new random token without permissions.
NewToken ==
    /\ held' = FALSE
    /\ paut' = [paut EXCEPT !.permissions = {}]
    /\ grant' = Empty
    /\ registered' = NoRp

(***************************************************************************)
(* authenticatorClientPIN                                                  *)
(***************************************************************************)

\* initialize(): the first clientPIN command since power-up (getPINRetries,
\* getKeyAgreement or one that is refused, for the others need the key it makes).
Initialize ==
    /\ ~hkey_init
    /\ hkey_init' = TRUE
    /\ NewToken
    /\ out' = Empty
    /\ UNCHANGED <<pinSet, fresh>>

SetPIN ==
    /\ hkey_init /\ ~pinSet
    /\ pinSet' = TRUE
    /\ out' = Empty
    /\ UNCHANGED <<token, history>>

ChangePIN ==
    /\ hkey_init /\ pinSet
    /\ NewToken
    /\ out' = Empty
    /\ UNCHANGED <<pinSet, hkey_init, fresh>>

\* The PIN was right: a new token, in use, verified, with what was asked for.
GetPinToken(perms, r) ==
    /\ hkey_init /\ pinSet
    /\ held' = TRUE
    /\ paut' = [in_use |-> TRUE, user_verified |-> TRUE, permissions |-> perms, rp |-> r]
    /\ grant' = perms
    /\ fresh' = TRUE
    /\ registered' = NoRp
    /\ out' = Empty
    /\ UNCHANGED <<pinSet, hkey_init>>

(***************************************************************************)
(* authenticatorMakeCredential                                             *)
(***************************************************************************)

MayRegister(r) == Allows("mc") /\ MayServe(r) /\ UserVerified

\* With a token the user is asked for a touch.  (up is no option here, so the
\* verification and the permissions are never cleared.)
Register(r) ==
    /\ MayRegister(r)
    /\ paut' = Bind(paut, r)
    /\ registered' = IF registered = NoRp THEN r ELSE registered
    /\ Serve("MC", "mc", r, TRUE, TRUE, TRUE)
    /\ UNCHANGED <<pinSet, held, hkey_init, grant, fresh>>

\* Refused after the binding: an excluded credential, no touch, a full store.
RegisterRefused(r) ==
    /\ MayRegister(r)
    /\ paut' = Bind(paut, r)
    /\ out' = Empty
    /\ UNCHANGED <<pinSet, held, hkey_init, history>>

\* Without a token, while no PIN is set: nobody is asked for a touch, and the
\* UV flag of the response is the one in RAM.
RegisterWithoutToken(r) ==
    /\ ~pinSet
    /\ Serve("MC", "none", r, UserVerified, TRUE, FALSE)
    /\ UNCHANGED <<pinSet, token, history>>

(***************************************************************************)
(* authenticatorGetAssertion                                               *)
(***************************************************************************)

MayAssert(r) == Allows("ga") /\ MayServe(r) /\ UserVerified

\* A touch, asked for unless up = false, spends the token in use, also when
\* the request came without one.
Spend(up) ==
    IF up THEN paut' = Cleared(paut) /\ fresh' = FALSE ELSE UNCHANGED <<paut, fresh>>

GetAssertion(r, verified, up) ==
    /\ verified => MayAssert(r)
    /\ Spend(up)
    /\ Serve("GA", IF verified THEN "ga" ELSE "none", r, verified, up, up)
    /\ UNCHANGED <<pinSet, held, hkey_init, grant, registered>>

\* Refused after the touch: largeBlobKey = false, hmac-secret under another key.
GetAssertionRefused ==
    /\ Spend(TRUE)
    /\ out' = Empty
    /\ UNCHANGED <<pinSet, held, hkey_init, grant, registered>>

(***************************************************************************)
(* The other commands that take a token                                    *)
(***************************************************************************)

\* Credential management: all relying parties (getCredsMetadata, enumerateRPs).
ManageAll ==
    /\ Allows("cm") /\ paut.rp = NoRp
    /\ Serve("CM", "cm", NoRp, FALSE, FALSE, FALSE)
    /\ UNCHANGED <<pinSet, token, history>>

\* enumerateCredentials, or a delete or update: r is the relying party the
\* request names, which nothing compares with the credential's.
Manage(r) ==
    /\ Allows("cm") /\ MayServe(r)
    /\ Serve("CM", "cm", r, FALSE, FALSE, FALSE)
    /\ UNCHANGED <<pinSet, token, history>>

\* The preview command (0x41) checks the token only.
ManagePreview ==
    /\ held
    /\ Serve("CM", "none", NoRp, FALSE, FALSE, FALSE)
    /\ UNCHANGED <<pinSet, token, history>>

\* A fragment of largeBlobs set: takes a token also while no PIN is set.
WriteLargeBlob ==
    /\ Allows("lbw")
    /\ Serve("LB", "lbw", NoRp, FALSE, FALSE, FALSE)
    /\ UNCHANGED <<pinSet, token, history>>

Configure ==
    /\ Allows("acfg")
    /\ Serve("CFG", "acfg", NoRp, FALSE, FALSE, FALSE)
    /\ UNCHANGED <<pinSet, token, history>>

(***************************************************************************)
(* Reset and power                                                         *)
(***************************************************************************)

\* The files go, EF_AUTHTOKEN is made anew, paut stays as it is in RAM.
Reset ==
    /\ pinSet' = FALSE
    /\ held' = FALSE
    /\ grant' = Empty
    /\ registered' = NoRp
    /\ out' = Empty
    /\ UNCHANGED <<paut, hkey_init, fresh>>

\* RAM is zero after power-up; EF_AUTHTOKEN is a file and stays.
PowerLost == [in_use |-> FALSE, user_verified |-> FALSE, permissions |-> {}, rp |-> NoRp]

PowerCycle ==
    /\ paut' = PowerLost
    /\ hkey_init' = FALSE
    /\ grant' = Empty
    /\ fresh' = FALSE
    /\ registered' = NoRp
    /\ out' = Empty
    /\ UNCHANGED <<pinSet, held>>

Init ==
    /\ pinSet = FALSE
    /\ held = FALSE
    /\ paut = [in_use |-> FALSE, user_verified |-> FALSE, permissions |-> {}, rp |-> NoRp]
    /\ hkey_init = FALSE
    /\ grant = Empty /\ fresh = FALSE /\ registered = NoRp
    /\ out = Empty

\* Commands other than a fragment of largeBlobs (module LargeBlobs) and reset.
Command ==
    \/ Initialize
    \/ SetPIN
    \/ ChangePIN
    \/ \E perms \in PermRequests, r \in RpOrNone : GetPinToken(perms, r)
    \/ \E r \in Rps :
        \/ Register(r)
        \/ RegisterRefused(r)
        \/ RegisterWithoutToken(r)
        \/ \E verified, up \in BOOLEAN : GetAssertion(r, verified, up)
        \/ Manage(r)
    \/ GetAssertionRefused
    \/ ManageAll
    \/ ManagePreview
    \/ Configure

Next == Command \/ WriteLargeBlob \/ Reset \/ PowerCycle

Spec == Init /\ [][Next]_vars

(***************************************************************************)
(* Properties                                                              *)
(***************************************************************************)

\* A response says that the user was verified only after a PIN was entered
\* since power-up and while no assertion with a touch came in between,
\* whichever command gives it and with or without a token.
UvIsFresh == [][out' # Empty /\ out'.uv => fresh]_vars

\* A token serves what was asked for with the PIN until an assertion spends
\* it, from then on large blobs only, and nothing across a loss of the token.
ServedAsGranted ==
    [][out' # Empty /\ out'.perm # "none" =>
        grant # Empty /\ out'.perm \in (IF fresh THEN grant ELSE {"lbw"})]_vars

\* Once a relying party was registered under a token, the token registers,
\* asserts and lists credentials for no other.
RegistrationBindsToken ==
    [][out' # Empty /\ out'.perm \in {"mc", "ga", "cm"} /\ registered # NoRp => out'.rp = registered]_vars

\* The permission to write large blobs lasts as long as the token it was
\* granted with: assertions and registrations under the same token do not end
\* a write of several fragments.
GrantedLbwLasts == held /\ grant # Empty /\ "lbw" \in grant => Allows("lbw")

\* "User presence enforcement through physical button" (README.md): a response
\* says that the user is present only if a touch was asked for.
UserPresenceEnforced == out # Empty /\ out.up => out.touched
==============================================================================
