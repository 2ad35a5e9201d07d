--------------------------- MODULE PinTokenProofs ---------------------------
(***************************************************************************)
(* Proofs about PinToken, for any relying parties and any permission       *)
(* requests, and about LargeBlobs, which rests on it, for any arrays,      *)
(* lengths and fragments.                                                  *)
(*                                                                         *)
(* The invariant of the token says what RAM and the history agree on: a    *)
(* user verified in RAM is freshly verified, a token that somebody holds   *)
(* never carries more than was granted, and the relying party registered   *)
(* under a token is the one the token is bound to.  Every step of          *)
(* LargeBlobs is a step of PinToken or leaves it alone, so the theorems    *)
(* hold of the composition.  What is stored follows from the checksum;     *)
(* that an acknowledged array is stored needs an invariant about the       *)
(* buffer: who was acknowledged all of it wrote all of it.                 *)
(***************************************************************************)
EXTENDS LargeBlobs, TLAPS

\* A verification in RAM rests on a PIN entered since and not spent.
VerifiedIsFresh == paut.in_use /\ paut.user_verified => fresh

\* Permissions of a held token were granted, and all but lbw end when it is spent.
HeldIsGranted ==
    held /\ paut.permissions # {} =>
        grant # Empty /\ (fresh => paut.permissions \subseteq grant) /\ (~fresh => paut.permissions \subseteq {"lbw"})

\* A held token in use was granted.
HeldInUseIsGranted == held /\ paut.in_use => grant # Empty

\* The token is bound to the relying party that registered under it.
BoundToRegistered == registered # NoRp => paut.rp = registered

IInv == TypeOK /\ VerifiedIsFresh /\ HeldIsGranted /\ HeldInUseIsGranted /\ BoundToRegistered

\* After power-up nobody holds a token and none is in use.
LEMMA InitIInv == Init => IInv
  <1>. SUFFICES ASSUME Init PROVE IInv
    OBVIOUS
  <1>1. paut \in Tokens
    BY DEF Init, Tokens, RpOrNone
  <1>2. TypeOK
    BY <1>1 DEF Init, TypeOK, RpOrNone
  <1>. QED
    BY <1>2 DEF Init, IInv, VerifiedIsFresh, HeldIsGranted, HeldInUseIsGranted, BoundToRegistered

\* A spent token is a token, and has permissions only while in use.
LEMMA SpendTypes ==
    ASSUME TypeOK, NEW up \in BOOLEAN, Spend(up)
    PROVE  paut' \in Tokens /\ (paut'.permissions # {} => paut'.in_use)
  BY DEF Spend, Cleared, TypeOK, Tokens, Permissions

\* Every command preserves the types.
LEMMA TypeStep == ASSUME TypeOK, [Next]_vars PROVE TypeOK'
  <1>1. CASE Initialize
    BY <1>1, EmptyAssumption DEF TypeOK, Tokens, Responses, RpOrNone, Permissions, Initialize, NewToken
  <1>2. CASE SetPIN
    BY <1>2 DEF TypeOK, Tokens, Responses, RpOrNone, Permissions, SetPIN, token, history
  <1>3. CASE ChangePIN
    BY <1>3 DEF TypeOK, Tokens, Responses, RpOrNone, Permissions, ChangePIN, NewToken
  <1>4. ASSUME NEW perms \in PermRequests, NEW r \in RpOrNone, GetPinToken(perms, r) PROVE TypeOK'
    BY <1>4, PermAssumption DEF TypeOK, Tokens, Responses, RpOrNone, Permissions, GetPinToken
  <1>5. ASSUME NEW r \in Rps, Register(r) PROVE TypeOK'
    BY <1>5 DEF TypeOK, Tokens, Responses, RpOrNone, Permissions, Register, MayRegister, Bind, Serve
  <1>6. ASSUME NEW r \in Rps, RegisterRefused(r) PROVE TypeOK'
    BY <1>6 DEF TypeOK, Tokens, Responses, RpOrNone, Permissions, RegisterRefused, MayRegister, Bind, history
  <1>7. ASSUME NEW r \in Rps, RegisterWithoutToken(r) PROVE TypeOK'
    BY <1>7 DEF TypeOK, Tokens, Responses, RpOrNone, Permissions, RegisterWithoutToken, UserVerified, Serve, token, history
  <1>8. ASSUME NEW r \in Rps, NEW verified \in BOOLEAN, NEW up \in BOOLEAN, GetAssertion(r, verified, up)
        PROVE  TypeOK'
    <2>1. out' \in Responses
      BY <1>8 DEF GetAssertion, Serve, Responses, Permissions, RpOrNone
    <2>2. paut' \in Tokens /\ (paut'.permissions # {} => paut'.in_use)
      BY <1>8, SpendTypes DEF GetAssertion
    <2>3. fresh' \in BOOLEAN
      BY <1>8 DEF GetAssertion, Spend, TypeOK
    <2>4. UNCHANGED <<pinSet, held, hkey_init, grant, registered>>
      BY <1>8, Zenon DEF GetAssertion
    <2>. QED
      BY <2>1, <2>2, <2>3, <2>4 DEF TypeOK
  <1>9. ASSUME NEW r \in Rps, Manage(r) PROVE TypeOK'
    BY <1>9 DEF TypeOK, Tokens, Responses, RpOrNone, Permissions, Manage, Serve, token, history
  <1>10. CASE GetAssertionRefused
    BY <1>10 DEF TypeOK, Tokens, Responses, RpOrNone, Permissions, GetAssertionRefused, Spend, Cleared
  <1>11. CASE ManageAll \/ ManagePreview \/ WriteLargeBlob \/ Configure
    <2>0. NoRp \in RpOrNone
      BY DEF RpOrNone
    <2>1. \E cmd \in {"CM", "LB", "CFG"}, perm \in Permissions \cup {"none"} : Serve(cmd, perm, NoRp, FALSE, FALSE, FALSE)
      BY <1>11 DEF ManageAll, ManagePreview, WriteLargeBlob, Configure, Permissions
    <2>3. out' \in Responses
      BY <2>0, <2>1 DEF Serve, Responses
    <2>2. UNCHANGED <<pinSet, token, history>>
      BY <1>11, Zenon DEF ManageAll, ManagePreview, WriteLargeBlob, Configure
    <2>. QED
      BY <2>3, <2>2 DEF TypeOK, token, history
  <1>12. CASE Reset
    BY <1>12 DEF TypeOK, Tokens, Responses, RpOrNone, Permissions, Reset
  <1>13. CASE PowerCycle
    BY <1>13 DEF TypeOK, Tokens, Responses, RpOrNone, Permissions, PowerCycle, PowerLost
  <1>14. CASE UNCHANGED vars
    BY <1>14 DEF TypeOK, Tokens, Responses, RpOrNone, Permissions, vars, token, history
  <1>. QED
    BY <1>1, <1>2, <1>3, <1>4, <1>5, <1>6, <1>7, <1>8, <1>9, <1>10, <1>11, <1>12, <1>13, <1>14 DEF Next, Command

\* Spending the token in use keeps the invariant.
LEMMA Spending ==
    ASSUME IInv, NEW up \in BOOLEAN, Spend(up), TypeOK', UNCHANGED <<held, grant, registered>>
    PROVE  IInv'
  <1>1. VerifiedIsFresh'
    BY DEF Spend, Cleared, IInv, VerifiedIsFresh, TypeOK, Tokens
  <1>2. HeldInUseIsGranted'
    BY DEF Spend, Cleared, IInv, HeldInUseIsGranted, TypeOK, Tokens
  <1>3. HeldIsGranted'
    BY DEF Spend, Cleared, IInv, HeldIsGranted, HeldInUseIsGranted, TypeOK, Tokens
  <1>4. BoundToRegistered'
    BY DEF Spend, Cleared, IInv, BoundToRegistered, TypeOK, Tokens
  <1>. QED
    BY <1>1, <1>2, <1>3, <1>4 DEF IInv

\* So does binding it, for a relying party it may serve.
LEMMA Binding ==
    ASSUME IInv, NEW r \in Rps, MayServe(r), paut' = Bind(paut, r), TypeOK',
           registered' \in {registered, r}, registered # NoRp => registered' = registered,
           UNCHANGED <<held, grant, fresh>>
    PROVE  IInv'
  <1>1. /\ paut'.in_use = paut.in_use /\ paut'.user_verified = paut.user_verified
        /\ paut'.permissions = paut.permissions /\ paut'.rp = r
    BY DEF Bind, MayServe, IInv, TypeOK, Tokens
  <1>2. VerifiedIsFresh' /\ HeldIsGranted' /\ HeldInUseIsGranted'
    BY <1>1 DEF IInv, VerifiedIsFresh, HeldIsGranted, HeldInUseIsGranted
  <1>3. BoundToRegistered'
    BY <1>1, RpAssumption DEF IInv, BoundToRegistered, MayServe
  <1>. QED
    BY <1>2, <1>3 DEF IInv

\* Every command, reset and power cycle preserves the invariant.
LEMMA StepIInv == ASSUME IInv, [Next]_vars PROVE IInv'
  <1>0. TypeOK /\ TypeOK'
    BY TypeStep DEF IInv
  <1>1. CASE Initialize
    BY <1>0, <1>1 DEF Initialize, NewToken, IInv, TypeOK, Tokens, VerifiedIsFresh, HeldIsGranted, HeldInUseIsGranted, BoundToRegistered
  <1>2. CASE SetPIN
    BY <1>0, <1>2 DEF SetPIN, token, history, IInv, VerifiedIsFresh, HeldIsGranted, HeldInUseIsGranted, BoundToRegistered
  <1>3. CASE ChangePIN
    BY <1>0, <1>3 DEF ChangePIN, NewToken, IInv, TypeOK, Tokens, VerifiedIsFresh, HeldIsGranted, HeldInUseIsGranted, BoundToRegistered
  <1>4. ASSUME NEW perms \in PermRequests, NEW r \in RpOrNone, GetPinToken(perms, r) PROVE IInv'
    <2>1. grant' # Empty
      BY <1>4, PermAssumption, EmptyAssumption DEF GetPinToken
    <2>. QED
      BY <1>0, <1>4, <2>1 DEF GetPinToken, IInv, VerifiedIsFresh, HeldIsGranted, HeldInUseIsGranted, BoundToRegistered
  <1>5. ASSUME NEW r \in Rps, Register(r) PROVE IInv'
    BY <1>0, <1>5, Binding DEF Register, MayRegister
  <1>6. ASSUME NEW r \in Rps, RegisterRefused(r) PROVE IInv'
    BY <1>0, <1>6, Binding DEF RegisterRefused, MayRegister, history
  <1>7. ASSUME NEW r \in Rps, RegisterWithoutToken(r) PROVE IInv'
    BY <1>0, <1>7 DEF RegisterWithoutToken, token, history, IInv, VerifiedIsFresh, HeldIsGranted, HeldInUseIsGranted, BoundToRegistered
  <1>8. ASSUME NEW r \in Rps, NEW verified \in BOOLEAN, NEW up \in BOOLEAN, GetAssertion(r, verified, up)
        PROVE  IInv'
    <2>1. Spend(up) /\ UNCHANGED <<held, grant, registered>>
      BY <1>8, Zenon DEF GetAssertion
    <2>. QED
      BY <1>0, <2>1, Spending
  <1>9. ASSUME NEW r \in Rps, Manage(r) PROVE IInv'
    BY <1>0, <1>9 DEF Manage, token, history, IInv, VerifiedIsFresh, HeldIsGranted, HeldInUseIsGranted, BoundToRegistered
  <1>10. CASE GetAssertionRefused
    BY <1>0, <1>10, Spending DEF GetAssertionRefused
  <1>11. CASE ManageAll \/ ManagePreview \/ WriteLargeBlob \/ Configure
    <2>1. UNCHANGED <<pinSet, token, history>>
      BY <1>11, Zenon DEF ManageAll, ManagePreview, WriteLargeBlob, Configure
    <2>. QED
      BY <1>0, <2>1 DEF token, history, IInv, VerifiedIsFresh, HeldIsGranted, HeldInUseIsGranted, BoundToRegistered
  <1>12. CASE Reset
    BY <1>0, <1>12 DEF Reset, IInv, VerifiedIsFresh, HeldIsGranted, HeldInUseIsGranted, BoundToRegistered
  <1>13. CASE PowerCycle
    BY <1>0, <1>13 DEF PowerCycle, PowerLost, IInv, VerifiedIsFresh, HeldIsGranted, HeldInUseIsGranted, BoundToRegistered
  <1>14. CASE UNCHANGED vars
    BY <1>0, <1>14 DEF vars, token, history, IInv, VerifiedIsFresh, HeldIsGranted, HeldInUseIsGranted, BoundToRegistered
  <1>. QED
    BY <1>1, <1>2, <1>3, <1>4, <1>5, <1>6, <1>7, <1>8, <1>9, <1>10, <1>11, <1>12, <1>13, <1>14 DEF Next, Command

\* The state of the token and what was granted, verified and registered
\* agree in every reachable state.
THEOREM TokenInvariant == Spec => []IInv
  <1>1. IInv /\ [Next]_vars => IInv'
    BY StepIInv
  <1>. QED
    BY InitIInv, <1>1, PTL DEF Spec

\* A response that says the user was verified rests on a PIN entered since
\* power-up and not spent on an assertion (UvIsFresh), for any relying parties
\* and permission requests.
THEOREM VerificationIsFresh == Spec => UvIsFresh
  <1>1. ASSUME IInv, Next PROVE out' # Empty /\ out'.uv => fresh
    <2>1. ASSUME NEW r \in Rps, Register(r) PROVE fresh
      BY <1>1, <2>1 DEF Register, MayRegister, UserVerified, IInv, VerifiedIsFresh
    <2>2. ASSUME NEW r \in Rps, RegisterWithoutToken(r) PROVE out'.uv => fresh
      BY <1>1, <2>2 DEF RegisterWithoutToken, UserVerified, Serve, IInv, VerifiedIsFresh
    <2>3. ASSUME NEW r \in Rps, NEW verified \in BOOLEAN, NEW up \in BOOLEAN, GetAssertion(r, verified, up)
          PROVE  out'.uv => fresh
      <3>1. out'.uv = verified
        BY <2>3, Zenon DEF GetAssertion, Serve
      <3>2. verified => UserVerified
        BY <2>3, Zenon DEF GetAssertion, MayAssert
      <3>. QED
        BY <1>1, <3>1, <3>2 DEF UserVerified, IInv, VerifiedIsFresh
    <2>4. ASSUME NEW r \in Rps, Manage(r) PROVE ~out'.uv
      BY <2>4 DEF Manage, Serve
    <2>5. CASE ManageAll \/ ManagePreview \/ WriteLargeBlob \/ Configure
      BY <2>5 DEF ManageAll, ManagePreview, WriteLargeBlob, Configure, Serve
    <2>6. CASE Initialize \/ SetPIN \/ ChangePIN \/ GetAssertionRefused \/ Reset \/ PowerCycle
      BY <2>6 DEF Initialize, SetPIN, ChangePIN, GetAssertionRefused, Reset, PowerCycle
    <2>7. ASSUME NEW perms \in PermRequests, NEW r \in RpOrNone, GetPinToken(perms, r) PROVE out' = Empty
      BY <2>7 DEF GetPinToken
    <2>8. ASSUME NEW r \in Rps, RegisterRefused(r) PROVE out' = Empty
      BY <2>8 DEF RegisterRefused
    <2>. QED
      BY <1>1, <2>1, <2>2, <2>3, <2>4, <2>5, <2>6, <2>7, <2>8 DEF Next, Command
  <1>2. IInv /\ [Next]_vars => [out' # Empty /\ out'.uv => fresh]_vars
    BY <1>1
  <1>. QED
    BY TokenInvariant, <1>2, PTL DEF Spec, UvIsFresh

\* Every command served with a token was granted with it, and after an
\* assertion has spent it only large blobs are served (ServedAsGranted).
THEOREM TokensServeWhatWasGranted == Spec => ServedAsGranted
  <1> DEFINE Granted(perm) == grant # Empty /\ perm \in (IF fresh THEN grant ELSE {"lbw"})
  <1>1. ASSUME IInv, NEW perm \in Permissions, Allows(perm) PROVE Granted(perm)
    BY <1>1 DEF Allows, IInv, HeldIsGranted
  <1>2. ASSUME IInv, Next PROVE out' # Empty /\ out'.perm # "none" => Granted(out'.perm)
    <2>1. ASSUME NEW r \in Rps, Register(r) PROVE out'.perm = "mc" /\ Allows("mc")
      BY <2>1 DEF Register, MayRegister, Serve
    <2>2. ASSUME NEW r \in Rps, RegisterWithoutToken(r) PROVE out'.perm = "none"
      BY <2>2 DEF RegisterWithoutToken, Serve
    <2>3. ASSUME NEW r \in Rps, NEW verified \in BOOLEAN, NEW up \in BOOLEAN, GetAssertion(r, verified, up)
          PROVE  out'.perm = "none" \/ (out'.perm = "ga" /\ Allows("ga"))
      BY <2>3, Zenon DEF GetAssertion, MayAssert, Serve
    <2>4. ASSUME NEW r \in Rps, Manage(r) PROVE out'.perm = "cm" /\ Allows("cm")
      BY <2>4 DEF Manage, Serve
    <2>5. CASE ManageAll \/ ManagePreview \/ WriteLargeBlob \/ Configure
      <3>1. out'.perm = "none" \/ (out'.perm \in {"cm", "lbw", "acfg"} /\ Allows(out'.perm))
        BY <2>5 DEF ManageAll, ManagePreview, WriteLargeBlob, Configure, Serve
      <3>. QED
        BY <1>1, <1>2, <3>1 DEF Permissions
    <2>6. CASE Initialize \/ SetPIN \/ ChangePIN \/ GetAssertionRefused \/ Reset \/ PowerCycle
      BY <2>6 DEF Initialize, SetPIN, ChangePIN, GetAssertionRefused, Reset, PowerCycle
    <2>7. ASSUME NEW perms \in PermRequests, NEW r \in RpOrNone, GetPinToken(perms, r) PROVE out' = Empty
      BY <2>7 DEF GetPinToken
    <2>8. ASSUME NEW r \in Rps, RegisterRefused(r) PROVE out' = Empty
      BY <2>8 DEF RegisterRefused
    <2>9. Allows("mc") => Granted("mc")
      BY <1>1, <1>2 DEF Permissions
    <2>10. Allows("ga") => Granted("ga")
      BY <1>1, <1>2 DEF Permissions
    <2>11. Allows("cm") => Granted("cm")
      BY <1>1, <1>2 DEF Permissions
    <2>. HIDE DEF Granted
    <2>. QED
      BY <1>2, <2>1, <2>2, <2>3, <2>4, <2>5, <2>6, <2>7, <2>8, <2>9, <2>10, <2>11 DEF Next, Command
  <1>3. IInv /\ [Next]_vars => [out' # Empty /\ out'.perm # "none" => Granted(out'.perm)]_vars
    BY <1>2
  <1>. QED
    BY TokenInvariant, <1>3, PTL DEF Spec, ServedAsGranted

\* A token under which a relying party was registered serves no other one
\* (RegistrationBindsToken).
THEOREM RegistrationsBindTheToken == Spec => RegistrationBindsToken
  <1>1. ASSUME IInv, registered # NoRp, NEW r \in Rps, MayServe(r) PROVE r = registered
    BY <1>1 DEF MayServe, IInv, BoundToRegistered
  <1>2. ASSUME IInv, Next
        PROVE  out' # Empty /\ out'.perm \in {"mc", "ga", "cm"} /\ registered # NoRp => out'.rp = registered
    <2>1. ASSUME NEW r \in Rps, Register(r) PROVE out'.rp = r /\ MayServe(r)
      BY <2>1 DEF Register, MayRegister, Serve
    <2>2. ASSUME NEW r \in Rps, RegisterWithoutToken(r) PROVE out'.perm = "none"
      BY <2>2 DEF RegisterWithoutToken, Serve
    <2>3. ASSUME NEW r \in Rps, NEW verified \in BOOLEAN, NEW up \in BOOLEAN, GetAssertion(r, verified, up)
          PROVE  out'.perm = "none" \/ (out'.rp = r /\ MayServe(r))
      BY <2>3, Zenon DEF GetAssertion, MayAssert, Serve
    <2>4. ASSUME NEW r \in Rps, Manage(r) PROVE out'.rp = r /\ MayServe(r)
      BY <2>4 DEF Manage, Serve
    <2>5. CASE ManageAll
      <3>1. registered = NoRp
        BY <1>2, <2>5 DEF ManageAll, IInv, BoundToRegistered
      <3>. QED
        BY <3>1
    <2>6. CASE ManagePreview \/ WriteLargeBlob \/ Configure
      BY <2>6 DEF ManagePreview, WriteLargeBlob, Configure, Serve
    <2>7. CASE Initialize \/ SetPIN \/ ChangePIN \/ GetAssertionRefused \/ Reset \/ PowerCycle
      BY <2>7 DEF Initialize, SetPIN, ChangePIN, GetAssertionRefused, Reset, PowerCycle
    <2>8. ASSUME NEW perms \in PermRequests, NEW r \in RpOrNone, GetPinToken(perms, r) PROVE out' = Empty
      BY <2>8 DEF GetPinToken
    <2>9. ASSUME NEW r \in Rps, RegisterRefused(r) PROVE out' = Empty
      BY <2>9 DEF RegisterRefused
    <2>. QED
      BY <1>1, <1>2, <2>1, <2>2, <2>3, <2>4, <2>5, <2>6, <2>7, <2>8, <2>9 DEF Next, Command
  <1>3. IInv /\ [Next]_vars =>
          [out' # Empty /\ out'.perm \in {"mc", "ga", "cm"} /\ registered # NoRp => out'.rp = registered]_vars
    BY <1>2
  <1>. QED
    BY TokenInvariant, <1>3, PTL DEF Spec, RegistrationBindsToken

\* The permission to write large blobs lasts as long as the token it was
\* granted with (GrantedLbwLasts).
THEOREM LbwLasts == Spec => []GrantedLbwLasts
  <1>1. Init => GrantedLbwLasts
    BY DEF Init, GrantedLbwLasts
  <1>2. ASSUME IInv, IInv', GrantedLbwLasts, [Next]_vars PROVE GrantedLbwLasts'
    <2>1. ASSUME NEW r \in Rps, Register(r) \/ RegisterRefused(r) PROVE GrantedLbwLasts'
      BY <1>2, <2>1 DEF Register, RegisterRefused, Bind, history, IInv, TypeOK, Tokens, GrantedLbwLasts, Allows
    <2>2. ASSUME NEW up \in BOOLEAN, Spend(up), UNCHANGED <<held, grant>> PROVE GrantedLbwLasts'
      BY <1>2, <2>2 DEF Spend, Cleared, IInv, TypeOK, Tokens, GrantedLbwLasts, Allows
    <2>3. ASSUME NEW r \in Rps, NEW verified \in BOOLEAN, NEW up \in BOOLEAN, GetAssertion(r, verified, up)
          PROVE  GrantedLbwLasts'
      <3>1. Spend(up) /\ UNCHANGED <<held, grant>>
        BY <2>3, Zenon DEF GetAssertion
      <3>. QED
        BY <2>2, <3>1
    <2>4. CASE GetAssertionRefused
      BY <2>2, <2>4 DEF GetAssertionRefused
    <2>5. ASSUME NEW perms \in PermRequests, NEW r \in RpOrNone, GetPinToken(perms, r) PROVE GrantedLbwLasts'
      BY <2>5 DEF GetPinToken, GrantedLbwLasts, Allows
    <2>6. CASE Initialize \/ ChangePIN
      BY <2>6 DEF Initialize, ChangePIN, NewToken, GrantedLbwLasts
    <2>7. CASE Reset \/ PowerCycle
      BY <2>7 DEF Reset, PowerCycle, GrantedLbwLasts
    <2>8. ASSUME UNCHANGED <<held, paut, grant>> PROVE GrantedLbwLasts'
      BY <1>2, <2>8 DEF GrantedLbwLasts, Allows
    <2>9. ASSUME NEW r \in Rps, RegisterWithoutToken(r) \/ Manage(r) PROVE GrantedLbwLasts'
      BY <2>8, <2>9, Zenon DEF RegisterWithoutToken, Manage, token, history
    <2>10. CASE SetPIN \/ ManageAll \/ ManagePreview \/ WriteLargeBlob \/ Configure \/ UNCHANGED vars
      BY <2>8, <2>10, Zenon DEF SetPIN, ManageAll, ManagePreview, WriteLargeBlob, Configure, vars, token, history
    <2>. QED
      BY <1>2, <2>1, <2>3, <2>4, <2>5, <2>6, <2>7, <2>9, <2>10 DEF Next, Command
  <1>3. IInv /\ IInv' /\ GrantedLbwLasts /\ [Next]_vars => GrantedLbwLasts'
    BY <1>2
  <1>. QED
    BY TokenInvariant, <1>1, <1>3, PTL DEF Spec

(***************************************************************************)
(* LargeBlobs: the buffer of an array on its way to the file               *)
(***************************************************************************)

\* Nobody was acknowledged more than the buffer holds.
AckedIsHeld == \A a \in Arrays : acked[a] <= Len(got)

\* An array acknowledged as long as the buffer is what the buffer holds.
AllAckedIsOwn ==
    \A a \in Arrays : acked[a] # 0 /\ acked[a] = Len(got) =>
        expectedLength = ArrayLen[a] /\ got = Units(a, Len(got))

\* An array acknowledged to its end is in the buffer and in the file.
CompleteIsStored ==
    \A a \in Arrays : acked[a] = ArrayLen[a] =>
        expectedLength = ArrayLen[a] /\ got = Whole(a) /\ stored = Whole(a)

BlobInv == BlobTypeOK /\ AckedIsHeld /\ AllAckedIsOwn /\ CompleteIsStored

blobState == <<vars, blobVars>>

(***************************************************************************)
(* The composition implements PinToken                                     *)
(***************************************************************************)

\* The properties of the token hold also while blobs are written: each
\* fragment is a WriteLargeBlob of PinToken, or a stutter when it is refused.
THEOREM ImplementsToken == BlobSpec => Spec
  <1>1. BlobInit => Init
    BY DEF BlobInit
  <1>2. [BlobNext]_blobState => [Next]_vars
    <2>. SUFFICES ASSUME BlobNext PROVE [Next]_vars
      BY DEF blobState
    <2>1. CASE Command /\ UNCHANGED blobVars
      BY <2>1 DEF Next
    <2>2. ASSUME NEW a \in Arrays, NEW n \in 0 .. MaxFragment, Start(a, n) \/ Continue(a, n)
          PROVE  [Next]_vars
      BY <2>2 DEF Start, Continue, Copy, Next
    <2>3. ASSUME NEW a \in Arrays, StartRefused(a) PROVE [Next]_vars
      BY <2>3 DEF StartRefused
    <2>4. CASE BlobReset \/ BlobPowerCycle
      BY <2>4 DEF BlobReset, BlobPowerCycle, Next
    <2>. QED
      BY <2>1, <2>2, <2>3, <2>4 DEF BlobNext
  <1>. QED
    BY <1>1, <1>2, PTL DEF BlobSpec, Spec, blobState

\* Assertions and registrations under a token do not end a write of several
\* fragments that was granted with it.
THEOREM BlobTokenLasts == BlobSpec => []GrantedLbwLasts
  BY ImplementsToken, LbwLasts, PTL

(***************************************************************************)
(* Sequences of units                                                      *)
(***************************************************************************)

\* Units cut from one array are a sequence of arrays.
LEMMA UnitsType ==
    ASSUME NEW a \in Arrays, NEW n \in Nat
    PROVE  Units(a, n) \in Seq(Arrays) /\ Len(Units(a, n)) = n
  BY DEF Units

\* Units of one array, appended to units of it, are units of it.
LEMMA UnitsAppend ==
    ASSUME NEW a \in Arrays, NEW m \in Nat, NEW n \in Nat
    PROVE  Units(a, m) \o Units(a, n) = Units(a, m + n)
  BY DEF Units

\* A fragment appended to the buffer.
LEMMA BufferGrows ==
    ASSUME NEW s \in Seq(Arrays), NEW a \in Arrays, NEW n \in Nat
    PROVE  /\ s \o Units(a, n) \in Seq(Arrays)
           /\ Len(s \o Units(a, n)) = Len(s) + n
           /\ n = 0 => s \o Units(a, n) = s
           /\ s = <<>> => s \o Units(a, n) = Units(a, n)
  BY UnitsType DEF Units

(***************************************************************************)
(* The invariant                                                           *)
(***************************************************************************)

\* A first fragment: the array is written and acknowledged from its start.
LEMMA StartStep ==
    ASSUME BlobInv, NEW a \in Arrays, NEW n \in Nat, Start(a, n)
    PROVE  BlobInv'
  <1>1. got' = Units(a, n) /\ Len(got') = n /\ got' \in Seq(Arrays) /\ expectedLength' = ArrayLen[a] /\ n <= ArrayLen[a]
    BY UnitsType, BufferGrows DEF Start, Copy
  <1>2. ArrayLen[a] \in Nat /\ ArrayLen[a] # 0 /\ Units(a, ArrayLen[a]) = Whole(a)
    BY ArrayAssumption DEF Units, Whole
  <1>3. n = ArrayLen[a] => Intact(got')
    BY <1>1, <1>2 DEF Intact
  <1>4. /\ stored' = IF n = ArrayLen[a] THEN got' ELSE stored
        /\ acked' = [NothingAcked EXCEPT ![a] = n]
    BY <1>1, <1>3 DEF Start, Copy
  <1>5. acked' = [b \in Arrays |-> IF b = a THEN n ELSE 0]
    BY <1>4 DEF NothingAcked
  <1>6. BlobTypeOK'
    <2>1. stored' \in Seq(Arrays)
      BY <1>1, <1>4 DEF BlobInv, BlobTypeOK
    <2>2. acked' \in [Arrays -> Nat]
      BY <1>5
    <2>. QED
      BY <1>1, <2>1, <2>2 DEF BlobTypeOK
  <1>7. AckedIsHeld'
    BY <1>1, <1>5 DEF AckedIsHeld
  <1>8. AllAckedIsOwn'
    BY <1>1, <1>5 DEF AllAckedIsOwn, Units
  <1>9. CompleteIsStored'
    <2>. SUFFICES ASSUME NEW b \in Arrays, acked'[b] = ArrayLen[b]
                  PROVE  expectedLength' = ArrayLen[b] /\ got' = Whole(b) /\ stored' = Whole(b)
      BY DEF CompleteIsStored, Whole
    <2>1. b = a /\ n = ArrayLen[a]
      BY <1>5, ArrayAssumption
    <2>. QED
      BY <2>1, <1>1, <1>2, <1>4
  <1>. QED
    BY <1>6, <1>7, <1>8, <1>9 DEF BlobInv

\* A later fragment: only the platform that wrote all the rest completes.
LEMMA ContinueStep ==
    ASSUME BlobInv, NEW a \in Arrays, NEW n \in Nat, Continue(a, n)
    PROVE  BlobInv'
  <1>. DEFINE all == got \o Units(a, n)
  <1>1. /\ got \in Seq(Arrays) /\ Len(got) \in Nat /\ got # <<>> /\ Len(got) # 0
        /\ expectedLength \in Nat /\ Len(got) + n <= expectedLength /\ Len(got) + n <= ArrayLen[a]
        /\ expectedLength' = expectedLength /\ got' = all /\ ArrayLen[a] \in Nat
    BY ArrayAssumption DEF Continue, Copy, BlobInv, BlobTypeOK
  <1>2. got' \in Seq(Arrays) /\ Len(got') = Len(got) + n /\ (n = 0 => got' = got)
    BY <1>1, BufferGrows
  <1>3. acked \in [Arrays -> Nat] /\ stored \in Seq(Arrays)
    BY DEF BlobInv, BlobTypeOK
  <1>4. Len(got) \in Nat /\ Len(got') = Len(got) + n /\ Len(got) + n <= ArrayLen[a]
    BY <1>1, <1>2
  <1>5. CASE Len(all) = expectedLength /\ ~Intact(all)
    <2>1. UNCHANGED <<stored, acked>>
      BY <1>5 DEF Continue, Copy
    <2>2. BlobTypeOK' /\ AckedIsHeld'
      BY <1>1, <1>2, <2>1 DEF BlobInv, BlobTypeOK, AckedIsHeld
    <2>3. AllAckedIsOwn' /\ CompleteIsStored'
      <3>1. CASE n = 0
        BY <1>1, <1>2, <2>1, <3>1 DEF BlobInv, AllAckedIsOwn, CompleteIsStored, Whole, Units
      <3>2. CASE n # 0
        <4>1. \A b \in Arrays : acked[b] < Len(got')
          BY <1>1, <1>2, <1>3, <3>2 DEF BlobInv, AckedIsHeld
        <4>2. \A b \in Arrays : acked[b] # ArrayLen[b]
          <5>1. SUFFICES ASSUME NEW b \in Arrays, acked[b] = ArrayLen[b] PROVE FALSE
            OBVIOUS
          <5>2. Len(got) = ArrayLen[b] /\ expectedLength = ArrayLen[b]
            BY <5>1, ArrayAssumption DEF BlobInv, CompleteIsStored, Whole
          <5>. QED
            BY <1>1, <3>2, <5>2
        <4>. QED
          BY <2>1, <4>1, <4>2 DEF AllAckedIsOwn, CompleteIsStored
      <3>. QED
        BY <3>1, <3>2
    <2>. QED
      BY <2>2, <2>3 DEF BlobInv
  <1>6. CASE ~(Len(all) = expectedLength /\ ~Intact(all))
    <2>1. /\ stored' = IF Len(got') = expectedLength THEN got' ELSE stored
          /\ acked' = [acked EXCEPT ![a] = @ + n]
      BY <1>1, <1>6 DEF Continue, Copy
    <2>2. acked' \in [Arrays -> Nat] /\ \A b \in Arrays : acked'[b] = IF b = a THEN acked[b] + n ELSE acked[b]
      BY <1>3, <2>1
    <2>3. BlobTypeOK'
      BY <1>1, <1>2, <1>3, <2>1, <2>2 DEF BlobInv, BlobTypeOK
    <2>4. \A b \in Arrays : acked[b] \in Nat /\ acked[b] <= Len(got)
      BY <1>3 DEF BlobInv, AckedIsHeld
    <2>5. \A b \in Arrays : acked'[b] <= Len(got')
      BY <1>4, <2>4, <2>2
    <2>6. \A b \in Arrays : acked'[b] = Len(got') => acked[b] = Len(got) /\ (b = a \/ n = 0)
      BY <1>4, <2>4, <2>2
    <2>7. AllAckedIsOwn'
      <3>. SUFFICES ASSUME NEW b \in Arrays, acked'[b] # 0, acked'[b] = Len(got')
                    PROVE  expectedLength' = ArrayLen[b] /\ got' = Units(b, Len(got'))
        BY DEF AllAckedIsOwn, Units
      <3>1. acked[b] = Len(got) /\ (b = a \/ n = 0)
        BY <2>6
      <3>2. expectedLength = ArrayLen[b] /\ got = Units(b, Len(got))
        BY <1>1, <3>1 DEF BlobInv, AllAckedIsOwn
      <3>3. CASE n = 0
        BY <1>1, <1>2, <3>2, <3>3
      <3>4. CASE b = a
        <4>1. got' = Units(a, Len(got)) \o Units(a, n)
          BY <1>1, <3>2, <3>4
        <4>2. got' = Units(a, Len(got) + n)
          BY <1>4, <4>1, UnitsAppend, Zenon
        <4>. QED
          BY <1>1, <1>4, <3>2, <3>4, <4>2, Zenon
      <3>. QED
        BY <3>1, <3>2, <3>3, <3>4
    <2>8. CompleteIsStored'
      <3>. SUFFICES ASSUME NEW b \in Arrays, acked'[b] = ArrayLen[b]
                    PROVE  expectedLength' = ArrayLen[b] /\ got' = Whole(b) /\ stored' = Whole(b)
        BY DEF CompleteIsStored, Whole
      <3>1. ArrayLen[b] \in Nat /\ ArrayLen[b] # 0 /\ Units(b, ArrayLen[b]) = Whole(b)
        BY ArrayAssumption DEF Units, Whole
      <3>2. Len(got') = ArrayLen[b]
        <4>1. CASE b = a
          BY <1>4, <2>5, <3>1, <4>1
        <4>2. CASE b # a
          <5>1. acked[b] = ArrayLen[b]
            BY <2>2, <4>2
          <5>2. Len(got) = ArrayLen[b] /\ expectedLength = ArrayLen[b]
            BY <5>1, <3>1 DEF BlobInv, CompleteIsStored, Whole
          <5>. QED
            BY <1>1, <1>2, <5>2
        <4>. QED
          BY <4>1, <4>2
      <3>3. expectedLength' = ArrayLen[b] /\ got' = Units(b, Len(got'))
        BY <2>7, <3>1, <3>2 DEF AllAckedIsOwn, Units
      <3>. QED
        BY <1>1, <2>1, <3>1, <3>2, <3>3
    <2>. QED
      BY <2>3, <2>5, <2>7, <2>8 DEF BlobInv, AckedIsHeld
  <1>. QED
    BY <1>5, <1>6

\* Whatever else happens: what is acknowledged stays or is forgotten.
LEMMA ForgettingStep ==
    ASSUME BlobInv, acked' = NothingAcked, stored' \in {stored, <<>>},
           \/ UNCHANGED <<expectedLength, got>>
           \/ got' = <<>> /\ expectedLength' \in {0} \cup {ArrayLen[a] : a \in Arrays}
    PROVE  BlobInv'
  <1>1. acked' = [a \in Arrays |-> 0] /\ \A a \in Arrays : ArrayLen[a] # 0 /\ ArrayLen[a] \in Nat
    BY ArrayAssumption DEF NothingAcked
  <1>2. BlobTypeOK'
    <2>1. <<>> \in Seq(Arrays) /\ Len(<<>>) = 0
      OBVIOUS
    <2>2. stored' \in Seq(Arrays)
      BY <2>1 DEF BlobInv, BlobTypeOK
    <2>3. acked' \in [Arrays -> Nat]
      BY <1>1
    <2>4. expectedLength' \in {0} \cup {ArrayLen[a] : a \in Arrays} /\ expectedLength' \in Nat
      BY ArrayAssumption DEF BlobInv, BlobTypeOK
    <2>5. got' \in Seq(Arrays) /\ Len(got') <= expectedLength'
      <3>1. CASE UNCHANGED <<expectedLength, got>>
        BY <3>1 DEF BlobInv, BlobTypeOK
      <3>2. CASE got' = <<>>
        BY <2>1, <2>4, <3>2
      <3>. QED
        BY <3>1, <3>2
    <2>. QED
      BY <2>2, <2>3, <2>4, <2>5 DEF BlobTypeOK
  <1>3. AckedIsHeld' /\ AllAckedIsOwn' /\ CompleteIsStored'
    BY <1>1, <1>2 DEF AckedIsHeld, AllAckedIsOwn, CompleteIsStored, BlobTypeOK
  <1>. QED
    BY <1>2, <1>3 DEF BlobInv

\* The invariant holds: fragments of any number of platforms, refusals, every
\* other command, resets and power cycles preserve it.
THEOREM BlobInvariant == BlobSpec => []BlobInv
  <1>1. BlobInit => BlobInv
    BY ArrayAssumption DEF BlobInit, BlobInv, BlobTypeOK, NothingAcked, AckedIsHeld,
       AllAckedIsOwn, CompleteIsStored
  <1>2. BlobInv /\ [BlobNext]_blobState => BlobInv'
    <2>. SUFFICES ASSUME BlobInv, [BlobNext]_blobState PROVE BlobInv'
      OBVIOUS
    <2>1. CASE UNCHANGED blobVars
      BY <2>1 DEF blobVars, statics, BlobInv, BlobTypeOK, AckedIsHeld, AllAckedIsOwn, CompleteIsStored
    <2>2. ASSUME NEW a \in Arrays, NEW n \in 0 .. MaxFragment, Start(a, n) \/ Continue(a, n)
          PROVE  BlobInv'
      BY <2>2, StartStep, ContinueStep, ArrayAssumption
    <2>3. ASSUME NEW a \in Arrays, StartRefused(a) PROVE BlobInv'
      BY <2>3, ForgettingStep DEF StartRefused
    <2>4. CASE BlobReset
      BY <2>4, ForgettingStep DEF BlobReset, statics
    <2>5. CASE BlobPowerCycle
      BY <2>5, ForgettingStep DEF BlobPowerCycle
    <2>. QED
      BY <2>1, <2>2, <2>3, <2>4, <2>5 DEF BlobNext, blobState
  <1>. QED
    BY <1>1, <1>2, PTL DEF BlobSpec, blobState

\* An array acknowledged to its end is the one in the file.
THEOREM AcknowledgedIsStored == BlobSpec => []AckedIsStored
  <1>1. BlobInv => AckedIsStored
    BY DEF BlobInv, CompleteIsStored, AckedIsStored
  <1>. QED
    BY <1>1, BlobInvariant, PTL
==============================================================================
