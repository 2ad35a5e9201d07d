------------------------------- MODULE PinGate -------------------------------
(***************************************************************************)
(* What the PIN promises, without saying how: a secret, a budget of        *)
(* guesses, and at most one live token, always earned with the present     *)
(* secret.  ClientPin implements it.                                       *)
(***************************************************************************)
EXTENDS Naturals

CONSTANTS Pins, NoPin, Full

VARIABLES pin, budget, live

gateVars == <<pin, budget, live>>

Init == pin = NoPin /\ budget = 0 /\ live = NoPin

Choose(p) ==
    /\ pin = NoPin
    /\ pin' = p
    /\ budget' = Full
    /\ live' \in {live, NoPin}

\* A failed attempt costs one guess and earns nothing.
Fail ==
    /\ pin # NoPin
    /\ budget > 0
    /\ budget' = budget - 1
    /\ live' \in {live, NoPin}
    /\ UNCHANGED pin

\* The right PIN, while guesses are left, restores the budget; it may earn a token.
Prove ==
    /\ pin # NoPin
    /\ budget > 0
    /\ budget' = Full
    /\ live' \in {live, NoPin, pin}
    /\ UNCHANGED pin

\* A change is a proof of the old PIN, and kills the token earned with it.
Replace(new) ==
    /\ pin # NoPin
    /\ budget > 0
    /\ pin' = new
    /\ budget' = Full
    /\ live' = NoPin

Forget == live' = NoPin /\ UNCHANGED <<pin, budget>>

Erase == pin' = NoPin /\ budget' = 0 /\ live' = NoPin

Next ==
    \/ \E p \in Pins : Choose(p) \/ Replace(p)
    \/ Fail
    \/ Prove
    \/ Forget
    \/ Erase

Spec == Init /\ [][Next]_gateVars
==============================================================================
