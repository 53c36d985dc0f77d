--------------------------- MODULE ProbeOwnership ---------------------------
(***************************************************************************)
(* What the lease on a probe promises, without records, locks, process     *)
(* identities or lease ids: one holder at a time, and a claim ticket that  *)
(* stays with the probe, whoever crashes, until a holder that presented it *)
(* has redeemed it and the redemption has been settled.                    *)
(***************************************************************************)
CONSTANTS
    Client,     \* who may hold the probe
    Claim,      \* claim tickets
    Nothing     \* no holder, no claim

VARIABLES
    holder,     \* who holds the probe, or Nothing
    claim,      \* the ticket the probe is reserved for, or Nothing
    redeemed,   \* the holder has redeemed the claim
    settling    \* a redeemed claim waits to be settled

vars == <<holder, claim, redeemed, settling>>

Init ==
    /\ holder = Nothing
    /\ claim = Nothing
    /\ redeemed = FALSE
    /\ settling = FALSE

\* The probe is free, or its claim is presented.
Take(c) ==
    /\ holder = Nothing
    /\ ~settling
    /\ holder' = c
    /\ UNCHANGED <<claim, redeemed, settling>>

\* The holder reserves the probe for whoever will present k.
PlaceClaim(c, k) ==
    /\ holder = c
    /\ claim = Nothing
    /\ claim' = k
    /\ UNCHANGED <<holder, redeemed, settling>>

Redeem(c) ==
    /\ holder = c
    /\ claim # Nothing
    /\ redeemed' = TRUE
    /\ UNCHANGED <<holder, claim, settling>>

\* The holder lets go, or is lost: the claim stays open unless it was
\* redeemed and the holder said so when it let go.
Leave(c) ==
    /\ holder = c
    /\ holder' = Nothing
    /\ redeemed' = FALSE
    /\ settling' \in BOOLEAN
    /\ settling' => redeemed
    /\ UNCHANGED claim

Settle ==
    /\ holder = Nothing
    /\ settling
    /\ settling' = FALSE
    /\ claim' = Nothing
    /\ UNCHANGED <<holder, redeemed>>

Next ==
    \/ \E c \in Client :
          \/ Take(c)
          \/ \E k \in Claim : PlaceClaim(c, k)
          \/ Redeem(c)
          \/ Leave(c)
    \/ Settle

Spec == Init /\ [][Next]_vars
=============================================================================
