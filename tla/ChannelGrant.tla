---------------------------- MODULE ChannelGrant ----------------------------
(***************************************************************************)
(* What the Channel Provider's credential ledger promises, without rows,   *)
(* operation ids or SQL.  A device passes through authorization            *)
(* generations.  Each generation of a device has one lifecycle: it starts, *)
(* may lapse and be renewed any number of times, and is over for good once *)
(* it is revoked or a newer generation takes its place.                    *)
(***************************************************************************)
EXTENDS Naturals

CONSTANTS Devices, Generations

\* A DeviceRef's generation: (owner_domain_generation, claim_generation,
\* trust_epoch).
GenerationShape == [domain : Nat, claim : Nat, trust : Nat]

\* The Python tuple order the store compares generations by.
Older(g, h) ==
    \/ g.domain < h.domain
    \/ g.domain = h.domain /\ g.claim < h.claim
    \/ g.domain = h.domain /\ g.claim = h.claim /\ g.trust < h.trust

VARIABLE phase

GrantInit == phase = [d \in Devices |-> [g \in Generations |-> "none"]]

Standing(d, g) == phase[d][g] \in {"live", "lapsed"}

\* The deadlines a sweep may find passed: any set of live grants.
Live == {dg \in Devices \X Generations : phase[dg[1]][dg[2]] = "live"}

\* The grants after a sweep found those of L past their deadline.
Swept(L) ==
    [d \in Devices |-> [g \in Generations |->
        IF <<d, g>> \in L THEN "lapsed" ELSE phase[d][g]]]

\* Generation g of device d reaches phase p, and whatever older generation
\* of d still stood is over.
Reaches(L, d, g, p) ==
    [Swept(L) EXCEPT ![d] = [h \in Generations |->
        IF h = g THEN p
        ELSE IF Older(h, g) /\ Standing(d, h) THEN "over"
        ELSE Swept(L)[d][h]]]

NothingNewer(d, g) == \A h \in Generations : Older(g, h) => phase[d][h] = "none"

Lapse(L) == phase' = Swept(L)

\* A generation starts once, and never behind a newer one.
Start(L, d, g) ==
    /\ NothingNewer(d, g)
    /\ phase[d][g] = "none"
    /\ phase' = Reaches(L, d, g, "live")

\* Only a generation still standing is renewed.
Renew(L, d, g) ==
    /\ NothingNewer(d, g)
    /\ Standing(d, g)
    /\ phase' = Reaches(L, d, g, "live")

\* Revocation may also name a generation that never started.
Revoke(L, d, g) ==
    /\ NothingNewer(d, g)
    /\ phase' = Reaches(L, d, g, "over")

GrantNext ==
    \E L \in SUBSET Live :
        \/ Lapse(L)
        \/ \E d \in Devices, g \in Generations :
              Start(L, d, g) \/ Renew(L, d, g) \/ Revoke(L, d, g)

GrantSpec == GrantInit /\ [][GrantNext]_phase

-----------------------------------------------------------------------------
\* A device never holds two standing grants, and none stands behind a
\* generation that was started or revoked later.
NewestAloneStands ==
    \A d \in Devices, g, h \in Generations :
        Standing(d, g) /\ phase[d][h] # "none" => h = g \/ Older(h, g)

\* What was revoked or overtaken never stands again.
OverForGood ==
    [][\A d \in Devices, g \in Generations :
          phase[d][g] = "over" => phase'[d][g] = "over"]_phase
=============================================================================
