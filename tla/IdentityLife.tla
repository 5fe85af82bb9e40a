----------------------------- MODULE IdentityLife -----------------------------
(***************************************************************************)
(* What the identity registry amounts to for those who ask it: an address  *)
(* is registered once and revoked once, for as long as the chain lives.    *)
(* There are no transactions, no receipts and no callers here.             *)
(* IdentityService implements this module.                                 *)
(***************************************************************************)
EXTENDS Naturals, Sequences

CONSTANT Accounts

VARIABLES
    now,
    life,    \* how many times the chain has begun
    dates,   \* of each address: when it was registered, then when revoked
    count,   \* addresses registered
    told     \* addresses somebody was told are revoked

Active(u) == Len(dates[u]) = 1
Empty == [u \in Accounts |-> <<>>]

Init ==
    /\ now = 1 /\ life = 1
    /\ dates = Empty /\ count = 0 /\ told = {}

Dated(u, d) == dates' = [dates EXCEPT ![u] = d]

\* Nobody is registered anew who is known, or was said to be revoked.
Register(u) ==
    /\ dates[u] = <<>> /\ u \notin told
    /\ Dated(u, <<now>>) /\ count' = count + 1
    /\ UNCHANGED <<now, life, told>>

Revoke(u) ==
    /\ Active(u) /\ Dated(u, <<dates[u][1], now>>)
    /\ UNCHANGED <<now, life, count, told>>

Tell(u) ==
    /\ ~Active(u) /\ told' = told \cup {u}
    /\ UNCHANGED <<now, life, dates, count>>

\* A chain begins, and what was said of the one before is void.
Begin ==
    /\ life' = life + 1
    /\ dates' = Empty /\ count' = 0 /\ told' = {}
    /\ UNCHANGED now

Tick == now' = now + 1 /\ UNCHANGED <<life, dates, count, told>>

Next ==
    \/ \E u \in Accounts : Register(u) \/ Revoke(u) \/ Tell(u)
    \/ Begin
    \/ Tick

Spec == Init /\ [][Next]_<<now, life, dates, count, told>>
=============================================================================
