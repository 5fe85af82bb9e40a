---------------------------- MODULE AccessControl ----------------------------
(***************************************************************************)
(* What the permission service promises its callers: permissions are rows  *)
(* that are granted, withdrawn and expire, and every answer is the one the *)
(* rows gave at some instant less than Lag ago.  There is no cache, no     *)
(* worker and no failure here.  PermissionManager implements this module,  *)
(* FileApi is built on it.                                                 *)
(*                                                                         *)
(* The clock counts ticks, and several things happen within one: of a row  *)
(* granted or withdrawn in tick t, an answer for t may know or not.        *)
(***************************************************************************)
EXTENDS PermissionLevels

CONSTANTS
    Clients,    \* who asks
    Keys,       \* (file, user) pairs
    PermIds,    \* identifiers of rows
    Durations,  \* durations asked for; 0 and negatives are unlimited
    Lag         \* bound on the age of an answer

VARIABLES
    now,
    rows,       \* every row ever granted, by id
    answers     \* what each client has just been told

Never == 0
NoAnswer == [allowed |-> "not asked"]

Init ==
    /\ now = 1
    /\ rows = << >>
    /\ answers = [c \in Clients |-> NoAnswer]
-----------------------------------------------------------------------------
Expiry(d) == IF d > 0 THEN now + d ELSE Never
NotExpired(row, t) == row.expires = Never \/ row.expires > t

\* Of the rows R of key k, those in force all through tick t, and those in
\* force at some point of it.
Sure(R, k, t) ==
    {p \in DOMAIN R : /\ R[p].key = k
                      /\ R[p].grantedAt < t
                      /\ R[p].revokedAt = Never \/ t < R[p].revokedAt
                      /\ NotExpired(R[p], t)}
Possible(R, k, t) ==
    {p \in DOMAIN R : /\ R[p].key = k
                      /\ R[p].grantedAt <= t
                      /\ R[p].revokedAt = Never \/ t <= R[p].revokedAt
                      /\ NotExpired(R[p], t)}

\* At some point of tick t, key k had level v.
HadLevel(R, k, t, v) ==
    \E S \in SUBSET Possible(R, k, t) :
        Sure(R, k, t) \subseteq S /\ v = EffectiveInt({R[p].level : p \in S})

\* Whether level n of key k is granted may be answered by allowed now.
MayAnswer(k, n, allowed) ==
    \E t \in 1..now, v \in NoLevel..LEVEL_HIERARCHY["admin"] :
        /\ now < t + Lag
        /\ HadLevel(rows, k, t, v)
        /\ allowed <=> v >= LEVEL_HIERARCHY[n]
-----------------------------------------------------------------------------
Grant(k, l, d, p) ==
    /\ UNCHANGED <<now, answers>>
    /\ p \notin DOMAIN rows
    /\ rows' = [q \in DOMAIN rows \cup {p} |->
                  IF q = p THEN [key |-> k, level |-> l, grantedAt |-> now,
                                 expires |-> Expiry(d), revokedAt |-> Never,
                                 traced |-> FALSE]
                           ELSE rows[q]]

\* Rows are revoked, or go with their file.
Withdraw(P) ==
    /\ UNCHANGED <<now, answers>>
    /\ rows' = [p \in DOMAIN rows |->
                  IF p \in P /\ rows[p].revokedAt = Never
                    THEN [rows[p] EXCEPT !.revokedAt = now] ELSE rows[p]]

\* A row is linked to its audit block, which nobody's rights depend on.
Trace(p) ==
    /\ UNCHANGED <<now, answers>>
    /\ rows' = [rows EXCEPT ![p].traced = TRUE]

Answer(c, k, n, allowed) ==
    /\ UNCHANGED <<now, rows>>
    /\ answers[c] = NoAnswer
    /\ answers' = [answers EXCEPT ![c] = [key |-> k, need |-> n, allowed |-> allowed]]
    /\ MayAnswer(k, n, allowed)

Forget(c) ==
    /\ UNCHANGED <<now, rows>>
    /\ answers' = [answers EXCEPT ![c] = NoAnswer]

Tick ==
    /\ now' = now + 1
    /\ UNCHANGED <<rows, answers>>

Next ==
    \/ Tick
    \/ \E c \in Clients :
         \/ Forget(c)
         \/ \E k \in Keys, n \in Levels, b \in BOOLEAN : Answer(c, k, n, b)
    \/ \E p \in DOMAIN rows : Trace(p)
    \/ \E P \in SUBSET PermIds : Withdraw(P)
    \/ \E k \in Keys, l \in Levels, d \in Durations, p \in PermIds : Grant(k, l, d, p)

Spec == Init /\ [][Next]_<<now, rows, answers>>
=============================================================================
