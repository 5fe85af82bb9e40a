-------------------------- MODULE PermissionLevels --------------------------
(***************************************************************************)
(* The four permission levels of the backend, the order the service means  *)
(* (LEVEL_HIERARCHY) and the order PostgreSQL uses when it evaluates       *)
(* func.max on the text column permissions.level.  The two differ, and     *)
(* everything check_permission answers goes through the second one first.  *)
(***************************************************************************)
EXTENDS Integers

Levels == {"read", "write", "delete", "admin"}

\* backend/app/services/permission_manager.py, LEVEL_HIERARCHY
LEVEL_HIERARCHY == [read |-> 0, write |-> 1, delete |-> 2, admin |-> 3]

\* What LEVEL_HIERARCHY.get(.., -1) and the negative cache entry stand for.
NoLevel == -1

\* PostgreSQL: alphabetical order of the level names (all lower case).
CollationRank == [admin |-> 0, delete |-> 1, read |-> 2, write |-> 3]

\* max(permissions.level) over the levels S of the selected rows, S # {}.
SqlMax(S) == CHOOSE l \in S : \A m \in S : CollationRank[m] <= CollationRank[l]

\* max_int of check_permission for rows whose levels are S.
EffectiveInt(S) == IF S = {} THEN NoLevel ELSE LEVEL_HIERARCHY[SqlMax(S)]

\* The highest level of S in the sense of LEVEL_HIERARCHY: what the comment
\* above the query announces.
HighestInt(S) ==
    IF S = {} THEN NoLevel
    ELSE CHOOSE n \in {LEVEL_HIERARCHY[l] : l \in S} :
            \A l \in S : LEVEL_HIERARCHY[l] <= n
=============================================================================
