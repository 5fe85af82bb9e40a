------------------------- MODULE MCPermissionManager -------------------------
(* PermissionManager on small instances. *)
EXTENDS PermissionManager, TLC

CONSTANTS w1, w2, f1, u1, u2, p1, p2

OneWorker == {w1}
TwoWorkers == {w1, w2}
OneFile == {f1}
OneUser == {u1}
TwoUsers == {u1, u2}
TwoRows == {p1, p2}
OneRow == {p1}

ReadAdmin == {"read", "admin"}
ApiNeeds == {"read", "delete"}   \* what files.py and crypto_proxy.py ask for
ReadOnly == {"read"}
DeleteOnly == {"delete"}
ReadWrite == {"read", "write"}
Unlimited == {0}
ShortOrNever == {0, 1}
NegativeOrShort == {-2, 1}

RowSymmetry == Permutations({p1, p2})
RowAndUserSymmetry == Permutations({p1, p2}) \cup Permutations({u1, u2})
AllSymmetry == Permutations({p1, p2}) \cup Permutations({w1, w2})
=============================================================================
