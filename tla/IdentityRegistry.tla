--------------------------- MODULE IdentityRegistry ---------------------------
(***************************************************************************)
(* contracts/contracts/IdentityRegistry.sol: the state of the contract,    *)
(* its two transactions and the view the other components call.  A failed  *)
(* require reverts, so a transaction is an action that is enabled exactly  *)
(* when it succeeds.  A DID is represented by the address it is made of;   *)
(* the hash of the encrypted data, which nothing reads, is left out.       *)
(*                                                                         *)
(* Operators named Bad... are mistakes the code does not make; they show   *)
(* that the properties would notice them, and nothing else uses them.      *)
(***************************************************************************)
EXTENDS Integers, FiniteSets

CONSTANTS
    Accounts,      \* addresses
    Proprietaire,  \* the deployer, the only administrator there can be
    NoDid          \* the empty string

ASSUME RegistryAssumption ==
    IsFiniteSet(Accounts) /\ Proprietaire \in Accounts /\ NoDid \notin Accounts

VARIABLES
    now,              \* block.timestamp
    registre,
    nombreIdentites

registryVars == <<now, registre, nombreIdentites>>

Dids == Accounts \cup {NoDid}
Identite == [did : Dids, actif : BOOLEAN,
             dateEnregistrement : Nat, dateRevocation : Nat]

\* The value of a mapping entry nobody has written.
Unset == [did |-> NoDid, actif |-> FALSE, dateEnregistrement |-> 0, dateRevocation |-> 0]

Known(u) == registre[u].did # NoDid

EmptyRegistry ==
    /\ registre = [u \in Accounts |-> Unset]
    /\ nombreIdentites = 0

seulementAdmin(by) == by = Proprietaire

\* An identity is taken for absent when it is not active.
BadPeutEnregistrer(by, u, did) == seulementAdmin(by) /\ ~registre[u].actif /\ did # NoDid

PeutEnregistrer(by, u, did) == seulementAdmin(by) /\ ~Known(u) /\ did # NoDid
PeutRevoquer(by, u) == seulementAdmin(by) /\ registre[u].actif

enregistrer(by, u, did) ==
    /\ PeutEnregistrer(by, u, did)
    /\ registre' = [registre EXCEPT ![u] =
                      [did |-> did, actif |-> TRUE,
                       dateEnregistrement |-> now, dateRevocation |-> 0]]
    /\ nombreIdentites' = nombreIdentites + 1

\* The date is stored and the flag forgotten.
BadRevoquer(by, u) ==
    /\ PeutRevoquer(by, u)
    /\ registre' = [registre EXCEPT ![u].dateRevocation = now]
    /\ UNCHANGED nombreIdentites

revoquer(by, u) ==
    /\ PeutRevoquer(by, u)
    /\ registre' = [registre EXCEPT ![u].actif = FALSE, ![u].dateRevocation = now]
    /\ UNCHANGED nombreIdentites

\* Known is taken for valid.
BadVerifier(u) == Known(u)

verifier(u) == registre[u].actif /\ Known(u)
-----------------------------------------------------------------------------
RegistryTypeOK ==
    /\ now \in Nat \ {0}
    /\ registre \in [Accounts -> Identite]
    /\ nombreIdentites \in Nat

(* The counter, the flag and the two dates of every entry tell the same    *)
(* story: unknown, active since its registration, or revoked no earlier    *)
(* than that, by enregistrer and revoquer (IdentityRegistry.sol:56-90).    *)
RegistryConsistent ==
    /\ nombreIdentites = Cardinality({u \in Accounts : Known(u)})
    /\ \A u \in Accounts : LET i == registre[u] IN
         \/ i = Unset
         \/ Known(u) /\ i.actif /\ i.dateRevocation = 0 /\ i.dateEnregistrement \in 1..now
         \/ /\ Known(u) /\ ~i.actif
            /\ i.dateEnregistrement \in 1..i.dateRevocation /\ i.dateRevocation <= now
=============================================================================
