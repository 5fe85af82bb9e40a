---------------------------- MODULE IdentityService ----------------------------
(***************************************************************************)
(* The identity registry in use: the node that mines its transactions      *)
(* (docker-compose.yml runs it without persistence), /blockchain/revoke    *)
(* (backend/app/api/blockchain.py), the registration scripts, the login    *)
(* flow of contracts/integration.py and the Keycloak attributes it reads,  *)
(* which KeyManager overwrites.                                            *)
(*                                                                         *)
(* Every transaction is sent by accounts[0] of the node, so they are mined *)
(* in the order of their nonces: txs is both the pool and the receipts.    *)
(* A call that is refused before it sends anything, an invalid address or  *)
(* a gas estimate that reverts, changes nothing and has no step.           *)
(***************************************************************************)
EXTENDS IdentityRegistry, Sequences

CONSTANTS
    Callers,    \* workers of the API, and people running the scripts
    Users,      \* users of the realm
    Logins,     \* runs of the login flow; one that is refused may start again
    NoClaim,    \* a token without a did claim
    Malformed,  \* a did claim that is not an address
    Lifespan,   \* accessTokenLifespan
    MaxTxs,     \* bound on the transactions of one life of the node
    MaxLives,   \* bound on the restarts of the node
    MaxTime     \* bound on the clock

ASSUME ServiceAssumption ==
    /\ IsFiniteSet(Callers)
    /\ NoClaim \notin Accounts /\ Malformed \notin Accounts /\ NoClaim # Malformed
    /\ Lifespan \in Nat /\ MaxTxs \in Nat /\ MaxLives \in Nat \ {0} /\ MaxTime \in Nat

VARIABLES
    life,      \* how many times the node was started
    deployed,  \* CONTRACT_ADDRESS holds the contract
    txs,       \* transactions of this life, by nonce
    call,      \* what each caller waits for
    acked,     \* history: addresses answered "Révoquée" in this life
    claim,     \* the did claim Keycloak puts in a user's tokens
    session    \* how far each login is, and what it holds

chainVars == <<now, registre, nombreIdentites, life, deployed, txs, call, acked>>
loginVars == <<claim, session>>
vars == <<now, registre, nombreIdentites, life, deployed, txs, call, acked, claim, session>>

Operation == {"enregistrer", "revoquer"}
Claims == Accounts \cup {NoClaim, Malformed}
Status == {"pending", "succeeded", "reverted"}
Tx == [op : Operation, user : Accounts, status : Status]
Call == [life : 0..MaxLives, nonce : 0..MaxTxs]
SessionState == [stage : {"none", "token", "open"}, claim : Claims, expires : Nat,
                 life : 0..MaxLives, checked : BOOLEAN]

Idle == [life |-> 0, nonce |-> 0]
NoSession == [stage |-> "none", claim |-> NoClaim, expires |-> 0, life |-> 0, checked |-> FALSE]

TypeOK ==
    /\ RegistryTypeOK
    /\ life \in 1..MaxLives
    /\ deployed \in BOOLEAN
    /\ txs \in Seq(Tx) /\ Len(txs) <= MaxTxs
    /\ call \in [Callers -> Call]
    /\ acked \subseteq Accounts
    /\ claim \in [Users -> Claims]
    /\ session \in [Logins -> SessionState]

Init ==
    /\ now = 1
    /\ EmptyRegistry
    /\ life = 1
    /\ deployed = FALSE
    /\ txs = <<>>
    /\ call = [c \in Callers |-> Idle]
    /\ acked = {}
    /\ claim \in [Users -> Claims]
    /\ session = [l \in Logins |-> NoSession]
-----------------------------------------------------------------------------
Reverts(op, u) ==
    IF op = "enregistrer" THEN ~PeutEnregistrer(Proprietaire, u, u)
                          ELSE ~PeutRevoquer(Proprietaire, u)

\* transact: the gas is estimated by executing the call, which only an
\* address without code lets pass whatever is asked.
Send(c, op, u) ==
    /\ call[c] = Idle
    /\ Len(txs) < MaxTxs
    /\ deployed => ~Reverts(op, u)
    /\ txs' = Append(txs, [op |-> op, user |-> u, status |-> "pending"])
    /\ call' = [call EXCEPT ![c] = [life |-> life, nonce |-> Len(txs) + 1]]
    /\ UNCHANGED <<now, registre, nombreIdentites, life, deployed, acked, claim, session>>

\* register_address.py, register_deployer.js, register.js.
Register(c, u) == Send(c, "enregistrer", u)

revoke_identity(c, u) == Send(c, "revoquer", u)

Waiting(c) == call[c] # Idle
Receipt(c) == txs[call[c].nonce]
HasReceipt(c) ==
    /\ Waiting(c) /\ call[c].life = life
    /\ Receipt(c).status # "pending"

\* The answer does not wait for the receipt.
BadAnswer(c) ==
    /\ Waiting(c) /\ call[c].life = life
    /\ acked' = IF Receipt(c).op = "revoquer" THEN acked \cup {Receipt(c).user} ELSE acked
    /\ call' = [call EXCEPT ![c] = Idle]
    /\ UNCHANGED <<now, registre, nombreIdentites, life, deployed, txs, claim, session>>

Answer(c) ==
    /\ HasReceipt(c)
    /\ acked' = IF Receipt(c).op = "revoquer" /\ Receipt(c).status = "succeeded"
                  THEN acked \cup {Receipt(c).user} ELSE acked
    /\ call' = [call EXCEPT ![c] = Idle]
    /\ UNCHANGED <<now, registre, nombreIdentites, life, deployed, txs, claim, session>>

\* wait_for_transaction_receipt gives up, or the node cannot be reached; the
\* transaction stays where it is.
Timeout(c) ==
    /\ Waiting(c)
    /\ call' = [call EXCEPT ![c] = Idle]
    /\ UNCHANGED <<now, registre, nombreIdentites, life, deployed, txs, acked, claim, session>>
-----------------------------------------------------------------------------
\* The node includes the pending transaction of lowest nonce.
NextTx(n) ==
    /\ n \in DOMAIN txs /\ txs[n].status = "pending"
    /\ \A m \in 1..(n - 1) : txs[m].status # "pending"

Included(n, status) ==
    /\ txs' = [txs EXCEPT ![n].status = status]
    /\ UNCHANGED <<now, life, deployed, call, acked, claim, session>>

MineRegistration(n) ==
    /\ NextTx(n) /\ deployed /\ txs[n].op = "enregistrer"
    /\ enregistrer(Proprietaire, txs[n].user, txs[n].user)
    /\ Included(n, "succeeded")

MineRevocation(n) ==
    /\ NextTx(n) /\ deployed /\ txs[n].op = "revoquer"
    /\ revoquer(Proprietaire, txs[n].user)
    /\ Included(n, "succeeded")

MineRevert(n) ==
    /\ NextTx(n) /\ deployed /\ Reverts(txs[n].op, txs[n].user)
    /\ Included(n, "reverted")
    /\ UNCHANGED <<registre, nombreIdentites>>

\* A call to an address without code succeeds and does nothing.
MineNothing(n) ==
    /\ NextTx(n) /\ ~deployed
    /\ Included(n, "succeeded")
    /\ UNCHANGED <<registre, nombreIdentites>>

Mine == \E n \in 1..MaxTxs :
    MineRegistration(n) \/ MineRevocation(n) \/ MineRevert(n) \/ MineNothing(n)

\* deploy.js. Only the first transaction of accounts[0] gives the contract
\* the address every other component has as a constant.
Deploy ==
    /\ ~deployed /\ txs = <<>>
    /\ deployed' = TRUE
    /\ UNCHANGED <<now, registre, nombreIdentites, life, txs, call, acked, claim, session>>

\* The container restarts: the chain it held in memory is gone.
Restart ==
    /\ life < MaxLives
    /\ life' = life + 1
    /\ deployed' = FALSE
    /\ txs' = <<>>
    /\ registre' = [u \in Accounts |-> Unset]
    /\ nombreIdentites' = 0
    /\ acked' = {}
    /\ UNCHANGED <<now, call, claim, session>>
-----------------------------------------------------------------------------
\* authentifier_utilisateur, step 1: Keycloak accepts the password.  Of the tokens
\* it answers only the access token is followed; the refresh token, returned with
\* it and used by nothing in the repository, renews without asking the chain.
RequestToken(l, u) ==
    /\ session[l].stage = "none"
    /\ session' = [session EXCEPT ![l] =
                     [stage |-> "token", claim |-> claim[u], expires |-> now + Lifespan,
                      life |-> 0, checked |-> FALSE]]
    /\ UNCHANGED chainVars /\ UNCHANGED claim

\* Step 3 without a did in the token.
SkipChain(l) ==
    /\ session[l].stage = "token" /\ session[l].claim = NoClaim
    /\ session' = [session EXCEPT ![l].stage = "open"]
    /\ UNCHANGED chainVars /\ UNCHANGED claim

VerifyOnChain(l) ==
    /\ session[l].stage = "token" /\ session[l].claim \in Accounts
    /\ deployed /\ verifier(session[l].claim)
    /\ session' = [session EXCEPT ![l].stage = "open", ![l].life = life, ![l].checked = TRUE]
    /\ UNCHANGED chainVars /\ UNCHANGED claim

\* verifier says no, or the call raises: not an address, no contract there,
\* no node.
Refuse(l) ==
    /\ session[l].stage = "token" /\ session[l].claim # NoClaim
    /\ session' = [session EXCEPT ![l] = NoSession]
    /\ UNCHANGED chainVars /\ UNCHANGED claim

\* The claim becomes an empty string.
BadPutAttributes(u) ==
    /\ claim' = [claim EXCEPT ![u] = NoDid]
    /\ UNCHANGED chainVars /\ UNCHANGED session

\* The PUT of KeyManager carries aes_key alone and replaces all attributes,
\* ethereum_did among them.  Nothing in the repository calls stocker_cle or
\* revoquer_cle; they run here whenever a caller could.
PutAttributes(u) ==
    /\ claim' = [claim EXCEPT ![u] = NoClaim]
    /\ UNCHANGED chainVars /\ UNCHANGED session

stocker_cle(u) == PutAttributes(u)
revoquer_cle(u) == PutAttributes(u)

Tick ==
    /\ now < MaxTime
    /\ now' = now + 1
    /\ UNCHANGED <<registre, nombreIdentites, life, deployed, txs, call, acked, claim, session>>

Next ==
    \/ \E c \in Callers : \/ \E u \in Accounts : Register(c, u) \/ revoke_identity(c, u)
                          \/ Answer(c) \/ Timeout(c)
    \/ Mine
    \/ Deploy \/ Restart
    \/ \E l \in Logins : \/ \E u \in Users : RequestToken(l, u)
                         \/ SkipChain(l) \/ VerifyOnChain(l) \/ Refuse(l)
    \/ \E u \in Users : stocker_cle(u) \/ revoquer_cle(u)
    \/ Tick

(* hardhat.config.js mines every transaction at once (mining.auto).        *)
Fairness == WF_vars(Mine)

Spec == Init /\ [][Next]_vars /\ Fairness
-----------------------------------------------------------------------------
(* While the chain lives, an identity that was revoked keeps its entry,    *)
(* inactive and dated, whatever transactions are mined: enregistrer finds  *)
(* the DID and revoquer the flag (IdentityRegistry.sol:38-42, 86).         *)
RevokedForEver ==
    [][life' = life =>
         \A u \in Accounts : Known(u) /\ ~registre[u].actif => registre'[u] = registre[u]]_vars

(* An address answered "Révoquée" is not active, then or later, as long as *)
(* the chain lives; also when the transaction went to an address without   *)
(* code, where the contract can then no longer appear (blockchain.py:23-27,*)
(* deploy.js).                                                             *)
AckMeansRevoked == \A u \in acked : ~verifier(u)

(* When an address was registered and revoked, in this order.              *)
Dates(u) ==
    IF ~Known(u) THEN <<>>
    ELSE IF registre[u].actif THEN <<registre[u].dateEnregistrement>>
         ELSE <<registre[u].dateEnregistrement, registre[u].dateRevocation>>

Life == INSTANCE IdentityLife WITH
    dates <- [u \in Accounts |-> Dates(u)], count <- nombreIdentites, told <- acked

(* Whatever transactions are pending, reverted, given up or mined where    *)
(* there is no code, an address is registered at most once and revoked at  *)
(* most once in a life of the node, never registered after somebody was    *)
(* told that it is revoked, and nobody is told so of an active one.        *)
(* (AckMeansRevoked follows.)                                              *)
ServiceIsLife == Life!Spec

(* An access token accepted for an address rests on an identity of the     *)
(* registry, and when that identity is revoked it lives no longer than a   *)
(* token's lifespan from there: the token is older than the check          *)
(* (integration.py:52-81).  It says nothing of what the refresh token,     *)
(* returned with it (integration.py:64, 77, 86), may still obtain.         *)
SessionsRestOnChain ==
    \A l \in Logins : LET s == session[l] IN
        s.stage = "open" /\ s.checked /\ s.life = life =>
            /\ Known(s.claim)
            /\ ~registre[s.claim].actif => s.expires <= registre[s.claim].dateRevocation + Lifespan

(* A revocation that was sent takes effect, even when its caller was told  *)
(* of a failure: the transaction is mined, or the chain itself is gone.    *)
RevocationLands ==
    \A u \in Accounts :
        (\E n \in DOMAIN txs : txs[n] = [op |-> "revoquer", user |-> u, status |-> "pending"])
            ~> ~verifier(u)

(* integration.py:49, "Retourne les tokens si les deux validations         *)
(* réussissent": a session is open only when the chain confirmed it.       *)
TokensNeedBoth == \A l \in Logins : session[l].stage = "open" => session[l].checked
=============================================================================
