------------------------- MODULE IdentityServiceProofs -------------------------
(***************************************************************************)
(* Theorems about IdentityService: the type of its state, what the         *)
(* registry's entries say, what an answered revocation means, and what a   *)
(* session rests on.                                                       *)
(***************************************************************************)
EXTENDS IdentityService, FiniteSetTheorems, TLAPS

-----------------------------------------------------------------------------
LEMMA NextTxIsTx ==
    ASSUME TypeOK, NEW n, NextTx(n)
    PROVE  n \in 1..Len(txs) /\ txs[n] \in Tx
<1>1. txs \in Seq(Tx) /\ n \in DOMAIN txs
  BY DEF TypeOK, NextTx
<1> QED BY <1>1

(* What a step may do to the registry.                                     *)
NoEffect == UNCHANGED <<registre, nombreIdentites>>
Registers(u) == deployed /\ enregistrer(Proprietaire, u, u) /\ life' = life /\ now' = now
Revokes(u) == deployed /\ revoquer(Proprietaire, u) /\ life' = life /\ now' = now
Empties ==
    /\ registre' = [u \in Accounts |-> Unset] /\ nombreIdentites' = 0
    /\ life' = life + 1 /\ now' = now

(* Every action leaves the registry alone, registers an account, revokes   *)
(* one, or starts an empty chain (docker-compose.yml's node).              *)
LEMMA RegistryEffect ==
    ASSUME TypeOK, [Next]_vars
    PROVE  \/ NoEffect
           \/ \E u \in Accounts : Registers(u)
           \/ \E u \in Accounts : Revokes(u)
           \/ Empties
<1> USE DEF NoEffect
<1>1. CASE Mine
  <2>1. PICK n \in 1..MaxTxs :
          MineRegistration(n) \/ MineRevocation(n) \/ MineRevert(n) \/ MineNothing(n)
    BY <1>1 DEF Mine
  <2>2. CASE MineRegistration(n)
    <3>1. txs[n].user \in Accounts
      BY <2>2, NextTxIsTx DEF MineRegistration, Tx
    <3>2. Registers(txs[n].user)
      BY <2>2 DEF MineRegistration, Included, Registers
    <3> QED BY <3>1, <3>2
  <2>3. CASE MineRevocation(n)
    <3>1. txs[n].user \in Accounts
      BY <2>3, NextTxIsTx DEF MineRevocation, Tx
    <3>2. Revokes(txs[n].user)
      BY <2>3 DEF MineRevocation, Included, Revokes
    <3> QED BY <3>1, <3>2
  <2>4. CASE MineRevert(n)
    BY <2>4 DEF MineRevert
  <2>5. CASE MineNothing(n)
    BY <2>5 DEF MineNothing
  <2> QED BY <2>1, <2>2, <2>3, <2>4, <2>5
<1>2. CASE Restart
  BY <1>2 DEF Restart, Empties
<1>3. ASSUME NEW c \in Callers, NEW u \in Accounts, Register(c, u) \/ revoke_identity(c, u)
      PROVE  NoEffect
  BY <1>3 DEF Register, revoke_identity, Send
<1>4. ASSUME NEW c \in Callers, Answer(c) \/ Timeout(c)
      PROVE  NoEffect
  BY <1>4 DEF Answer, Timeout
<1>5. ASSUME NEW l \in Logins, NEW u \in Users, RequestToken(l, u)
      PROVE  NoEffect
  BY <1>5 DEF RequestToken, chainVars
<1>6. ASSUME NEW l \in Logins, SkipChain(l) \/ VerifyOnChain(l) \/ Refuse(l)
      PROVE  NoEffect
  BY <1>6 DEF SkipChain, VerifyOnChain, Refuse, chainVars
<1>7. ASSUME NEW u \in Users, stocker_cle(u) \/ revoquer_cle(u)
      PROVE  NoEffect
  BY <1>7 DEF stocker_cle, revoquer_cle, PutAttributes, chainVars
<1>8. CASE Deploy \/ Tick \/ UNCHANGED vars
  BY <1>8 DEF Deploy, Tick, vars
<1> QED BY <1>1, <1>2, <1>3, <1>4, <1>5, <1>6, <1>7, <1>8 DEF Next

(* Time and the life of the node only go forward.                          *)
LEMMA Forward ==
    ASSUME TypeOK, [Next]_vars
    PROVE  /\ now' = now \/ now' = now + 1
           /\ life' = life \/ Empties
<1>1. CASE Mine
  <2>1. PICK n \in 1..MaxTxs :
          MineRegistration(n) \/ MineRevocation(n) \/ MineRevert(n) \/ MineNothing(n)
    BY <1>1 DEF Mine
  <2> QED BY <2>1 DEF MineRegistration, MineRevocation, MineRevert, MineNothing, Included
<1>2. CASE Restart
  BY <1>2 DEF Restart, Empties
<1>3. ASSUME NEW c \in Callers, NEW u \in Accounts, Register(c, u) \/ revoke_identity(c, u)
      PROVE  now' = now /\ life' = life
  BY <1>3 DEF Register, revoke_identity, Send
<1>4. ASSUME NEW c \in Callers, Answer(c) \/ Timeout(c)
      PROVE  now' = now /\ life' = life
  BY <1>4 DEF Answer, Timeout
<1>5. ASSUME NEW l \in Logins, NEW u \in Users, RequestToken(l, u)
      PROVE  now' = now /\ life' = life
  BY <1>5 DEF RequestToken, chainVars
<1>6. ASSUME NEW l \in Logins, SkipChain(l) \/ VerifyOnChain(l) \/ Refuse(l)
      PROVE  now' = now /\ life' = life
  BY <1>6 DEF SkipChain, VerifyOnChain, Refuse, chainVars
<1>7. ASSUME NEW u \in Users, stocker_cle(u) \/ revoquer_cle(u)
      PROVE  now' = now /\ life' = life
  BY <1>7 DEF stocker_cle, revoquer_cle, PutAttributes, chainVars
<1>8. CASE Deploy \/ Tick \/ UNCHANGED vars
  BY <1>8 DEF Deploy, Tick, vars
<1> QED BY <1>1, <1>2, <1>3, <1>4, <1>5, <1>6, <1>7, <1>8 DEF Next

LEMMA EntryType ==
    ASSUME TypeOK, NEW u \in Accounts
    PROVE  /\ now \in Nat \ {0} /\ nombreIdentites \in Nat
           /\ registre[u] \in Identite
           /\ registre[u].did \in Dids /\ registre[u].actif \in BOOLEAN
           /\ registre[u].dateEnregistrement \in Nat
           /\ registre[u].dateRevocation \in Nat
BY DEF TypeOK, RegistryTypeOK, Identite

(* The entries after a transaction, spelled out field by field.            *)
LEMMA AfterRegistration ==
    ASSUME TypeOK, NEW u \in Accounts, Registers(u)
    PROVE  /\ registre'[u].did = u /\ registre'[u].actif = TRUE
           /\ registre'[u].dateEnregistrement = now /\ registre'[u].dateRevocation = 0
           /\ \A v \in Accounts \ {u} : registre'[v] = registre[v]
           /\ registre' \in [Accounts -> Identite]
           /\ ~Known(u) /\ u # NoDid /\ nombreIdentites' = nombreIdentites + 1
<1> DEFINE entry == [did |-> u, actif |-> TRUE,
                     dateEnregistrement |-> now, dateRevocation |-> 0]
<1>1. registre' = [registre EXCEPT ![u] = entry]
      /\ ~Known(u) /\ u # NoDid /\ nombreIdentites' = nombreIdentites + 1
  BY DEF Registers, enregistrer, PeutEnregistrer
<1>2. entry \in Identite
  BY DEF Identite, Dids, TypeOK, RegistryTypeOK
<1>3. registre \in [Accounts -> Identite]
  BY DEF TypeOK, RegistryTypeOK
<1> HIDE DEF entry
<1>4. registre'[u] = entry
      /\ (\A v \in Accounts \ {u} : registre'[v] = registre[v])
      /\ registre' \in [Accounts -> Identite]
  BY <1>1, <1>2, <1>3
<1> QED BY <1>1, <1>4 DEF entry

LEMMA AfterRevocation ==
    ASSUME TypeOK, NEW u \in Accounts, Revokes(u)
    PROVE  /\ registre'[u].did = registre[u].did
           /\ registre'[u].actif = FALSE
           /\ registre'[u].dateEnregistrement = registre[u].dateEnregistrement
           /\ registre'[u].dateRevocation = now
           /\ \A v \in Accounts \ {u} : registre'[v] = registre[v]
           /\ registre' \in [Accounts -> Identite]
           /\ registre[u].actif /\ nombreIdentites' = nombreIdentites
<1>1. registre' = [registre EXCEPT ![u].actif = FALSE, ![u].dateRevocation = now]
      /\ registre[u].actif /\ nombreIdentites' = nombreIdentites
  BY DEF Revokes, revoquer, PeutRevoquer
<1>2. registre \in [Accounts -> Identite] /\ now \in Nat
  BY DEF TypeOK, RegistryTypeOK
<1> QED BY <1>1, <1>2 DEF Identite

-----------------------------------------------------------------------------
(* A call of this life waits for a transaction of this life.               *)
CallsValid ==
    \A c \in Callers :
        /\ call[c].life <= life
        /\ Waiting(c) /\ call[c].life = life => call[c].nonce \in 1..Len(txs)

TypeInvariant == TypeOK /\ CallsValid

LEMMA RegistryTypeStep ==
    ASSUME TypeOK, [Next]_vars
    PROVE  RegistryTypeOK'
<1>1. now' \in Nat \ {0}
  BY Forward DEF TypeOK, RegistryTypeOK
<1>2. CASE NoEffect
  BY <1>1, <1>2 DEF NoEffect, TypeOK, RegistryTypeOK
<1>3. ASSUME NEW u \in Accounts, Registers(u) PROVE RegistryTypeOK'
  <2>1. registre' \in [Accounts -> Identite] /\ nombreIdentites' = nombreIdentites + 1
    BY <1>3, AfterRegistration
  <2> QED BY <1>1, <2>1 DEF TypeOK, RegistryTypeOK
<1>4. ASSUME NEW u \in Accounts, Revokes(u) PROVE RegistryTypeOK'
  <2>1. registre' \in [Accounts -> Identite] /\ nombreIdentites' = nombreIdentites
    BY <1>4, AfterRevocation
  <2> QED BY <1>1, <2>1 DEF TypeOK, RegistryTypeOK
<1>5. CASE Empties
  <2>1. Unset \in Identite
    BY DEF Unset, Identite, Dids
  <2> QED BY <1>1, <1>5, <2>1 DEF Empties, RegistryTypeOK
<1> QED BY <1>2, <1>3, <1>4, <1>5, RegistryEffect

LEMMA TypeInit == Init => TypeInvariant
<1> SUFFICES ASSUME Init PROVE TypeInvariant
  OBVIOUS
<1> USE RegistryAssumption, ServiceAssumption
<1>1. RegistryTypeOK
  BY DEF Init, EmptyRegistry, RegistryTypeOK, Unset, Identite, Dids
<1>2. TypeOK
  <2>1. Idle \in Call /\ NoSession \in SessionState
    BY DEF Idle, Call, NoSession, SessionState, Claims
  <2>5. call = [c \in Callers |-> Idle] /\ session = [l \in Logins |-> NoSession]
    BY DEF Init
  <2>0. txs = <<>>
    BY DEF Init
  <2>2. txs \in Seq(Tx) /\ Len(txs) <= MaxTxs
    BY <2>0
  <2>3. call \in [Callers -> Call] /\ session \in [Logins -> SessionState]
    BY <2>1, <2>5
  <2>4. life \in 1..MaxLives /\ deployed \in BOOLEAN /\ acked \subseteq Accounts
    <3>1. life = 1 /\ deployed = FALSE /\ acked = {}
      BY DEF Init
    <3>2. 1 \in 1..MaxLives
      OBVIOUS
    <3> QED BY <3>1, <3>2, Zenon
  <2> QED BY <1>1, <2>2, <2>3, <2>4 DEF Init, TypeOK
<1>3. CallsValid
  BY DEF Init, CallsValid, Waiting, Idle
<1> QED BY <1>2, <1>3 DEF TypeInvariant

(* The transactions a step leaves, and those who wait for them.            *)
LEMMA StatusKeepsTxs ==
    ASSUME NEW s \in Seq(Tx), NEW n \in 1..Len(s), NEW status \in Status,
           NEW t, t = [s EXCEPT ![n].status = status]
    PROVE  /\ t \in Seq(Tx) /\ Len(t) = Len(s)
           /\ t[n].op = s[n].op /\ t[n].user = s[n].user /\ t[n].status = status
           /\ \A m \in 1..Len(s) : m # n => t[m] = s[m]
<1>0. PICK e0 \in Tx : e0 = s[n]
  OBVIOUS
<1>1. [s[n] EXCEPT !.status = status] \in Tx
  BY <1>0 DEF Tx
<1>2. [s[n] EXCEPT !.status = status].op = s[n].op
      /\ [s[n] EXCEPT !.status = status].user = s[n].user
      /\ [s[n] EXCEPT !.status = status].status = status
  BY <1>0 DEF Tx
<1>3. PICK e \in Tx : e = [s[n] EXCEPT !.status = status]
  BY <1>1
<1>4. t = [s EXCEPT ![n] = e]
  BY <1>3
<1> QED BY <1>2, <1>3, <1>4

LEMMA MineKeeps ==
    ASSUME TypeOK, Mine
    PROVE  /\ \E n \in 1..Len(txs), status \in {"succeeded", "reverted"} :
                NextTx(n) /\ txs' = [txs EXCEPT ![n].status = status]
           /\ UNCHANGED <<now, life, deployed, call, acked, claim, session>>
<1>1. PICK n \in 1..MaxTxs :
        MineRegistration(n) \/ MineRevocation(n) \/ MineRevert(n) \/ MineNothing(n)
  BY DEF Mine
<1>2. NextTx(n) /\ (Included(n, "succeeded") \/ Included(n, "reverted"))
  BY <1>1 DEF MineRegistration, MineRevocation, MineRevert, MineNothing
<1>3. n \in 1..Len(txs)
  BY <1>2, NextTxIsTx
<1> QED BY <1>2, <1>3 DEF Included

LEMMA TypeStep ==
    ASSUME TypeInvariant, [Next]_vars
    PROVE  TypeInvariant'
<1> USE DEF TypeInvariant
<1>0. RegistryTypeOK'
  BY RegistryTypeStep
<1>1. ASSUME NEW c \in Callers, NEW u \in Accounts, NEW op \in Operation, Send(c, op, u)
      PROVE  TypeInvariant'
  <2>1. PICK t \in Tx : t = [op |-> op, user |-> u, status |-> "pending"]
    BY DEF Tx, Status
  <2>2. txs \in Seq(Tx) /\ Len(txs) < MaxTxs /\ MaxTxs \in Nat /\ txs' = Append(txs, t)
    BY <1>1, <2>1, ServiceAssumption DEF Send, TypeOK
  <2>3. txs' \in Seq(Tx) /\ Len(txs') = Len(txs) + 1 /\ Len(txs') <= MaxTxs /\ Len(txs) \in Nat
    BY <2>2
  <2>4. PICK j : j = [life |-> life, nonce |-> Len(txs) + 1]
    OBVIOUS
  <2>5. j \in Call
        /\ j.life = life /\ j.nonce = Len(txs) + 1
    BY <2>2, <2>3, <2>4, ServiceAssumption DEF TypeOK, Call
  <2>6. call' = [call EXCEPT ![c] = j]
    BY <1>1, <2>4 DEF Send
  <2>7. TypeOK'
    BY <1>0, <1>1, <2>3, <2>5, <2>6 DEF Send, TypeOK
  <2>8. CallsValid'
    <3> SUFFICES ASSUME NEW d \in Callers
                 PROVE  /\ call'[d].life <= life'
                        /\ Waiting(d)' /\ call'[d].life = life'
                             => call'[d].nonce \in 1..Len(txs')
      BY DEF CallsValid
    <3>1. life' = life /\ life \in Int
      BY <1>1, ServiceAssumption DEF Send, TypeOK
    <3>2. CASE d = c
      BY <2>3, <2>5, <2>6, <3>1, <3>2 DEF TypeOK
    <3>3. CASE d # c
      <4>1. call'[d] = call[d]
        BY <2>6, <3>3 DEF TypeOK
      <4> QED BY <2>3, <3>1, <4>1 DEF CallsValid, Waiting
    <3> QED BY <3>2, <3>3
  <2> QED BY <2>7, <2>8
<1>2. ASSUME NEW c \in Callers, Answer(c) \/ Timeout(c)
      PROVE  TypeInvariant'
  <2>1. call' = [call EXCEPT ![c] = Idle]
        /\ UNCHANGED <<now, registre, nombreIdentites, life, deployed, txs, claim, session>>
    BY <1>2 DEF Answer, Timeout
  <2>2. Idle \in Call /\ Idle.life = 0
    BY ServiceAssumption DEF Idle, Call
  <2>3. acked' \subseteq Accounts
    <3>1. CASE Answer(c)
      <4>1. call[c].nonce \in 1..Len(txs)
        BY <3>1 DEF Answer, HasReceipt, CallsValid
      <4>2. Receipt(c) \in Tx
        BY <4>1 DEF Receipt, TypeOK
      <4> QED BY <3>1, <4>2 DEF Answer, Tx, TypeOK
    <3>2. CASE Timeout(c)
      BY <3>2 DEF Timeout, TypeOK
    <3> QED BY <1>2, <3>1, <3>2
  <2>4. TypeOK'
    BY <1>0, <2>1, <2>2, <2>3 DEF TypeOK
  <2>5. CallsValid'
    <3> SUFFICES ASSUME NEW d \in Callers
                 PROVE  /\ call'[d].life <= life'
                        /\ Waiting(d)' /\ call'[d].life = life'
                             => call'[d].nonce \in 1..Len(txs')
      BY DEF CallsValid
    <3>1. CASE d = c
      <4>1. call'[d] = Idle
        BY <2>1, <3>1 DEF TypeOK
      <4> QED BY <2>1, <2>2, <4>1, ServiceAssumption DEF Waiting, TypeOK
    <3>2. CASE d # c
      <4>1. call'[d] = call[d]
        BY <2>1, <3>2 DEF TypeOK
      <4> QED BY <2>1, <4>1 DEF CallsValid, Waiting
    <3> QED BY <3>1, <3>2
  <2> QED BY <2>4, <2>5
<1>3. CASE Mine
  <2>1. PICK n \in 1..Len(txs), status \in {"succeeded", "reverted"} :
          txs' = [txs EXCEPT ![n].status = status]
    BY <1>3, MineKeeps
  <2>2. txs' \in Seq(Tx) /\ Len(txs') = Len(txs)
    <3>1. txs \in Seq(Tx) /\ status \in Status
      BY DEF TypeOK, Status
    <3> QED BY <2>1, <3>1, StatusKeepsTxs
  <2>3. UNCHANGED <<now, life, deployed, call, acked, claim, session>>
    BY <1>3, MineKeeps
  <2> QED BY <1>0, <2>2, <2>3 DEF TypeOK, CallsValid, Waiting
<1>4. CASE Deploy \/ Tick \/ UNCHANGED vars
  <2>1. UNCHANGED <<life, txs, call, acked, claim, session>> /\ deployed' \in BOOLEAN
    BY <1>4 DEF Deploy, Tick, vars, TypeOK
  <2> QED BY <1>0, <2>1 DEF TypeOK, CallsValid, Waiting
<1>5. CASE Restart
  <2>1. life \in 1..MaxLives /\ MaxLives \in Nat /\ life' = life + 1 /\ life' \in 1..MaxLives
    BY <1>5, ServiceAssumption DEF Restart, TypeOK
  <2>2. txs' = <<>> /\ acked' = {} /\ deployed' = FALSE /\ UNCHANGED <<call, claim, session>>
    BY <1>5 DEF Restart
  <2>3. TypeOK'
    <3>1. txs' \in Seq(Tx) /\ Len(txs') <= MaxTxs
      BY <2>2, ServiceAssumption
    <3> QED BY <1>0, <2>1, <2>2, <3>1 DEF TypeOK
  <2>4. CallsValid'
    BY <2>1, <2>2 DEF CallsValid, TypeOK, Call
  <2> QED BY <2>3, <2>4
<1>6. ASSUME NEW l \in Logins, NEW u \in Users, RequestToken(l, u)
      PROVE  TypeInvariant'
  <2>1. PICK s : s = [stage |-> "token", claim |-> claim[u], expires |-> now + Lifespan,
                      life |-> 0, checked |-> FALSE]
    OBVIOUS
  <2>2. s \in SessionState
    BY <2>1, ServiceAssumption DEF TypeOK, RegistryTypeOK, SessionState
  <2>3. session' = [session EXCEPT ![l] = s] /\ UNCHANGED chainVars /\ UNCHANGED claim
    BY <1>6, <2>1 DEF RequestToken
  <2> QED BY <1>0, <2>2, <2>3 DEF TypeOK, CallsValid, Waiting, chainVars
<1>7. ASSUME NEW l \in Logins, SkipChain(l) \/ VerifyOnChain(l) \/ Refuse(l)
      PROVE  TypeInvariant'
  <2>1. PICK s \in SessionState :
          session' = [session EXCEPT ![l] = s]
    <3>1. PICK s0 \in SessionState : s0 = session[l]
      BY DEF TypeOK
    <3>2. CASE SkipChain(l)
      <4>1. [s0 EXCEPT !.stage = "open"] \in SessionState
        BY DEF SessionState
      <4> QED BY <3>1, <3>2, <4>1 DEF SkipChain
    <3>4. CASE VerifyOnChain(l)
      <4>0. life \in 0..MaxLives
        BY ServiceAssumption DEF TypeOK
      <4>1. [s0 EXCEPT !.stage = "open", !.life = life, !.checked = TRUE] \in SessionState
        BY <4>0 DEF SessionState
      <4> QED BY <3>1, <3>4, <4>1 DEF VerifyOnChain
    <3>3. CASE Refuse(l)
      <4>1. NoSession \in SessionState
        BY ServiceAssumption DEF NoSession, SessionState, Claims
      <4> QED BY <3>3, <4>1 DEF Refuse
    <3> QED BY <1>7, <3>2, <3>3, <3>4
  <2>2. UNCHANGED chainVars /\ UNCHANGED claim
    BY <1>7 DEF SkipChain, VerifyOnChain, Refuse
  <2> QED BY <1>0, <2>1, <2>2 DEF TypeOK, CallsValid, Waiting, chainVars
<1>8. ASSUME NEW u \in Users, stocker_cle(u) \/ revoquer_cle(u)
      PROVE  TypeInvariant'
  BY <1>0, <1>8 DEF stocker_cle, revoquer_cle, PutAttributes, chainVars, Claims,
                    TypeOK, CallsValid, Waiting
<1>9. ASSUME NEW c \in Callers, NEW u \in Accounts, Register(c, u) \/ revoke_identity(c, u)
      PROVE  TypeInvariant'
  BY <1>1, <1>9 DEF Register, revoke_identity, Operation
<1> QED BY <1>2, <1>3, <1>4, <1>5, <1>6, <1>7, <1>8, <1>9 DEF Next

(* Every state of the service has the type the model gives it, and a       *)
(* caller of this life waits for a transaction of this life.               *)
THEOREM ServiceTypeCorrect == Spec => []TypeInvariant
<1>1. Init => TypeInvariant
  BY TypeInit
<1>2. TypeInvariant /\ [Next]_vars => TypeInvariant'
  BY TypeStep
<1> QED BY <1>1, <1>2, PTL DEF Spec

(* In particular every reachable state is well formed, for any accounts,   *)
(* callers, logins and lives of the node.                                  *)
THEOREM TypeCorrect == Spec => []TypeOK
<1>1. TypeInvariant => TypeOK
  BY DEF TypeInvariant
<1> QED BY <1>1, ServiceTypeCorrect, PTL

-----------------------------------------------------------------------------
(* The registry's entries, one by one.                                     *)
EntryConsistent(i) ==
    \/ i = Unset
    \/ i.did # NoDid /\ i.actif /\ i.dateRevocation = 0 /\ i.dateEnregistrement \in 1..now
    \/ /\ i.did # NoDid /\ ~i.actif
       /\ i.dateEnregistrement \in 1..i.dateRevocation /\ i.dateRevocation <= now

KnownAccounts == {u \in Accounts : Known(u)}

EntriesConsistent == \A u \in Accounts : EntryConsistent(registre[u])

LEMMA ConsistentParts ==
    RegistryConsistent <=> nombreIdentites = Cardinality(KnownAccounts) /\ EntriesConsistent
BY DEF RegistryConsistent, KnownAccounts, EntriesConsistent, EntryConsistent, Known

LEMMA EntriesStep ==
    ASSUME TypeOK, EntriesConsistent, [Next]_vars
    PROVE  EntriesConsistent'
<1> SUFFICES ASSUME NEW v \in Accounts PROVE EntryConsistent(registre[v])'
  BY DEF EntriesConsistent
<1>1. EntryConsistent(registre[v])
  BY DEF EntriesConsistent
<1>2. now' \in Nat /\ now \in Nat \ {0} /\ now <= now'
  BY Forward DEF TypeOK, RegistryTypeOK
<1>3. registre[v].dateEnregistrement \in Nat /\ registre[v].dateRevocation \in Nat
  BY EntryType
<1>4. ASSUME registre'[v] = registre[v] PROVE EntryConsistent(registre[v])'
  BY <1>1, <1>2, <1>3, <1>4 DEF EntryConsistent
<1>5. CASE NoEffect
  BY <1>4, <1>5 DEF NoEffect
<1>6. ASSUME NEW u \in Accounts, Registers(u) PROVE EntryConsistent(registre[v])'
  <2>1. CASE v = u
    <3>1. /\ registre'[v].did = u /\ registre'[v].actif = TRUE
          /\ registre'[v].dateEnregistrement = now /\ registre'[v].dateRevocation = 0
          /\ u # NoDid
      BY <1>6, <2>1, AfterRegistration
    <3> QED BY <1>2, <3>1 DEF EntryConsistent
  <2>2. CASE v # u
    BY <1>4, <1>6, <2>2, AfterRegistration
  <2> QED BY <2>1, <2>2
<1>7. ASSUME NEW u \in Accounts, Revokes(u) PROVE EntryConsistent(registre[v])'
  <2>1. CASE v = u
    <3>1. /\ registre'[v].did = registre[v].did /\ registre'[v].actif = FALSE
          /\ registre'[v].dateEnregistrement = registre[v].dateEnregistrement
          /\ registre'[v].dateRevocation = now /\ registre[v].actif
      BY <1>7, <2>1, AfterRevocation
    <3>2. registre[v].did # NoDid /\ registre[v].dateEnregistrement \in 1..now
      BY <1>1, <3>1 DEF EntryConsistent, Unset
    <3> QED BY <1>2, <3>1, <3>2 DEF EntryConsistent
  <2>2. CASE v # u
    BY <1>4, <1>7, <2>2, AfterRevocation
  <2> QED BY <2>1, <2>2
<1>8. CASE Empties
  BY <1>8 DEF Empties, EntryConsistent
<1> QED BY <1>5, <1>6, <1>7, <1>8, RegistryEffect

LEMMA CounterStep ==
    ASSUME TypeOK, nombreIdentites = Cardinality(KnownAccounts), [Next]_vars
    PROVE  nombreIdentites' = Cardinality(KnownAccounts')
<1>1. IsFiniteSet(KnownAccounts)
  BY RegistryAssumption, FS_Subset DEF KnownAccounts
<1>2. CASE NoEffect
  BY <1>2 DEF NoEffect, KnownAccounts, Known
<1>3. ASSUME NEW u \in Accounts, Registers(u)
      PROVE  nombreIdentites' = Cardinality(KnownAccounts')
  <2>1. registre'[u].did = u /\ u # NoDid /\ ~Known(u)
        /\ (\A v \in Accounts \ {u} : registre'[v] = registre[v])
        /\ nombreIdentites' = nombreIdentites + 1
    BY <1>3, AfterRegistration
  <2>2. KnownAccounts' = KnownAccounts \cup {u} /\ u \notin KnownAccounts
    BY <2>1 DEF KnownAccounts, Known
  <2>3. Cardinality(KnownAccounts \cup {u}) = Cardinality(KnownAccounts) + 1
    BY <1>1, <2>2, FS_AddElement
  <2> QED BY <2>1, <2>2, <2>3
<1>4. ASSUME NEW u \in Accounts, Revokes(u)
      PROVE  nombreIdentites' = Cardinality(KnownAccounts')
  <2>1. nombreIdentites' = nombreIdentites
        /\ \A v \in Accounts : registre'[v].did = registre[v].did
    BY <1>4, AfterRevocation
  <2>2. KnownAccounts' = KnownAccounts
    BY <2>1 DEF KnownAccounts, Known
  <2> QED BY <2>1, <2>2
<1>5. CASE Empties
  <2>1. KnownAccounts' = {}
    BY <1>5 DEF Empties, KnownAccounts, Known, Unset
  <2> QED BY <1>5, <2>1, FS_EmptySet DEF Empties
<1> QED BY <1>2, <1>3, <1>4, <1>5, RegistryEffect

(* For any accounts, callers and lives of the node: the counter counts the *)
(* registered addresses, and the flag and dates of each entry agree        *)
(* (IdentityRegistry.sol:56-90).                                           *)
THEOREM RegistryAlwaysConsistent == Spec => []RegistryConsistent
<1>1. Init => nombreIdentites = Cardinality(KnownAccounts) /\ EntriesConsistent
  <2> SUFFICES ASSUME Init
               PROVE  nombreIdentites = Cardinality(KnownAccounts) /\ EntriesConsistent
    OBVIOUS
  <2>1. registre = [u \in Accounts |-> Unset] /\ nombreIdentites = 0
    BY DEF Init, EmptyRegistry
  <2>2. KnownAccounts = {}
    BY <2>1 DEF KnownAccounts, Known, Unset
  <2> QED BY <2>1, <2>2, FS_EmptySet DEF EntriesConsistent, EntryConsistent
<1>2. TypeInvariant /\ RegistryConsistent /\ [Next]_vars => RegistryConsistent'
  <2> SUFFICES ASSUME TypeInvariant, RegistryConsistent, [Next]_vars
               PROVE  RegistryConsistent'
    OBVIOUS
  <2>1. nombreIdentites' = Cardinality(KnownAccounts') /\ EntriesConsistent'
    BY ConsistentParts, EntriesStep, CounterStep DEF TypeInvariant
  <2> QED BY <2>1 DEF RegistryConsistent, KnownAccounts, EntriesConsistent, EntryConsistent, Known
<1>3. Init => RegistryConsistent
  BY <1>1, ConsistentParts
<1> QED BY <1>2, <1>3, ServiceTypeCorrect, PTL DEF Spec

-----------------------------------------------------------------------------
(* For any instance: while a chain lives, no transaction changes the entry *)
(* of an identity that was revoked (IdentityRegistry.sol:38-42, 86).       *)
THEOREM RevocationIsFinal == Spec => RevokedForEver
<1>1. ASSUME TypeInvariant, [Next]_vars
      PROVE  life' = life =>
               \A u \in Accounts : Known(u) /\ ~registre[u].actif => registre'[u] = registre[u]
  <2> SUFFICES ASSUME life' = life, NEW u \in Accounts, Known(u), ~registre[u].actif
               PROVE  registre'[u] = registre[u]
    OBVIOUS
  <2> USE <1>1 DEF TypeInvariant
  <2>1. CASE NoEffect
    BY <2>1 DEF NoEffect
  <2>2. ASSUME NEW v \in Accounts, Registers(v) PROVE registre'[u] = registre[u]
    BY <2>2, AfterRegistration
  <2>3. ASSUME NEW v \in Accounts, Revokes(v) PROVE registre'[u] = registre[u]
    BY <2>3, AfterRevocation
  <2>4. ~Empties
    BY DEF Empties, TypeOK
  <2> QED BY <2>1, <2>2, <2>3, <2>4, RegistryEffect
<1> QED BY <1>1, ServiceTypeCorrect, PTL DEF Spec, RevokedForEver

-----------------------------------------------------------------------------
(* A revocation that succeeded is in force, unless it reached an address   *)
(* without code; then the contract cannot appear there in this life.       *)
Landed(u) == ~registre[u].actif /\ (deployed => Known(u))

RevocationAt(n, u) == txs[n].op = "revoquer" /\ txs[n].user = u /\ txs[n].status = "succeeded"

AckInvariant ==
    /\ ~deployed => \A u \in Accounts : registre[u] = Unset
    /\ \A n \in 1..Len(txs), u \in Accounts : RevocationAt(n, u) => Landed(u)
    /\ \A u \in acked : Landed(u)
    /\ acked # {} => txs # <<>>

LEMMA LandedStays ==
    ASSUME TypeOK, [Next]_vars, life' = life, deployed' = deployed,
           NEW u \in Accounts, Landed(u)
    PROVE  Landed(u)'
<1>1. CASE NoEffect
  BY <1>1 DEF NoEffect, Landed, Known
<1>2. ASSUME NEW v \in Accounts, Registers(v) PROVE Landed(u)'
  <2>1. deployed /\ v # u
    BY <1>2, AfterRegistration DEF Registers, Landed
  <2>2. registre'[u] = registre[u]
    BY <1>2, <2>1, AfterRegistration
  <2> QED BY <2>2 DEF Landed, Known
<1>3. ASSUME NEW v \in Accounts, Revokes(v) PROVE Landed(u)'
  <2>1. v # u
    BY <1>3, AfterRevocation DEF Landed
  <2>2. registre'[u] = registre[u]
    BY <1>3, <2>1, AfterRevocation
  <2> QED BY <2>2 DEF Landed, Known
<1>4. ~Empties
  BY DEF Empties, TypeOK
<1> QED BY <1>1, <1>2, <1>3, <1>4, RegistryEffect

(* Steps that add no revocation to those that succeeded, and no answer.    *)
LEMMA AckQuiet ==
    ASSUME TypeInvariant, AckInvariant, [Next]_vars, life' = life, deployed' = deployed,
           acked' = acked, Len(txs') >= Len(txs), txs' \in Seq(Tx),
           ~deployed => registre' = registre,
           \A n \in 1..Len(txs'), u \in Accounts : RevocationAt(n, u)' => Landed(u)'
    PROVE  AckInvariant'
<1>1. txs \in Seq(Tx) /\ acked \subseteq Accounts /\ TypeOK
  BY DEF TypeInvariant, TypeOK
<1>2. \A u \in acked : Landed(u)'
  BY <1>1, LandedStays DEF AckInvariant
<1>3. acked' # {} => txs' # <<>>
  BY <1>1 DEF AckInvariant
<1>4. ~deployed' => \A u \in Accounts : registre'[u] = Unset
  BY DEF AckInvariant
<1> QED BY <1>2, <1>3, <1>4 DEF AckInvariant

LEMMA AckStep ==
    ASSUME TypeInvariant, RegistryConsistent, AckInvariant, [Next]_vars
    PROVE  AckInvariant'
<1>0. TypeOK /\ txs \in Seq(Tx) /\ acked \subseteq Accounts
  BY DEF TypeInvariant, TypeOK
<1>u. ASSUME NEW n \in 1..Len(txs) PROVE txs[n].user \in Accounts
  <2>1. txs[n] \in Tx
    BY <1>0
  <2> QED BY <2>1 DEF Tx
<1>a. TypeOK'
  BY TypeStep DEF TypeInvariant
<1>b. txs' \in Seq(Tx)
  BY <1>a DEF TypeOK
<1>t. ASSUME UNCHANGED <<txs, life, deployed, acked, registre>>
      PROVE  AckInvariant'
  BY <1>t DEF AckInvariant, RevocationAt, Landed, Known
<1>1. ASSUME NEW c \in Callers, NEW u \in Accounts, NEW op \in Operation, Send(c, op, u)
      PROVE  AckInvariant'
  <2>1. PICK t : t = [op |-> op, user |-> u, status |-> "pending"]
    OBVIOUS
  <2>2. t \in Tx /\ t.status = "pending"
    BY <2>1 DEF Tx, Status
  <2>3. txs' = Append(txs, t)
        /\ UNCHANGED <<now, registre, nombreIdentites, life, deployed, acked, claim, session>>
    BY <1>1, <2>1 DEF Send
  <2>4. ASSUME NEW n \in 1..Len(txs'), NEW v \in Accounts, RevocationAt(n, v)'
        PROVE  Landed(v)'
    <3>1. n # Len(txs) + 1
      BY <1>0, <2>2, <2>3, <2>4 DEF RevocationAt
    <3>2. n \in 1..Len(txs) /\ txs'[n] = txs[n]
      BY <1>0, <2>2, <2>3, <3>1
    <3>3. Landed(v)
      BY <2>4, <3>2 DEF AckInvariant, RevocationAt
    <3> QED BY <2>3, <3>3 DEF Landed, Known
  <2>5. Len(txs') >= Len(txs)
    BY <1>0, <2>2, <2>3
  <2> QED BY <1>b, <2>3, <2>4, <2>5, AckQuiet
<1>2. ASSUME NEW c \in Callers, Answer(c)
      PROVE  AckInvariant'
  <2>1. call[c].nonce \in 1..Len(txs)
    BY <1>2 DEF Answer, HasReceipt, TypeInvariant, CallsValid
  <2>2. UNCHANGED <<registre, deployed, txs>>
    BY <1>2 DEF Answer
  <2>3. ASSUME NEW u \in acked' PROVE Landed(u)
    <3>1. u \in acked \/ RevocationAt(call[c].nonce, u)
      BY <1>2, <2>3 DEF Answer, Receipt, RevocationAt
    <3>2. u \in Accounts
      BY <1>a, <2>3 DEF TypeOK
    <3> QED BY <2>1, <3>1, <3>2 DEF AckInvariant
  <2>4. txs # <<>>
    BY <1>0, <2>1
  <2>5. \A u \in acked' : Landed(u)'
    BY <2>2, <2>3 DEF Landed, Known
  <2>6. \A n \in 1..Len(txs'), u \in Accounts : RevocationAt(n, u)' => Landed(u)'
    BY <2>2 DEF AckInvariant, RevocationAt, Landed, Known
  <2> QED BY <2>2, <2>4, <2>5, <2>6 DEF AckInvariant
<1>3. CASE Mine
  <2>1. PICK n \in 1..MaxTxs :
          MineRegistration(n) \/ MineRevocation(n) \/ MineRevert(n) \/ MineNothing(n)
    BY <1>3 DEF Mine
  <2>2. NextTx(n) /\ n \in 1..Len(txs)
    BY <1>0, <2>1, NextTxIsTx DEF MineRegistration, MineRevocation, MineRevert, MineNothing
  <2>3. PICK status \in {"succeeded", "reverted"} : Included(n, status)
    BY <2>1 DEF MineRegistration, MineRevocation, MineRevert, MineNothing
  <2>4. UNCHANGED <<life, deployed, acked>> /\ status \in Status
        /\ txs' = [txs EXCEPT ![n].status = status]
    BY <2>3 DEF Included, Status
  <2>5. /\ Len(txs') = Len(txs)
        /\ txs'[n].op = txs[n].op /\ txs'[n].user = txs[n].user /\ txs'[n].status = status
        /\ \A m \in 1..Len(txs) : m # n => txs'[m] = txs[m]
    BY <1>0, <2>2, <2>4, StatusKeepsTxs
  <2>6. ASSUME NEW u \in Accounts, txs[n].op = "revoquer", txs[n].user = u, status = "succeeded"
        PROVE  Landed(u)'
    <3>2. CASE MineRevocation(n)
      <4>1. Revokes(u)
        BY <2>6, <3>2 DEF MineRevocation, Included, Revokes
      <4>2. registre'[u].actif = FALSE /\ registre'[u].did = registre[u].did
            /\ registre[u].actif
        BY <1>0, <4>1, AfterRevocation
      <4>3. registre[u].did # NoDid
        BY <4>2, ConsistentParts DEF EntriesConsistent, EntryConsistent, Unset
      <4> QED BY <4>2, <4>3 DEF Landed, Known
    <3>3. CASE MineNothing(n)
      <4>1. registre'[u] = Unset /\ ~deployed'
        BY <2>4, <3>3 DEF MineNothing, AckInvariant
      <4> QED BY <4>1 DEF Landed, Unset
    <3>4. ~MineRegistration(n)
      BY <2>6 DEF MineRegistration
    <3>5. ~MineRevert(n)
      <4> SUFFICES ASSUME MineRevert(n) PROVE FALSE
        OBVIOUS
      <4>1. txs' = [txs EXCEPT ![n].status = "reverted"] /\ "reverted" \in Status
        BY DEF MineRevert, Included, Status
      <4>2. txs'[n].status = "reverted"
        BY <1>0, <2>2, <4>1, StatusKeepsTxs
      <4> QED BY <2>5, <2>6, <4>2
    <3> QED BY <2>1, <3>2, <3>3, <3>4, <3>5
  <2>7. ASSUME NEW m \in 1..Len(txs'), NEW u \in Accounts, RevocationAt(m, u)'
        PROVE  Landed(u)'
    <3>1. CASE m = n
      BY <2>5, <2>6, <2>7, <3>1 DEF RevocationAt
    <3>2. CASE m # n
      <4>1. m \in 1..Len(txs) /\ txs'[m] = txs[m]
        BY <2>5, <3>2
      <4>2. Landed(u)
        BY <2>7, <4>1 DEF AckInvariant, RevocationAt
      <4> QED BY <1>0, <2>4, <4>2, LandedStays
    <3> QED BY <3>1, <3>2
  <2>8. ~deployed => registre' = registre
    BY <2>1 DEF MineRegistration, MineRevocation, MineRevert, MineNothing
  <2>9. Len(txs') >= Len(txs)
    BY <1>0, <2>5
  <2> QED BY <1>b, <2>4, <2>7, <2>8, <2>9, AckQuiet
<1>4. CASE Deploy
  <2>1. txs = <<>> /\ acked = {} /\ deployed' /\ UNCHANGED <<txs, acked>>
    BY <1>4 DEF Deploy, AckInvariant
  <2>2. Len(txs') = 0
    BY <2>1
  <2> QED BY <2>1, <2>2 DEF AckInvariant
<1>5. CASE Restart
  <2>1. txs' = <<>> /\ acked' = {} /\ registre' = [u \in Accounts |-> Unset]
    BY <1>5 DEF Restart
  <2>2. Len(txs') = 0
    BY <2>1
  <2> QED BY <2>1, <2>2 DEF AckInvariant
<1>6. ASSUME NEW l \in Logins, NEW u \in Users, RequestToken(l, u)
      PROVE  AckInvariant'
  BY <1>6, <1>t DEF RequestToken, chainVars
<1>7. ASSUME NEW l \in Logins, SkipChain(l) \/ VerifyOnChain(l) \/ Refuse(l)
      PROVE  AckInvariant'
  BY <1>7, <1>t DEF SkipChain, VerifyOnChain, Refuse, chainVars
<1>8. ASSUME NEW u \in Users, stocker_cle(u) \/ revoquer_cle(u)
      PROVE  AckInvariant'
  BY <1>8, <1>t DEF stocker_cle, revoquer_cle, PutAttributes, chainVars
<1>9. CASE Tick \/ UNCHANGED vars
  BY <1>9, <1>t DEF Tick, vars
<1>10. ASSUME NEW c \in Callers, NEW u \in Accounts, Register(c, u) \/ revoke_identity(c, u)
       PROVE  AckInvariant'
  BY <1>1, <1>10 DEF Register, revoke_identity, Operation
<1>11. ASSUME NEW c \in Callers, Timeout(c) PROVE AckInvariant'
  BY <1>11, <1>t DEF Timeout
<1> QED BY <1>2, <1>3, <1>4, <1>5, <1>6, <1>7, <1>8, <1>9, <1>10, <1>11 DEF Next

LEMMA AckInvariantHolds == Spec => []AckInvariant
<1>1. Init => AckInvariant
  <2> SUFFICES ASSUME Init PROVE AckInvariant
    OBVIOUS
  <2>1. txs = <<>> /\ acked = {} /\ registre = [u \in Accounts |-> Unset]
    BY DEF Init, EmptyRegistry
  <2>2. Len(txs) = 0
    BY <2>1
  <2> QED BY <2>1, <2>2 DEF AckInvariant
<1>2. TypeInvariant /\ RegistryConsistent /\ AckInvariant /\ [Next]_vars => AckInvariant'
  BY AckStep
<1> QED BY <1>1, <1>2, ServiceTypeCorrect, RegistryAlwaysConsistent, PTL DEF Spec

(* For any instance: an address whose revocation was answered with success *)
(* is refused by verifier as long as the chain lives (blockchain.py:23-27).*)
THEOREM AckAlwaysMeansRevoked == Spec => []AckMeansRevoked
<1>1. AckInvariant => AckMeansRevoked
  BY DEF AckInvariant, AckMeansRevoked, Landed, verifier
<1> QED BY <1>1, AckInvariantHolds, PTL

-----------------------------------------------------------------------------
(* The service implements the life of the registry.                        *)
AllDates == [u \in Accounts |-> Dates(u)]
lifeVars == <<now, life, AllDates, nombreIdentites, acked>>

LEMMA OneDated ==
    ASSUME NEW u \in Accounts, \A v \in Accounts \ {u} : registre'[v] = registre[v]
    PROVE  AllDates' = [AllDates EXCEPT ![u] = Dates(u)']
BY DEF AllDates, Dates, Known

LEMMA RegistersIsLife ==
    ASSUME TypeOK, AckInvariant, NEW u \in Accounts, Registers(u), acked' = acked
    PROVE  Life!Register(u)
<1>1. /\ registre'[u].did = u /\ registre'[u].actif = TRUE
      /\ registre'[u].dateEnregistrement = now
      /\ \A v \in Accounts \ {u} : registre'[v] = registre[v]
      /\ ~Known(u) /\ u # NoDid /\ nombreIdentites' = nombreIdentites + 1
  BY AfterRegistration
<1>2. Dates(u) = <<>> /\ Dates(u)' = <<now>>
  BY <1>1 DEF Dates, Known
<1>3. AllDates[u] = <<>> /\ AllDates' = [AllDates EXCEPT ![u] = <<now>>]
  BY <1>1, <1>2, OneDated DEF AllDates
<1>4. u \notin acked
  BY <1>1 DEF AckInvariant, Landed, Registers
<1> QED BY <1>1, <1>3, <1>4 DEF Life!Register, Life!Dated, AllDates, Registers

LEMMA RevokesIsLife ==
    ASSUME TypeOK, EntriesConsistent, NEW u \in Accounts, Revokes(u), acked' = acked
    PROVE  Life!Revoke(u)
<1>1. /\ registre'[u].did = registre[u].did /\ registre'[u].actif = FALSE
      /\ registre'[u].dateEnregistrement = registre[u].dateEnregistrement
      /\ registre'[u].dateRevocation = now
      /\ \A v \in Accounts \ {u} : registre'[v] = registre[v]
      /\ registre[u].actif /\ nombreIdentites' = nombreIdentites
  BY AfterRevocation
<1>2. Known(u)
  BY <1>1 DEF EntriesConsistent, EntryConsistent, Unset, Known
<1>3. PICK d \in Nat : d = registre[u].dateEnregistrement
  BY EntryType
<1>4. Dates(u) = <<d>> /\ Dates(u)' = <<d, now>>
  BY <1>1, <1>2, <1>3 DEF Dates, Known
<1>5. AllDates[u] = <<d>> /\ AllDates' = [AllDates EXCEPT ![u] = <<d, now>>]
  BY <1>1, <1>4, OneDated DEF AllDates
<1>6. Len(<<d>>) = 1 /\ <<d>>[1] = d
  OBVIOUS
<1>7. Len(AllDates[u]) = 1 /\ AllDates' = [AllDates EXCEPT ![u] = <<AllDates[u][1], now>>]
  BY <1>5, <1>6, Zenon
<1> QED BY <1>1, <1>7 DEF Life!Revoke, Life!Active, Life!Dated, AllDates, Revokes

LEMMA AnswerIsLife ==
    ASSUME TypeInvariant, AckInvariant, NEW c \in Callers, Answer(c)
    PROVE  Life!Next \/ UNCHANGED lifeVars
<1>1. UNCHANGED <<now, life, registre, nombreIdentites>> /\ AllDates' = AllDates
  BY DEF Answer, AllDates, Dates, Known
<1>2. CASE acked' = acked
  BY <1>1, <1>2 DEF lifeVars
<1>3. CASE acked' # acked
  <2>1. call[c].nonce \in 1..Len(txs)
    BY DEF Answer, HasReceipt, TypeInvariant, CallsValid
  <2>2. txs[call[c].nonce] \in Tx
    BY <2>1 DEF TypeInvariant, TypeOK
  <2>3. PICK u \in Accounts : u = txs[call[c].nonce].user
    BY <2>2 DEF Tx
  <2>4. RevocationAt(call[c].nonce, u) /\ acked' = acked \cup {u}
    BY <1>3, <2>3 DEF Answer, Receipt, RevocationAt
  <2>5. ~registre[u].actif
    BY <2>1, <2>3, <2>4 DEF AckInvariant, Landed
  <2>6. Dates(u) = <<>> \/ \E d, e \in Nat : Dates(u) = <<d, e>>
    BY <2>5, EntryType DEF Dates, TypeInvariant
  <2>7. Len(<<>>) # 1 /\ \A d, e \in Nat : Len(<<d, e>>) # 1
    OBVIOUS
  <2>8. Len(AllDates[u]) # 1
    BY <2>3, <2>6, <2>7, Zenon DEF AllDates
  <2>9. Life!Tell(u)
    BY <1>1, <2>4, <2>8 DEF Life!Tell, Life!Active, AllDates
  <2> QED BY <2>3, <2>9 DEF Life!Next
<1> QED BY <1>2, <1>3

LEMMA StepIsLife ==
    TypeInvariant /\ EntriesConsistent /\ AckInvariant /\ [Next]_vars => [Life!Next]_lifeVars
<1> SUFFICES ASSUME TypeInvariant, EntriesConsistent, AckInvariant, [Next]_vars
             PROVE  Life!Next \/ UNCHANGED lifeVars
  OBVIOUS
<1> USE DEF TypeInvariant
<1>1. ASSUME UNCHANGED <<now, life, registre, nombreIdentites, acked>>
      PROVE  UNCHANGED lifeVars
  BY <1>1 DEF lifeVars, AllDates, Dates, Known
<1>2. CASE Mine
  <2>1. UNCHANGED <<now, life, acked>> /\ ~Empties
    BY <1>2, MineKeeps DEF Empties, TypeOK
  <2>2. CASE NoEffect
    BY <1>1, <2>1, <2>2 DEF NoEffect
  <2>3. ASSUME NEW u \in Accounts, Registers(u) \/ Revokes(u)
        PROVE  Life!Next
    BY <2>1, <2>3, RegistersIsLife, RevokesIsLife DEF Life!Next
  <2> QED BY <2>1, <2>2, <2>3, RegistryEffect
<1>3. ASSUME NEW c \in Callers, Answer(c)
      PROVE  Life!Next \/ UNCHANGED lifeVars
  BY <1>3, AnswerIsLife
<1>4. CASE Restart
  <2>1. \A u \in Accounts : registre'[u] = Unset
    BY <1>4 DEF Restart
  <2>2. AllDates' = Life!Empty
    BY <2>1 DEF AllDates, Dates, Known, Unset, Life!Empty
  <2>3. Life!Begin
    BY <1>4, <2>2 DEF Restart, Life!Begin, AllDates
  <2> QED BY <2>3 DEF Life!Next
<1>5. CASE Tick
  <2>1. AllDates' = AllDates
    BY <1>5 DEF Tick, AllDates, Dates, Known
  <2>2. Life!Tick
    BY <1>5, <2>1 DEF Tick, Life!Tick, AllDates
  <2> QED BY <2>2 DEF Life!Next
<1>6. ASSUME NEW c \in Callers, NEW u \in Accounts, Register(c, u) \/ revoke_identity(c, u)
      PROVE  UNCHANGED lifeVars
  BY <1>1, <1>6 DEF Register, revoke_identity, Send
<1>7. ASSUME NEW c \in Callers, Timeout(c)
      PROVE  UNCHANGED lifeVars
  BY <1>1, <1>7 DEF Timeout
<1>8. ASSUME NEW l \in Logins, NEW u \in Users, RequestToken(l, u)
      PROVE  UNCHANGED lifeVars
  BY <1>1, <1>8 DEF RequestToken, chainVars
<1>9. ASSUME NEW l \in Logins, SkipChain(l) \/ VerifyOnChain(l) \/ Refuse(l)
      PROVE  UNCHANGED lifeVars
  BY <1>1, <1>9 DEF SkipChain, VerifyOnChain, Refuse, chainVars
<1>10. ASSUME NEW u \in Users, stocker_cle(u) \/ revoquer_cle(u)
       PROVE  UNCHANGED lifeVars
  BY <1>1, <1>10 DEF stocker_cle, revoquer_cle, PutAttributes, chainVars
<1>11. CASE Deploy \/ UNCHANGED vars
  BY <1>1, <1>11 DEF Deploy, vars
<1> QED BY <1>2, <1>3, <1>4, <1>5, <1>6, <1>7, <1>8, <1>9, <1>10, <1>11 DEF Next

(* For any instance, whatever becomes of transactions and receipts: one    *)
(* registration and one revocation of an address in a life of the node,    *)
(* and none that contradicts what somebody was told (blockchain.py:23-27,  *)
(* IdentityRegistry.sol:38-90, deploy.js).                                 *)
THEOREM ServiceImplementsLife == Spec => ServiceIsLife
<1>1. Init => Life!Init
  BY DEF Init, EmptyRegistry, Life!Init, Life!Empty, Dates, Known, Unset
<1>2. TypeInvariant /\ RegistryConsistent /\ AckInvariant /\ [Next]_vars
        => [Life!Next]_<<now, life, [u \in Accounts |-> Dates(u)], nombreIdentites, acked>>
  BY StepIsLife, ConsistentParts DEF lifeVars, AllDates
<1> QED BY <1>1, <1>2, ServiceTypeCorrect, RegistryAlwaysConsistent, AckInvariantHolds, PTL
        DEF Spec, ServiceIsLife, Life!Spec

(* The life of the registry promises enough for blockchain.py: who knows   *)
(* it need not look at transactions to trust an answer.                    *)
THEOREM LifeSuffices == []TypeOK /\ ServiceIsLife => []AckMeansRevoked
<1> DEFINE Inv == \A u \in Accounts : u \in acked => ~Life!Active(u)
<1>1. Life!Init => Inv
  BY DEF Life!Init
<1>2. Inv /\ [Life!Next]_<<now, life, [u \in Accounts |-> Dates(u)], nombreIdentites, acked>>
        => Inv'
  <2> SUFFICES ASSUME Inv, [Life!Next]_lifeVars PROVE Inv'
    BY DEF lifeVars, AllDates
  <2> USE DEF Life!Active
  <2>0. DOMAIN AllDates = Accounts /\ (\A d : Len(<<d>>) = 1) /\ (\A d, e : Len(<<d, e>>) = 2)
        /\ Len(<<>>) = 0
    BY DEF AllDates
  <2>1. CASE UNCHANGED lifeVars
    BY <2>1 DEF lifeVars, AllDates
  <2>2. ASSUME NEW u \in Accounts, Life!Register(u) \/ Life!Revoke(u) \/ Life!Tell(u)
        PROVE  Inv'
    <3>1. CASE Life!Register(u)
      BY <2>0, <3>1 DEF Life!Register, Life!Dated, AllDates
    <3>2. CASE Life!Revoke(u)
      BY <2>0, <3>2 DEF Life!Revoke, Life!Dated, AllDates
    <3>3. CASE Life!Tell(u)
      BY <3>3 DEF Life!Tell, AllDates
    <3> QED BY <2>2, <3>1, <3>2, <3>3
  <2>3. CASE Life!Begin \/ Life!Tick
    BY <2>3 DEF Life!Begin, Life!Tick, AllDates
  <2> QED BY <2>1, <2>2, <2>3 DEF Life!Next
<1>3. TypeOK /\ Inv => AckMeansRevoked
  <2> SUFFICES ASSUME TypeOK, Inv, NEW u \in acked, verifier(u) PROVE FALSE
    BY DEF AckMeansRevoked
  <2>1. u \in Accounts /\ Dates(u) = <<registre[u].dateEnregistrement>>
    BY DEF TypeOK, verifier, Dates
  <2>2. Len(<<registre[u].dateEnregistrement>>) = 1
    OBVIOUS
  <2> QED BY <2>1, <2>2 DEF Life!Active
<1> QED BY <1>1, <1>2, <1>3, PTL DEF ServiceIsLife, Life!Spec

-----------------------------------------------------------------------------
(* What holds of a session whatever its stage: tokens are young, and a     *)
(* session that was checked names an account of some life of the node.     *)
Rests(s) ==
    /\ Known(s.claim)
    /\ ~registre[s.claim].actif => s.expires <= registre[s.claim].dateRevocation + Lifespan

SessionGood(s) ==
    /\ s.life <= life
    /\ s.expires <= now + Lifespan
    /\ s.checked => s.claim \in Accounts
    /\ s.stage = "open" /\ s.checked /\ s.life = life => Rests(s)

SessionInvariant == \A l \in Logins : SessionGood(session[l])

(* What a session rests on outlives every step of the registry.            *)
LEMMA GoodStays ==
    ASSUME TypeOK, [Next]_vars, NEW s \in SessionState, SessionGood(s)
    PROVE  SessionGood(s)'
<1>0. /\ s.expires \in Nat /\ s.life \in Nat /\ s.checked \in BOOLEAN
      /\ now \in Nat /\ now' \in Nat /\ now <= now' /\ Lifespan \in Nat
      /\ life \in Nat
  BY Forward, ServiceAssumption DEF SessionState, TypeOK, RegistryTypeOK
<1>1. s.expires <= now' + Lifespan /\ (s.checked => s.claim \in Accounts)
  BY <1>0 DEF SessionGood
<1>2. CASE Empties
  <2>1. s.life < life'
    BY <1>0, <1>2 DEF Empties, SessionGood
  <2> QED BY <1>0, <1>1, <1>2, <2>1 DEF SessionGood, Empties
<1>3. CASE ~Empties
  <2>1. life' = life
    BY <1>3, Forward
  <2>2. ASSUME s.stage = "open", s.checked, s.life = life
        PROVE  Rests(s)'
    <3>1. Rests(s) /\ s.claim \in Accounts
      BY <2>2 DEF SessionGood
    <3>2. ASSUME registre'[s.claim] = registre[s.claim] PROVE Rests(s)'
      BY <3>1, <3>2 DEF Rests, Known
    <3>3. CASE NoEffect
      BY <3>2, <3>3 DEF NoEffect
    <3>4. ASSUME NEW u \in Accounts, Registers(u) PROVE Rests(s)'
      <4>1. u # s.claim
        BY <3>1, <3>4, AfterRegistration DEF Rests
      <4>2. registre'[s.claim] = registre[s.claim]
        BY <3>1, <3>4, <4>1, AfterRegistration
      <4> QED BY <3>2, <4>2
    <3>5. ASSUME NEW u \in Accounts, Revokes(u) PROVE Rests(s)'
      <4>1. CASE u = s.claim
        <5>1. registre'[s.claim].did = registre[s.claim].did
              /\ registre'[s.claim].dateRevocation = now
          BY <3>5, <4>1, AfterRevocation
        <5>2. s.expires <= now + Lifespan
          BY DEF SessionGood
        <5> QED BY <3>1, <5>1, <5>2 DEF Rests, Known
      <4>2. CASE u # s.claim
        BY <3>1, <3>2, <3>5, <4>2, AfterRevocation
      <4> QED BY <4>1, <4>2
    <3> QED BY <1>3, <3>3, <3>4, <3>5, RegistryEffect
  <2> QED BY <1>1, <2>1, <2>2 DEF SessionGood
<1> QED BY <1>2, <1>3

LEMMA SessionStep ==
    ASSUME TypeInvariant, SessionInvariant, [Next]_vars
    PROVE  SessionInvariant'
<1>0. TypeOK /\ TypeOK'
  BY TypeStep DEF TypeInvariant
<1>1. ASSUME UNCHANGED session PROVE SessionInvariant'
  <2> SUFFICES ASSUME NEW l \in Logins PROVE SessionGood(session[l])'
    BY DEF SessionInvariant
  <2>1. PICK s \in SessionState : s = session[l]
    BY <1>0 DEF TypeOK
  <2>2. SessionGood(s)'
    BY <1>0, <2>1, GoodStays DEF SessionInvariant
  <2> QED BY <1>1, <2>1, <2>2 DEF SessionGood, Rests, Known
<1>2. ASSUME NEW l \in Logins, NEW s \in SessionState,
             session' = [session EXCEPT ![l] = s], SessionGood(s), UNCHANGED chainVars
      PROVE  SessionInvariant'
  <2> SUFFICES ASSUME NEW k \in Logins PROVE SessionGood(session[k])'
    BY DEF SessionInvariant
  <2>1. session'[k] = IF k = l THEN s ELSE session[k]
    BY <1>0, <1>2 DEF TypeOK
  <2>2. SessionGood(session[k]) /\ UNCHANGED <<now, registre, life>>
    BY <1>2 DEF SessionInvariant, chainVars
  <2> QED BY <1>2, <2>1, <2>2 DEF SessionGood, Rests, Known
<1>3. ASSUME NEW l \in Logins, NEW u \in Users, RequestToken(l, u)
      PROVE  SessionInvariant'
  <2>1. PICK s : s = [stage |-> "token", claim |-> claim[u], expires |-> now + Lifespan,
                      life |-> 0, checked |-> FALSE]
    OBVIOUS
  <2>2. s \in SessionState /\ SessionGood(s)
    BY <1>0, <2>1, ServiceAssumption DEF SessionState, SessionGood, TypeOK, RegistryTypeOK
  <2> QED BY <1>2, <1>3, <2>1, <2>2 DEF RequestToken
<1>4. ASSUME NEW l \in Logins, SkipChain(l)
      PROVE  SessionInvariant'
  <2>1. PICK s0 \in SessionState : s0 = session[l]
    BY <1>0 DEF TypeOK
  <2>2. PICK s : s = [s0 EXCEPT !.stage = "open"]
    OBVIOUS
  <2>3. s \in SessionState /\ s.life = s0.life /\ s.expires = s0.expires
        /\ s.checked = s0.checked /\ s.claim = s0.claim
    BY <2>2 DEF SessionState
  <2>4. ~s0.checked
    BY <1>4, <2>1, ServiceAssumption DEF SkipChain, SessionInvariant, SessionGood
  <2>5. SessionGood(s)
    BY <2>1, <2>3, <2>4 DEF SessionInvariant, SessionGood
  <2> QED BY <1>2, <1>4, <2>1, <2>2, <2>3, <2>5 DEF SkipChain
<1>5. ASSUME NEW l \in Logins, VerifyOnChain(l)
      PROVE  SessionInvariant'
  <2>1. PICK s0 \in SessionState : s0 = session[l]
    BY <1>0 DEF TypeOK
  <2>2. PICK s : s = [s0 EXCEPT !.stage = "open", !.life = life, !.checked = TRUE]
    OBVIOUS
  <2>3. life \in 0..MaxLives /\ life \in Nat
    BY <1>0, ServiceAssumption DEF TypeOK
  <2>4. s \in SessionState /\ s.life = life /\ s.expires = s0.expires /\ s.claim = s0.claim
    BY <2>2, <2>3 DEF SessionState
  <2>5. s0.claim \in Accounts /\ Known(s0.claim) /\ registre[s0.claim].actif
    BY <1>5, <2>1 DEF VerifyOnChain, verifier
  <2>6. SessionGood(s)
    BY <2>1, <2>3, <2>4, <2>5 DEF SessionInvariant, SessionGood, Rests
  <2> QED BY <1>2, <1>5, <2>1, <2>2, <2>4, <2>6 DEF VerifyOnChain
<1>6. ASSUME NEW l \in Logins, Refuse(l)
      PROVE  SessionInvariant'
  <2>1. NoSession \in SessionState
    BY ServiceAssumption DEF NoSession, SessionState, Claims
  <2>2. SessionGood(NoSession)
    BY <1>0, ServiceAssumption DEF NoSession, SessionGood, TypeOK, RegistryTypeOK
  <2> QED BY <1>2, <1>6, <2>1, <2>2 DEF Refuse
<1>7. ASSUME NEW c \in Callers, NEW u \in Accounts, Register(c, u) \/ revoke_identity(c, u)
      PROVE  UNCHANGED session
  BY <1>7 DEF Register, revoke_identity, Send
<1>8. ASSUME NEW c \in Callers, Answer(c) \/ Timeout(c)
      PROVE  UNCHANGED session
  BY <1>8 DEF Answer, Timeout
<1>9. ASSUME NEW u \in Users, stocker_cle(u) \/ revoquer_cle(u)
      PROVE  UNCHANGED session
  BY <1>9 DEF stocker_cle, revoquer_cle, PutAttributes
<1>10. CASE Mine
  BY <1>0, <1>1, <1>10, MineKeeps
<1>11. CASE Deploy \/ Restart \/ Tick \/ UNCHANGED vars
  BY <1>1, <1>11 DEF Deploy, Restart, Tick, vars
<1> QED BY <1>1, <1>3, <1>4, <1>5, <1>6, <1>7, <1>8, <1>9, <1>10, <1>11 DEF Next

(* For any instance: a session the chain confirmed names an identity of    *)
(* the registry and ends one lifespan after its revocation at the latest   *)
(* (integration.py:52-81).                                                 *)
THEOREM SessionsAlwaysRestOnChain == Spec => []SessionsRestOnChain
<1>1. Init => SessionInvariant
  <2> SUFFICES ASSUME Init, NEW l \in Logins PROVE SessionGood(session[l])
    BY DEF SessionInvariant
  <2>1. session[l] = NoSession /\ life = 1 /\ now = 1
    BY DEF Init
  <2> QED BY <2>1, ServiceAssumption DEF NoSession, SessionGood
<1>2. TypeInvariant /\ SessionInvariant /\ [Next]_vars => SessionInvariant'
  BY SessionStep
<1>3. SessionInvariant => SessionsRestOnChain
  BY DEF SessionInvariant, SessionGood, Rests, SessionsRestOnChain
<1> QED BY <1>1, <1>2, <1>3, ServiceTypeCorrect, PTL DEF Spec
=============================================================================
