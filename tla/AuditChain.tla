----------------------------- MODULE AuditChain -----------------------------
(***************************************************************************)
(* backend/app/services/blockchain_simulator.py: the hash chain kept in    *)
(* the audit_logs table.  create_block reads the block with the latest     *)
(* timestamp, hashes the new block on top of it and inserts it;            *)
(* verify_chain recomputes every hash and every link.  Nothing locks the   *)
(* table between the read and the commit.                                  *)
(*                                                                         *)
(* Every call of utcnow() yields an instant of its own: between two calls  *)
(* of one worker lie at least a JSON dump, a SHA-256 and the ORM's work,   *)
(* longer than the microsecond the clock resolves.  That two workers never *)
(* read the same microsecond is assumed: a tie is not modelled.  SHA-256   *)
(* is collision free: as the hashed data contain the instant of the hash,  *)
(* that instant names the hash, and a block's other fields are determined  *)
(* by it.                                                                  *)
(*                                                                         *)
(* Operators named Bad... are mistakes the code does not make; they show   *)
(* that the properties would notice them, and nothing else uses them.      *)
(***************************************************************************)
EXTENDS Integers, FiniteSets

CONSTANTS Workers,     \* backend processes that write blocks
          MaxInstant   \* bound on the clock

ASSUME MaxInstantAssumption == MaxInstant \in Nat
ASSUME WorkersAssumption == IsFiniteSet(Workers)

VARIABLES clock,    \* the last instant read by anyone
          chain,    \* committed rows of audit_logs
          writer    \* what each worker's create_block is doing

vars == <<clock, chain, writer>>

Genesis == 0                        \* previous_hash ""
Instant == Nat \ {0}
Hash == Nat

Block == [prev : Hash, hash : Instant, at : Instant]

Idle == [pc |-> "idle"]
Linking  == [pc : {"hash"}, prev : Hash]
Hashed   == [pc : {"flush"}, prev : Hash, hash : Instant]
Flushed  == [pc : {"commit"}, prev : Hash, hash : Instant, at : Instant]
Writer == {Idle} \cup Linking \cup Hashed \cup Flushed

TypeOK ==
    /\ clock \in Nat
    /\ chain \subseteq Block
    /\ writer \in [Workers -> Writer]

\* order_by(desc(AuditLog.timestamp)).first()
Newest(S) == CHOOSE b \in S : \A c \in S : c.at <= b.at

Init ==
    /\ clock = 0
    /\ chain = {}
    /\ writer = [w \in Workers |-> Idle]

\* The query for the last block never matches.
BadReadNothing(w) ==
    /\ writer[w] = Idle
    /\ writer' = [writer EXCEPT ![w] = [pc |-> "hash", prev |-> Genesis]]
    /\ UNCHANGED <<clock, chain>>

\* READ UNCOMMITTED: a block another session may still roll back is continued.
BadReadDirty(w) ==
    LET rows == chain \cup {writer[v] : v \in {x \in Workers : writer[x].pc = "commit"}}
    IN  /\ writer[w] = Idle
        /\ writer' = [writer EXCEPT ![w] =
             [pc |-> "hash", prev |-> IF rows = {} THEN Genesis ELSE Newest(rows).hash]]
        /\ UNCHANGED <<clock, chain>>

ReadLast(w) ==
    /\ writer[w] = Idle
    /\ writer' = [writer EXCEPT ![w] =
         [pc |-> "hash", prev |-> IF chain = {} THEN Genesis ELSE Newest(chain).hash]]
    /\ UNCHANGED <<clock, chain>>

\* block_data carries datetime.utcnow(), and current_hash is its digest.
HashBlock(w) ==
    /\ writer[w].pc = "hash"
    /\ clock < MaxInstant
    /\ clock' = clock + 1
    /\ writer' = [writer EXCEPT ![w] =
         [pc |-> "flush", prev |-> writer[w].prev, hash |-> clock + 1]]
    /\ UNCHANGED chain

\* default=datetime.utcnow(): evaluated once, when the module is imported.
BadFlush(w) ==
    /\ writer[w].pc = "flush"
    /\ writer' = [writer EXCEPT ![w] =
         [pc |-> "commit", prev |-> writer[w].prev, hash |-> writer[w].hash, at |-> 0]]
    /\ UNCHANGED <<clock, chain>>

\* db.add and the flush of db.commit: the row's timestamp is the column
\* default, evaluated now, and not the instant in block_data.
Flush(w) ==
    /\ writer[w].pc = "flush"
    /\ clock < MaxInstant
    /\ clock' = clock + 1
    /\ writer' = [writer EXCEPT ![w] =
         [pc |-> "commit", prev |-> writer[w].prev, hash |-> writer[w].hash,
          at |-> clock + 1]]
    /\ UNCHANGED chain

\* The row becomes visible to the other sessions.
Commit(w) ==
    /\ writer[w].pc = "commit"
    /\ chain' = chain \cup
         {[prev |-> writer[w].prev, hash |-> writer[w].hash, at |-> writer[w].at]}
    /\ writer' = [writer EXCEPT ![w] = Idle]
    /\ UNCHANGED clock

\* A failure of any step, which every caller swallows, or the end of the process.
Fail(w) ==
    /\ writer[w] # Idle
    /\ writer' = [writer EXCEPT ![w] = Idle]
    /\ UNCHANGED <<clock, chain>>

Next == \E w \in Workers :
            ReadLast(w) \/ HashBlock(w) \/ Flush(w) \/ Commit(w) \/ Fail(w)

Spec == Init /\ [][Next]_vars
-----------------------------------------------------------------------------
(* verify_chain, block by block, in timestamp order *)

Earlier(b) == {c \in chain : c.at < b.at}

\* blocks[0].previous_hash is "", every other one repeats its predecessor's hash.
Linked(b) == b.prev = IF Earlier(b) = {} THEN Genesis ELSE Newest(Earlier(b)).hash

\* The hash recomputed from the row, whose timestamp is b.at.
Recomputed(b) == b.at

verify_chain == \A b \in chain : b.hash = Recomputed(b) /\ Linked(b)
-----------------------------------------------------------------------------
(* Properties *)

\* With one worker the links never break: in timestamp order every block names
\* the one before it, whatever creations failed in between.
LinksUnbroken == Cardinality(Workers) = 1 => \A b \in chain : Linked(b)

\* With any number of workers a block names a block older than itself, so the
\* links reach back to the first block without a cycle or a gap.
LinksBackwards ==
    \A b \in chain : b.prev # Genesis =>
        \E c \in chain : c.hash = b.prev /\ c.at < b.hash

\* Unlocked creations fork the chain, but only as wide as there are workers: no
\* more than Cardinality(Workers) blocks continue the same block.
ForkBounded ==
    \A h \in {b.prev : b \in chain} :
        Cardinality({b \in chain : b.prev = h}) <= Cardinality(Workers)

\* blockchain_simulator.py:86-89 rejects a block whose hash does not match its
\* row ("Hash invalide pour le bloc"): what create_block stores should pass.
ChainVerifies == verify_chain
-----------------------------------------------------------------------------
(* Refinement *)

Ledger == INSTANCE AuditLedger WITH Width <- Cardinality(Workers), blocks <- chain

\* However creations overlap and fail, the table is an append-only tree: every
\* commit adds one block, with a hash and a timestamp of its own, on top of a
\* block committed before it was hashed, and no block ever has more successors
\* than there are workers.  (LinksBackwards and ForkBounded follow.)
ChainIsLedger == Ledger!Spec
=============================================================================
