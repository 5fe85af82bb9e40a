----------------------------- MODULE AuditLedger -----------------------------
(***************************************************************************)
(* What the audit trail amounts to for those who read it: a set of blocks  *)
(* that only ever grows, one block at a time, each continuing the genesis  *)
(* or a block that is there already.  There is no writer, no transaction   *)
(* and no failure here.  AuditChain implements this module.                *)
(***************************************************************************)
EXTENDS Naturals, FiniteSets

CONSTANTS
    Genesis,   \* the previous hash of a first block
    Width      \* how many blocks may continue the same one

VARIABLE blocks

Init == blocks = {}

\* Block b continues a block that was stored before b was hashed.
Continues(b) ==
    b.prev = Genesis \/ \E c \in blocks : c.hash = b.prev /\ c.at < b.hash

\* Nothing that is there is changed or removed, no hash and no timestamp is
\* used twice, and the tree the links form is nowhere wider than Width.
Append ==
    \E b \in blocks' \ blocks :
        /\ blocks' = blocks \cup {b}
        /\ Continues(b)
        /\ \A c \in blocks : c.hash # b.hash /\ c.at # b.at
        /\ Cardinality({c \in blocks : c.prev = b.prev}) < Width

Spec == Init /\ [][Append]_blocks
=============================================================================
