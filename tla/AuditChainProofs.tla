--------------------------- MODULE AuditChainProofs ---------------------------
(***************************************************************************)
(* Theorems about AuditChain, for every number of workers and every clock: *)
(* the links of the chain, how wide it may fork, and that a single worker  *)
(* never breaks it.                                                        *)
(***************************************************************************)
EXTENDS AuditChain, TLAPS, FiniteSetTheorems, WellFoundedInduction

LEMMA WriterShape ==
    ASSUME TypeOK, NEW w \in Workers
    PROVE  /\ writer[w].pc = "hash" => writer[w] \in Linking
           /\ writer[w].pc = "flush" => writer[w] \in Hashed
           /\ writer[w].pc = "commit" => writer[w] \in Flushed
           /\ writer[w] # Idle => /\ writer[w].pc \in {"hash", "flush", "commit"}
                                  /\ writer[w].prev \in Hash
BY DEF TypeOK, Writer, Idle, Linking, Hashed, Flushed

\* Instants bounded by the clock have a latest, so the query for the last block
\* of a table that is not empty answers one of its rows.
LEMMA NewestIsLatest ==
    ASSUME NEW S, S # {}, NEW k \in Nat, \A b \in S : b.at \in Nat /\ b.at <= k
    PROVE  Newest(S) \in S /\ \A c \in S : c.at <= Newest(S).at
<1> DEFINE Ages == {k - b.at : b \in S}
<1>1. Ages # {} /\ Ages \subseteq Nat
  OBVIOUS
<1>2. PICK x \in Ages : \A y \in Ages : <<y, x>> \notin OpToRel(<, Nat)
  <2> HIDE DEF Ages
  <2>1. QED
    BY <1>1, NatLessThanWellFounded, WFMin
<1>3. PICK b \in S : x = k - b.at
  BY <1>2
<1>4. ASSUME NEW c \in S
      PROVE  c.at <= b.at
  <2>1. k - c.at \in Nat /\ x \in Nat /\ <<k - c.at, x>> \notin OpToRel(<, Nat)
    BY <1>1, <1>2
  <2>2. ~(k - c.at < x)
    BY <2>1 DEF OpToRel
  <2>3. QED
    BY <1>3, <2>2
<1>5. QED
  BY <1>4 DEF Newest
-----------------------------------------------------------------------------
(* Instants and hashes *)

HasHash(w) == writer[w].pc \in {"flush", "commit"}

\* Nothing is dated after the clock, and a row's hash is older than its timestamp.
Dated ==
    /\ \A b \in chain : b.hash < b.at /\ b.at <= clock
    /\ \A w \in Workers : HasHash(w) => writer[w].hash <= clock
    /\ \A w \in Workers : writer[w].pc = "commit" =>
         writer[w].hash < writer[w].at /\ writer[w].at <= clock

\* No two blocks, written or being written, share a hash.
HashesDiffer ==
    /\ \A b, c \in chain : b.hash = c.hash => b = c
    /\ \A w \in Workers : HasHash(w) => \A b \in chain : b.hash # writer[w].hash
    /\ \A v, w \in Workers : HasHash(v) /\ HasHash(w) /\ v # w =>
         writer[v].hash # writer[w].hash

\* Nor a timestamp: the order verify_chain reads the blocks in is total.
DatesDiffer ==
    /\ \A b, c \in chain : b.at = c.at => b = c
    /\ \A w \in Workers : writer[w].pc = "commit" => \A b \in chain : b.at # writer[w].at
    /\ \A v, w \in Workers : writer[v].pc = "commit" /\ writer[w].pc = "commit" /\ v # w =>
         writer[v].at # writer[w].at

Numbered == TypeOK /\ Dated /\ HashesDiffer /\ DatesDiffer

\* What create_block finds: nothing, or a committed row that none is later than.
LEMMA LastRead ==
    ASSUME Numbered, chain # {}
    PROVE  Newest(chain) \in chain /\ \A c \in chain : c.at <= Newest(chain).at
<1>1. clock \in Nat /\ \A b \in chain : b.at \in Nat /\ b.at <= clock
  BY DEF Numbered, TypeOK, Dated, Block, Instant
<1>2. QED
  BY <1>1, NewestIsLatest

LEMMA NumberedInit == Init => Numbered
BY DEF Init, Numbered, TypeOK, Dated, HashesDiffer, DatesDiffer, HasHash, Idle, Writer

\* A step that leaves the table alone.
LEMMA NumberedWriter ==
    ASSUME Numbered, NEW w \in Workers, NEW j \in Writer,
           writer' = [writer EXCEPT ![w] = j], chain' = chain,
           clock' = clock \/ clock' = clock + 1,
           \/ j.pc \notin {"flush", "commit"}
           \/ j.pc = "flush" /\ j.hash = clock + 1 /\ clock' = clock + 1
           \/ /\ j.pc = "commit" /\ HasHash(w) /\ j.hash = writer[w].hash
              /\ j.at = clock + 1 /\ clock' = clock + 1
    PROVE  Numbered'
<1> USE DEF Numbered, HasHash
<1>1. TypeOK'
  BY DEF TypeOK
<1>2. writer'[w] = j /\ \A v \in Workers \ {w} : writer'[v] = writer[v]
  BY DEF TypeOK
<1>3. clock \in Nat /\ \A b \in chain : b.hash \in Nat /\ b.at \in Nat
  BY DEF TypeOK, Block, Instant
<1>4. \A v \in Workers :
        /\ HasHash(v) => writer[v].hash \in Nat
        /\ writer[v].pc = "commit" => writer[v].at \in Nat
  BY WriterShape DEF Hashed, Flushed, Instant
<1>5. Dated'
  BY <1>2, <1>3, <1>4 DEF Dated
<1>6. HashesDiffer'
  BY <1>2, <1>3, <1>4 DEF Dated, HashesDiffer
<1>7. DatesDiffer'
  BY <1>2, <1>3, <1>4 DEF Dated, DatesDiffer
<1>8. QED
  BY <1>1, <1>5, <1>6, <1>7

LEMMA NumberedNext == Numbered /\ [Next]_vars => Numbered'
<1> SUFFICES ASSUME Numbered, [Next]_vars PROVE Numbered'
  OBVIOUS
<1>1. TypeOK /\ clock \in Nat
  BY DEF Numbered, TypeOK
<1>2. ASSUME NEW w \in Workers, ReadLast(w)
      PROVE  Numbered'
  <2> DEFINE h == IF chain = {} THEN Genesis ELSE Newest(chain).hash
             j == [pc |-> "hash", prev |-> h]
  <2>1. h \in Hash
    BY LastRead DEF Numbered, TypeOK, Block, Instant, Hash, Genesis
  <2>2. writer' = [writer EXCEPT ![w] = j] /\ chain' = chain /\ clock' = clock
    BY <1>2 DEF ReadLast
  <2> HIDE DEF h
  <2>3. j \in Writer /\ j.pc = "hash"
    BY <2>1 DEF Writer, Linking
  <2> HIDE DEF j
  <2>4. QED
    BY <1>1, <2>2, <2>3, NumberedWriter
<1>3. ASSUME NEW w \in Workers, HashBlock(w)
      PROVE  Numbered'
  <2> DEFINE j == [pc |-> "flush", prev |-> writer[w].prev, hash |-> clock + 1]
  <2>1. writer' = [writer EXCEPT ![w] = j] /\ chain' = chain /\ clock' = clock + 1
    BY <1>3 DEF HashBlock
  <2>2. writer[w] \in Linking
    BY <1>1, <1>3, WriterShape DEF HashBlock
  <2>3. j \in Writer /\ j.pc = "flush" /\ j.hash = clock + 1
    BY <1>1, <2>2 DEF Writer, Linking, Hashed, Instant
  <2> HIDE DEF j
  <2>4. QED
    BY <1>1, <2>1, <2>3, NumberedWriter
<1>4. ASSUME NEW w \in Workers, Flush(w)
      PROVE  Numbered'
  <2> DEFINE j == [pc |-> "commit", prev |-> writer[w].prev,
                   hash |-> writer[w].hash, at |-> clock + 1]
  <2>1. writer' = [writer EXCEPT ![w] = j] /\ chain' = chain /\ clock' = clock + 1
    BY <1>4 DEF Flush
  <2>2. writer[w] \in Hashed /\ HasHash(w)
    BY <1>1, <1>4, WriterShape DEF Flush, HasHash
  <2>3. writer[w].hash \in Nat /\ writer[w].hash <= clock
    BY <2>2 DEF Hashed, Instant, Numbered, Dated
  <2>4. j \in Writer /\ j.pc = "commit" /\ j.hash = writer[w].hash /\ j.at = clock + 1
    BY <1>1, <2>2 DEF Writer, Hashed, Flushed, Instant
  <2> HIDE DEF j
  <2>5. QED
    BY <1>1, <2>1, <2>2, <2>3, <2>4, NumberedWriter
<1>5. ASSUME NEW w \in Workers, Fail(w)
      PROVE  Numbered'
  <2>1. writer' = [writer EXCEPT ![w] = Idle] /\ chain' = chain /\ clock' = clock
    BY <1>5 DEF Fail
  <2>2. Idle \in Writer /\ Idle.pc = "idle"
    BY DEF Writer, Idle
  <2>3. QED
    BY <1>1, <2>1, <2>2, NumberedWriter
<1>6. ASSUME NEW w \in Workers, Commit(w)
      PROVE  Numbered'
  <2> DEFINE new == [prev |-> writer[w].prev, hash |-> writer[w].hash, at |-> writer[w].at]
  <2>1. writer[w] \in Flushed /\ writer[w].pc = "commit"
    BY <1>1, <1>6, WriterShape DEF Commit
  <2>2. new \in Block /\ new.hash = writer[w].hash /\ new.at = writer[w].at
    BY <2>1 DEF Flushed, Block
  <2>3. chain' = chain \cup {new} /\ clock' = clock /\ writer' = [writer EXCEPT ![w] = Idle]
    BY <1>6 DEF Commit
  <2> HIDE DEF new
  <2>4. TypeOK'
    BY <1>1, <2>2, <2>3 DEF TypeOK, Writer
  <2>5. \A v \in Workers : HasHash(v)' => HasHash(v) /\ v # w /\ writer'[v] = writer[v]
    BY <1>1, <2>3 DEF TypeOK, HasHash, Idle
  <2>6. \A v \in Workers : writer'[v].pc = "commit" => writer'[v] = writer[v]
    BY <1>1, <2>3 DEF TypeOK, Idle
  <2>7. Dated'
    BY <2>1, <2>2, <2>3, <2>5, <2>6 DEF Numbered, Dated, HasHash
  <2>8. HasHash(w)
    BY <2>1 DEF HasHash
  <2>9. HashesDiffer'
    BY <2>2, <2>3, <2>5, <2>8 DEF Numbered, HashesDiffer
  <2>10. DatesDiffer'
    BY <2>1, <2>2, <2>3, <2>5, <2>6 DEF Numbered, DatesDiffer, HasHash
  <2>11. QED
    BY <2>4, <2>7, <2>9, <2>10 DEF Numbered
<1>7. CASE UNCHANGED vars
  BY <1>7 DEF vars, Numbered, TypeOK, Dated, HashesDiffer, DatesDiffer, HasHash
<1>8. QED
  BY <1>2, <1>3, <1>4, <1>5, <1>6, <1>7 DEF Next

\* The state keeps its type: what the query answers is always a hash, as the
\* latest row of a table that is not empty exists.
THEOREM TypeCorrect == Spec => []TypeOK
<1>1. Spec => []Numbered
  BY NumberedInit, NumberedNext, PTL DEF Spec
<1>2. Numbered => TypeOK
  BY DEF Numbered
<1>3. QED
  BY <1>1, <1>2, PTL
-----------------------------------------------------------------------------
(* Links *)

\* The committed block a writer builds on, older than the hash it computes.
Follows(h, instant) == h # Genesis => \E c \in chain : c.hash = h /\ c.at < instant

\* LinksBackwards, and what makes the next block satisfy it.
LinkInvariant ==
    /\ \A b \in chain : Follows(b.prev, b.hash)
    /\ \A w \in Workers : writer[w].pc = "hash" => Follows(writer[w].prev, clock + 1)
    /\ \A w \in Workers : HasHash(w) => Follows(writer[w].prev, writer[w].hash)

\* A step of w that leaves the table alone and continues what w had read.
LEMMA LinkWriter ==
    ASSUME Numbered, LinkInvariant, NEW w \in Workers, NEW j \in Writer,
           writer' = [writer EXCEPT ![w] = j], chain' = chain,
           clock' = clock \/ clock' = clock + 1,
           j.pc = "hash" => Follows(j.prev, clock + 1),
           j.pc \in {"flush", "commit"} => j.hash \in Nat /\ Follows(j.prev, j.hash)
    PROVE  LinkInvariant'
<1>1. clock \in Nat /\ \A b \in chain : b.at \in Nat
  BY DEF Numbered, TypeOK, Block, Instant
<1>2. writer'[w] = j /\ \A v \in Workers \ {w} : writer'[v] = writer[v]
  BY DEF Numbered, TypeOK
<1>3. QED
  BY <1>1, <1>2 DEF LinkInvariant, Follows, HasHash

LEMMA LinkInit == Init => LinkInvariant
BY DEF Init, LinkInvariant, HasHash, Idle

LEMMA LinkNext == Numbered /\ LinkInvariant /\ [Next]_vars => LinkInvariant'
<1> SUFFICES ASSUME Numbered, LinkInvariant, [Next]_vars PROVE LinkInvariant'
  OBVIOUS
<1>1. TypeOK /\ clock \in Nat /\ \A b \in chain : b.at \in Nat /\ b.at <= clock
  BY DEF Numbered, TypeOK, Dated, Block, Instant
<1>2. ASSUME NEW w \in Workers, ReadLast(w)
      PROVE  LinkInvariant'
  <2> DEFINE h == IF chain = {} THEN Genesis ELSE Newest(chain).hash
             j == [pc |-> "hash", prev |-> h]
  <2>1. h \in Hash /\ Follows(h, clock + 1)
    BY <1>1, LastRead DEF Numbered, TypeOK, Block, Instant, Hash, Genesis, Follows
  <2>2. writer' = [writer EXCEPT ![w] = j] /\ chain' = chain /\ clock' = clock
    BY <1>2 DEF ReadLast
  <2> HIDE DEF h
  <2>3. j \in Writer /\ j.pc = "hash" /\ j.prev = h
    BY <2>1 DEF Writer, Linking
  <2> HIDE DEF j
  <2>4. QED
    BY <2>1, <2>2, <2>3, LinkWriter
<1>3. ASSUME NEW w \in Workers, HashBlock(w)
      PROVE  LinkInvariant'
  <2> DEFINE j == [pc |-> "flush", prev |-> writer[w].prev, hash |-> clock + 1]
  <2>1. writer' = [writer EXCEPT ![w] = j] /\ chain' = chain /\ clock' = clock + 1
    BY <1>3 DEF HashBlock
  <2>2. writer[w] \in Linking /\ Follows(writer[w].prev, clock + 1)
    BY <1>1, <1>3, WriterShape DEF HashBlock, LinkInvariant
  <2>3. j \in Writer /\ j.pc = "flush" /\ j.hash = clock + 1 /\ j.prev = writer[w].prev
    BY <1>1, <2>2 DEF Writer, Linking, Hashed, Instant
  <2> HIDE DEF j
  <2>4. j.hash \in Nat /\ Follows(j.prev, j.hash)
    BY <1>1, <2>2, <2>3
  <2>5. QED
    BY <2>1, <2>3, <2>4, LinkWriter
<1>4. ASSUME NEW w \in Workers, Flush(w)
      PROVE  LinkInvariant'
  <2> DEFINE j == [pc |-> "commit", prev |-> writer[w].prev,
                   hash |-> writer[w].hash, at |-> clock + 1]
  <2>1. writer' = [writer EXCEPT ![w] = j] /\ chain' = chain /\ clock' = clock + 1
    BY <1>4 DEF Flush
  <2>2. writer[w] \in Hashed /\ Follows(writer[w].prev, writer[w].hash)
    BY <1>1, <1>4, WriterShape DEF Flush, HasHash, LinkInvariant
  <2>3. /\ j \in Writer /\ j.pc = "commit" /\ j.hash = writer[w].hash
        /\ j.prev = writer[w].prev /\ j.hash \in Nat
    BY <1>1, <2>2 DEF Writer, Hashed, Flushed, Instant
  <2> HIDE DEF j
  <2>4. QED
    BY <1>1, <2>1, <2>2, <2>3, LinkWriter
<1>5. ASSUME NEW w \in Workers, Fail(w)
      PROVE  LinkInvariant'
  <2>1. writer' = [writer EXCEPT ![w] = Idle] /\ chain' = chain /\ clock' = clock
    BY <1>5 DEF Fail
  <2>2. Idle \in Writer /\ Idle.pc = "idle"
    BY DEF Writer, Idle
  <2>3. QED
    BY <2>1, <2>2, LinkWriter
<1>6. ASSUME NEW w \in Workers, Commit(w)
      PROVE  LinkInvariant'
  <2> DEFINE new == [prev |-> writer[w].prev, hash |-> writer[w].hash, at |-> writer[w].at]
  <2>1. HasHash(w) /\ new.hash = writer[w].hash /\ new.prev = writer[w].prev
    BY <1>6 DEF Commit, HasHash
  <2>2. chain' = chain \cup {new} /\ clock' = clock /\ writer' = [writer EXCEPT ![w] = Idle]
    BY <1>6 DEF Commit
  <2> HIDE DEF new
  <2>3. \A v \in Workers : writer'[v] = IF v = w THEN Idle ELSE writer[v]
    BY <1>1, <2>2 DEF TypeOK
  <2>4. QED
    BY <2>1, <2>2, <2>3 DEF LinkInvariant, Follows, HasHash, Idle
<1>7. CASE UNCHANGED vars
  BY <1>7 DEF vars, LinkInvariant, Follows, HasHash
<1>8. QED
  BY <1>2, <1>3, <1>4, <1>5, <1>6, <1>7 DEF Next

\* create_block without a lock, any number of workers: every link leads to an
\* older block that is in the table.
THEOREM LinksLeadBack == Spec => []LinksBackwards
<1>1. Spec => [](Numbered /\ LinkInvariant)
  BY NumberedInit, NumberedNext, LinkInit, LinkNext, PTL DEF Spec
<1>2. LinkInvariant => LinksBackwards
  BY DEF LinkInvariant, Follows, LinksBackwards
<1>3. QED
  BY <1>1, <1>2, PTL
-----------------------------------------------------------------------------
(* A single worker *)

\* What a lone writer has read is still the last block, and the block it is
\* about to commit is the latest.
UnbrokenInvariant ==
    Cardinality(Workers) = 1 =>
        /\ \A b \in chain : Linked(b)
        /\ \A w \in Workers :
             /\ writer[w] # Idle => writer[w].prev =
                  IF chain = {} THEN Genesis ELSE Newest(chain).hash
             /\ writer[w].pc = "commit" => \A b \in chain : b.at < writer[w].at

LEMMA UnbrokenNext == Numbered /\ UnbrokenInvariant /\ [Next]_vars => UnbrokenInvariant'
<1> SUFFICES ASSUME Numbered, UnbrokenInvariant, [Next]_vars, Cardinality(Workers) = 1
             PROVE  /\ \A b \in chain' : Linked(b)'
                    /\ \A w \in Workers :
                         /\ writer'[w] # Idle => writer'[w].prev =
                              IF chain' = {} THEN Genesis ELSE Newest(chain').hash
                         /\ writer'[w].pc = "commit" => \A b \in chain' : b.at < writer'[w].at
  BY DEF UnbrokenInvariant
<1> DEFINE Last == IF chain = {} THEN Genesis ELSE Newest(chain).hash
<1>1. /\ TypeOK /\ clock \in Nat
      /\ \A b \in chain : b.at \in Nat /\ b.at <= clock /\ Linked(b)
  BY DEF Numbered, TypeOK, Dated, Block, Instant, UnbrokenInvariant
<1>2. PICK w : Workers = {w}
  BY WorkersAssumption, FS_Singleton
<1>3. /\ writer[w] # Idle => writer[w].prev = Last
      /\ writer[w].pc = "commit" => \A b \in chain : b.at < writer[w].at
  BY <1>2 DEF UnbrokenInvariant
<1> HIDE DEF Last
<1>4. ASSUME chain' = chain,
             writer'[w] # Idle => writer'[w].prev = Last,
             writer'[w].pc = "commit" => \A b \in chain : b.at < writer'[w].at
      PROVE  /\ \A b \in chain' : Linked(b)'
             /\ writer'[w] # Idle => writer'[w].prev =
                  IF chain' = {} THEN Genesis ELSE Newest(chain').hash
             /\ writer'[w].pc = "commit" => \A b \in chain' : b.at < writer'[w].at
  BY <1>1, <1>4 DEF Linked, Earlier, Last
<1>5. CASE ReadLast(w)
  <2>1. writer'[w] = [pc |-> "hash", prev |-> Last] /\ chain' = chain
    BY <1>1, <1>2, <1>5 DEF ReadLast, TypeOK, Last
  <2>2. QED
    BY <1>2, <1>4, <2>1
<1>6. CASE HashBlock(w)
  <2>1. /\ writer'[w] = [pc |-> "flush", prev |-> writer[w].prev, hash |-> clock + 1]
        /\ chain' = chain /\ writer[w] # Idle
    BY <1>1, <1>2, <1>6 DEF HashBlock, TypeOK, Idle
  <2>2. QED
    BY <1>2, <1>3, <1>4, <2>1
<1>7. CASE Flush(w)
  <2>1. /\ writer'[w] = [pc |-> "commit", prev |-> writer[w].prev,
                          hash |-> writer[w].hash, at |-> clock + 1]
        /\ chain' = chain /\ writer[w] # Idle
    BY <1>1, <1>2, <1>7 DEF Flush, TypeOK, Idle
  <2>2. QED
    BY <1>1, <1>2, <1>3, <1>4, <2>1
<1>8. CASE Commit(w)
  <2>1. writer[w] \in Flushed /\ writer[w].pc = "commit" /\ writer[w] # Idle
    BY <1>1, <1>2, <1>8, WriterShape DEF Commit, Idle
  <2> PICK new : new = [prev |-> writer[w].prev, hash |-> writer[w].hash, at |-> writer[w].at]
    OBVIOUS
  <2>2. chain' = chain \cup {new} /\ writer'[w] = Idle
    BY <1>1, <1>2, <1>8 DEF Commit, TypeOK
  <2>3. new.at \in Nat /\ new.prev = Last /\ \A b \in chain : b.at < new.at
    BY <1>3, <2>1 DEF Flushed, Instant
  <2>4. Earlier(new)' = chain
    BY <1>1, <2>2, <2>3 DEF Earlier
  <2>5. \A b \in chain : Earlier(b)' = Earlier(b)
    BY <1>1, <2>2, <2>3 DEF Earlier
  <2>6. \A b \in chain' : Linked(b)'
    BY <1>1, <2>2, <2>3, <2>4, <2>5 DEF Linked, Last
  <2>7. QED
    BY <1>2, <2>2, <2>6 DEF Idle
<1>9. CASE Fail(w)
  <2>1. writer'[w] = Idle /\ Idle.pc = "idle" /\ chain' = chain
    BY <1>1, <1>2, <1>9 DEF Fail, TypeOK, Idle
  <2>2. QED
    BY <1>2, <1>4, <2>1
<1>10. CASE UNCHANGED vars
  BY <1>2, <1>3, <1>4, <1>10 DEF vars
<1>11. QED
  BY <1>2, <1>5, <1>6, <1>7, <1>8, <1>9, <1>10 DEF Next

\* With one worker the blocks form a single chain in timestamp order, whatever
\* creations fail or are cut off: verify_chain finds every link intact.
THEOREM LoneWriterNeverBreaks == Spec => []LinksUnbroken
<1>1. Init => UnbrokenInvariant
  BY DEF Init, UnbrokenInvariant, Idle
<1>2. UnbrokenInvariant => LinksUnbroken
  BY DEF UnbrokenInvariant, LinksUnbroken
<1>3. QED
  BY <1>1, <1>2, NumberedInit, NumberedNext, UnbrokenNext, PTL DEF Spec
-----------------------------------------------------------------------------
(* Forks *)

Branches(h) == {b \in chain : b.prev = h}
Pending(h) == {w \in Workers : writer[w] # Idle /\ writer[w].prev = h}

\* A branch and a writer that will make one count alike.  ForkBounded alone is
\* not inductive: nothing would stop all workers from adding to a full fork.
ForkInvariant ==
    \A h \in Hash :
        /\ IsFiniteSet(Branches(h))
        /\ Cardinality(Branches(h)) + Cardinality(Pending(h)) <= Cardinality(Workers)

\* Only a block nothing continues yet is found: what continues it is later.
LEMMA LastIsUnbranched ==
    ASSUME Numbered, LinkInvariant, NEW h,
           h = IF chain = {} THEN Genesis ELSE Newest(chain).hash
    PROVE  Branches(h) = {}
<1> SUFFICES ASSUME NEW b \in chain, b.prev = h
             PROVE  FALSE
  BY DEF Branches
<1>1. /\ Newest(chain) \in chain /\ \A c \in chain : c.at <= Newest(chain).at
      /\ h = Newest(chain).hash
  BY LastRead
<1>2. \A c \in chain : c.hash \in Nat \ {0} /\ c.at \in Nat /\ c.hash < c.at
  BY DEF Numbered, TypeOK, Dated, Block, Instant
<1>3. PICK c \in chain : c.hash = h /\ c.at < b.hash
  BY <1>1, <1>2 DEF LinkInvariant, Follows, Genesis
<1>4. c = Newest(chain)
  BY <1>1, <1>3 DEF Numbered, HashesDiffer
<1>5. QED
  BY <1>1, <1>2, <1>3, <1>4

LEMMA PendingFinite ==
    ASSUME NEW h
    PROVE  /\ IsFiniteSet(Pending(h)) /\ IsFiniteSet(Workers)
           /\ Cardinality(Pending(h)) \in Nat /\ Cardinality(Workers) \in Nat
           /\ Cardinality(Pending(h)) <= Cardinality(Workers)
BY WorkersAssumption, FS_Subset, FS_CardinalityType, Pending(h) \subseteq Workers DEF Pending

LEMMA PendingFiniteNext ==
    ASSUME NEW h
    PROVE  /\ IsFiniteSet(Pending(h)') /\ Cardinality(Pending(h)') \in Nat
           /\ Cardinality(Pending(h)') <= Cardinality(Workers)
<1>1. Pending(h)' \subseteq Workers
  BY DEF Pending
<1>2. QED
  BY <1>1, WorkersAssumption, FS_Subset, FS_CardinalityType

\* A step that makes no block and whose new writers, if any, continue a block
\* without branches.
LEMMA ForkWriter ==
    ASSUME ForkInvariant, chain' = chain,
           \A h \in Hash : Pending(h)' \subseteq Pending(h) \/ Branches(h) = {}
    PROVE  ForkInvariant'
<1> SUFFICES ASSUME NEW h \in Hash
             PROVE  /\ IsFiniteSet(Branches(h)')
                    /\ Cardinality(Branches(h)') + Cardinality(Pending(h)') <= Cardinality(Workers)
  BY DEF ForkInvariant
<1>1. Branches(h)' = Branches(h) /\ IsFiniteSet(Branches(h)) /\ Cardinality(Branches(h)) \in Nat
  BY FS_CardinalityType DEF Branches, ForkInvariant
<1>2. CASE Branches(h) = {}
  BY <1>1, <1>2, FS_EmptySet, PendingFinite, PendingFiniteNext
<1>3. CASE Pending(h)' \subseteq Pending(h)
  <2>1. Cardinality(Pending(h)') <= Cardinality(Pending(h))
    BY <1>3, FS_Subset, PendingFinite
  <2>2. QED
    BY <1>1, <2>1, PendingFinite, PendingFiniteNext DEF ForkInvariant
<1>4. QED
  BY <1>2, <1>3

LEMMA ForkInit == Init => ForkInvariant
<1> SUFFICES ASSUME Init, NEW h \in Hash
             PROVE  /\ IsFiniteSet(Branches(h))
                    /\ Cardinality(Branches(h)) + Cardinality(Pending(h)) <= Cardinality(Workers)
  BY DEF ForkInvariant
<1>1. Branches(h) = {}
  BY DEF Init, Branches
<1>2. QED
  BY <1>1, FS_EmptySet, PendingFinite

LEMMA ForkNext == Numbered /\ LinkInvariant /\ ForkInvariant /\ [Next]_vars => ForkInvariant'
<1> SUFFICES ASSUME Numbered, LinkInvariant, ForkInvariant, [Next]_vars PROVE ForkInvariant'
  OBVIOUS
<1>1. TypeOK
  BY DEF Numbered
<1>2. ASSUME NEW w \in Workers, ReadLast(w)
      PROVE  ForkInvariant'
  <2> PICK g : g = IF chain = {} THEN Genesis ELSE Newest(chain).hash
    OBVIOUS
  <2>1. /\ writer'[w].prev = g
        /\ \A v \in Workers \ {w} : writer'[v] = writer[v]
    BY <1>1, <1>2 DEF ReadLast, TypeOK
  <2>2. Branches(g) = {}
    BY LastIsUnbranched
  <2>3. \A h \in Hash : h = g \/ Pending(h)' \subseteq Pending(h)
    BY <2>1 DEF Pending
  <2>4. QED
    BY <1>2, <2>2, <2>3, ForkWriter DEF ReadLast
<1>3. ASSUME NEW w \in Workers, HashBlock(w) \/ Flush(w) \/ Fail(w)
      PROVE  ForkInvariant'
  <2>1. \A v \in Workers : writer'[v] # Idle =>
          writer[v] # Idle /\ writer'[v].prev = writer[v].prev
    BY <1>1, <1>3 DEF HashBlock, Flush, Fail, TypeOK, Idle
  <2>2. \A h \in Hash : Pending(h)' \subseteq Pending(h)
    BY <2>1 DEF Pending
  <2>3. QED
    BY <1>3, <2>2, ForkWriter DEF HashBlock, Flush, Fail
<1>4. ASSUME NEW w \in Workers, Commit(w), NEW h \in Hash
      PROVE  /\ IsFiniteSet(Branches(h)')
             /\ Cardinality(Branches(h)') + Cardinality(Pending(h)') <= Cardinality(Workers)
  <2> PICK new : new = [prev |-> writer[w].prev, hash |-> writer[w].hash, at |-> writer[w].at]
    OBVIOUS
  <2>1. new.prev = writer[w].prev /\ chain' = chain \cup {new}
    BY <1>4 DEF Commit
  <2>2. \A v \in Workers : writer'[v] = IF v = w THEN Idle ELSE writer[v]
    BY <1>1, <1>4 DEF Commit, TypeOK
  <2>3. writer[w] # Idle
    BY <1>4 DEF Commit, Idle
  <2>4. /\ IsFiniteSet(Branches(h)) /\ Cardinality(Branches(h)) \in Nat
        /\ Cardinality(Branches(h)) + Cardinality(Pending(h)) <= Cardinality(Workers)
    BY FS_CardinalityType DEF ForkInvariant
  <2>5. CASE writer[w].prev = h
    <3>1. Branches(h)' = Branches(h) \cup {new} /\ Pending(h)' = Pending(h) \ {w}
      BY <2>1, <2>2, <2>5 DEF Branches, Pending
    <3>2. w \in Pending(h)
      BY <2>3, <2>5 DEF Pending
    <3>3. Cardinality(Pending(h)') = Cardinality(Pending(h)) - 1
      BY <3>1, <3>2, FS_RemoveElement, PendingFinite
    <3>4. /\ IsFiniteSet(Branches(h) \cup {new})
          /\ \/ Cardinality(Branches(h) \cup {new}) = Cardinality(Branches(h))
             \/ Cardinality(Branches(h) \cup {new}) = Cardinality(Branches(h)) + 1
      BY <2>4, FS_AddElement, Zenon
    <3>5. QED
      BY <2>4, <3>1, <3>3, <3>4, PendingFinite
  <2>6. CASE writer[w].prev # h
    <3>1. Branches(h)' = Branches(h) /\ Pending(h)' = Pending(h)
      BY <2>1, <2>2, <2>6 DEF Branches, Pending
    <3>2. QED
      BY <2>4, <3>1
  <2>7. QED
    BY <2>5, <2>6
<1>5. CASE UNCHANGED vars
  BY <1>5 DEF vars, ForkInvariant, Branches, Pending
<1>6. QED
  BY <1>2, <1>3, <1>4, <1>5 DEF Next, ForkInvariant

\* Nothing locks the table, yet a block has at most one successor for each
\* worker: once a successor is committed no one reads that block as the last.
THEOREM ForksAreNarrow == Spec => []ForkBounded
<1>1. Spec => [](Numbered /\ ForkInvariant)
  BY NumberedInit, NumberedNext, LinkInit, LinkNext, ForkInit, ForkNext, PTL DEF Spec
<1>2. ASSUME Numbered, ForkInvariant, NEW h \in {b.prev : b \in chain}
      PROVE  Cardinality({b \in chain : b.prev = h}) <= Cardinality(Workers)
  <2>1. h \in Hash
    BY <1>2 DEF Numbered, TypeOK, Block
  <2>2. IsFiniteSet(Branches(h)) /\ Cardinality(Branches(h)) \in Nat
    BY <1>2, <2>1, FS_CardinalityType DEF ForkInvariant
  <2>3. Cardinality(Branches(h)) <= Cardinality(Workers)
    BY <1>2, <2>1, <2>2, PendingFinite DEF ForkInvariant
  <2>4. QED
    BY <2>3 DEF Branches
<1>3. Numbered /\ ForkInvariant => ForkBounded
  BY <1>2 DEF ForkBounded
<1>4. QED
  BY <1>1, <1>3, PTL
-----------------------------------------------------------------------------
(* The chain implements the ledger *)

\* The ledger counts as the chain does.
LEMMA SameCount == \A S : Ledger!Cardinality(S) = Cardinality(S)
BY DEF Ledger!Cardinality, Cardinality

\* A commit appends one block to the ledger.
LEMMA CommitAppends ==
    ASSUME Numbered, LinkInvariant, ForkInvariant, NEW w \in Workers, Commit(w)
    PROVE  Ledger!Append
<1> PICK new : new = [prev |-> writer[w].prev, hash |-> writer[w].hash, at |-> writer[w].at]
  OBVIOUS
<1>1. /\ chain' = chain \cup {new}
      /\ new.prev = writer[w].prev /\ new.hash = writer[w].hash /\ new.at = writer[w].at
      /\ HasHash(w) /\ writer[w] \in Flushed
  BY WriterShape DEF Commit, HasHash, Numbered
<1>2. \A c \in chain : c.hash # new.hash /\ c.at # new.at
  BY <1>1 DEF Numbered, HashesDiffer, DatesDiffer, Commit
<1>3. new \in chain' \ chain
  BY <1>1, <1>2
<1>4. Ledger!Continues(new)
  BY <1>1 DEF LinkInvariant, Follows, Ledger!Continues
<1>5. Cardinality({c \in chain : c.prev = new.prev}) < Cardinality(Workers)
  <2>1. new.prev \in Hash /\ w \in Pending(new.prev)
    BY <1>1 DEF Flushed, Pending, Commit, Idle
  <2>2. /\ IsFiniteSet(Branches(new.prev))
        /\ Cardinality(Branches(new.prev)) + Cardinality(Pending(new.prev)) <= Cardinality(Workers)
    BY <2>1 DEF ForkInvariant
  <2>3. Cardinality(Pending(new.prev)) # 0
    BY <2>1, PendingFinite, FS_EmptySet
  <2>4. Cardinality(Branches(new.prev)) \in Nat
    BY <2>2, FS_CardinalityType
  <2>5. QED
    BY <2>2, <2>3, <2>4, PendingFinite DEF Branches
<1>6. QED
  BY <1>1, <1>2, <1>3, <1>4, <1>5, SameCount DEF Ledger!Append

\* Without a lock, with any number of workers and failures, the table is the
\* append-only tree AuditLedger promises: steps of create_block before its commit
\* and creations that fail are invisible in it.
THEOREM ChainImplementsLedger == Spec => ChainIsLedger
<1>1. Init => Ledger!Init
  BY DEF Init, Ledger!Init
<1>2. Numbered /\ LinkInvariant /\ ForkInvariant /\ [Next]_vars => [Ledger!Append]_chain
  <2> SUFFICES ASSUME Numbered, LinkInvariant, ForkInvariant, [Next]_vars
               PROVE  Ledger!Append \/ chain' = chain
    OBVIOUS
  <2>1. CASE \E w \in Workers : Commit(w)
    BY <2>1, CommitAppends
  <2>2. CASE \E w \in Workers : ReadLast(w) \/ HashBlock(w) \/ Flush(w) \/ Fail(w)
    BY <2>2 DEF ReadLast, HashBlock, Flush, Fail
  <2>3. QED
    BY <2>1, <2>2 DEF Next, vars
<1>3. Spec => [](Numbered /\ LinkInvariant /\ ForkInvariant)
  BY NumberedInit, NumberedNext, LinkInit, LinkNext, ForkInit, ForkNext, PTL DEF Spec
<1>4. QED
  BY <1>1, <1>2, <1>3, PTL DEF Spec, ChainIsLedger, Ledger!Spec

\* The ledger promises enough: whoever trusts it need not look at create_block to
\* know that links lead back and that forks are narrow.
THEOREM LedgerSuffices == ChainIsLedger => [](LinksBackwards /\ ForkBounded)
<1> DEFINE Inv == IsFiniteSet(chain) /\ LinksBackwards /\ ForkBounded
<1>1. Ledger!Init => Inv
  BY FS_EmptySet DEF Ledger!Init, LinksBackwards, ForkBounded
<1>2. Inv /\ [Ledger!Append]_chain => Inv'
  <2> SUFFICES ASSUME Inv, Ledger!Append PROVE Inv'
    BY DEF LinksBackwards, ForkBounded
  <2>1. PICK b \in chain' \ chain :
          /\ chain' = chain \cup {b}
          /\ Ledger!Continues(b)
          /\ Cardinality({c \in chain : c.prev = b.prev}) < Cardinality(Workers)
    BY SameCount DEF Ledger!Append
  <2>2. IsFiniteSet(chain')
    BY <2>1, FS_AddElement
  <2>3. LinksBackwards'
    BY <2>1 DEF LinksBackwards, Ledger!Continues
  <2>4. ASSUME NEW h \in {c.prev : c \in chain'}
        PROVE  Cardinality({c \in chain' : c.prev = h}) <= Cardinality(Workers)
    <3>1. CASE h = b.prev
      <4>1. PICK B : B = {c \in chain : c.prev = b.prev}
        OBVIOUS
      <4>2. {c \in chain' : c.prev = h} = B \cup {b} /\ b \notin B
        BY <2>1, <3>1, <4>1
      <4>3. IsFiniteSet(B) /\ Cardinality(B) < Cardinality(Workers)
        BY <2>1, <4>1, FS_Subset
      <4>4. Cardinality(B \cup {b}) = Cardinality(B) + 1
        BY <4>2, <4>3, FS_AddElement
      <4>5. Cardinality(B) \in Nat /\ Cardinality(Workers) \in Nat
        BY <4>3, FS_CardinalityType, WorkersAssumption
      <4>6. Cardinality(B \cup {b}) <= Cardinality(Workers)
        BY <4>3, <4>4, <4>5
      <4>7. QED
        BY <4>2, <4>6, Zenon
    <3>2. CASE h # b.prev
      <4>1. {c \in chain' : c.prev = h} = {c \in chain : c.prev = h}
        BY <2>1, <3>2
      <4>2. h \in {c.prev : c \in chain}
        BY <2>1, <3>2
      <4>3. QED
        BY <4>1, <4>2 DEF ForkBounded
    <3>3. QED
      BY <3>1, <3>2
  <2>5. QED
    BY <2>2, <2>3, <2>4 DEF ForkBounded
<1>3. Inv => LinksBackwards /\ ForkBounded
  OBVIOUS
<1>4. QED
  BY <1>1, <1>2, <1>3, PTL DEF ChainIsLedger, Ledger!Spec
-----------------------------------------------------------------------------
(* The verifier *)

\* blockchain_simulator.py:86-89: not only may verify_chain refuse a chain, it
\* refuses every block that was ever written, whatever the number of workers,
\* because the instant hashed is always older than the instant stored.
THEOREM NoBlockVerifies ==
    Spec => [](/\ \A b \in chain : b.hash # Recomputed(b)
               /\ verify_chain => chain = {})
<1>1. Numbered => /\ \A b \in chain : b.hash # Recomputed(b)
                  /\ verify_chain => chain = {}
  BY DEF Numbered, Dated, TypeOK, Block, Instant, Recomputed, verify_chain
<1>2. Spec => []Numbered
  BY NumberedInit, NumberedNext, PTL DEF Spec
<1>3. QED
  BY <1>1, <1>2, PTL
=============================================================================
