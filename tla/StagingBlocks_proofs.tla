------------------------ MODULE StagingBlocks_proofs ------------------------
(***************************************************************************)
(* The order of the durable writes of process_next_staging_block keeps the *)
(* stores consistent, for every tree of blocks and however often the node  *)
(* stops between two of them.                                              *)
(***************************************************************************)
EXTENDS StagingBlocks, TLAPS

-----------------------------------------------------------------------------
(***************************************************************************)
(* The steps.                                                              *)
(***************************************************************************)

\* An empty chain state satisfies the inductive invariant.
LEMMA InitInv == Init => IndInv
BY DEF Init, IndInv, TypeOK, Idle, HeadersBacked, ProcessedAccepted, IndexInherits, WrittenSoFar

\* What is said of the headers database and the queue does not look at the
\* call in progress, and an ended call leaves nothing to be said.
LEMMA CallEnds ==
    ASSUME IndInv, UNCHANGED <<staging_blocks, block_headers, headers_index, clarity_state>>,
           running' \in {Idle, [step |-> "panic_tip"], [step |-> "panic_stream"],
                         [step |-> "partial_write"]}
    PROVE  IndInv'
<1>1. running'.step \in {"idle", "panic_tip", "panic_stream", "partial_write"}
    BY DEF Idle
<1>2. TypeOK'
    BY DEF IndInv, TypeOK
<1>3. HeadersBacked' /\ ProcessedAccepted' /\ IndexInherits'
    BY DEF IndInv, HeadersBacked, ProcessedAccepted, IndexInherits
<1>4. WrittenSoFar'
    BY <1>1 DEF WrittenSoFar
<1>. QED BY <1>2, <1>3, <1>4 DEF IndInv

\* SetChildren changes no processed flag.
LEMMA ChildrenKeepProcessed ==
    ASSUME NEW rows, NEW b, NEW a \in BOOLEAN, \A e \in DOMAIN rows : rows[e] \in Row
    PROVE  /\ DOMAIN SetChildren(rows, b, a) = DOMAIN rows
           /\ \A e \in DOMAIN rows : /\ SetChildren(rows, b, a)[e] \in Row
                                     /\ SetChildren(rows, b, a)[e].processed = rows[e].processed
BY DEF SetChildren, Row

\* preprocess_anchored_block renames a file and then adds a row that is not
\* processed; nothing else of the queue becomes processed.
LEMMA ArrivalInv ==
    ASSUME IndInv, (\E e \in Entry : PreprocessAnchoredBlock(e)) \/ CommitAnchoredBlock
    PROVE  IndInv'
<1>1. CASE \E e \in Entry : PreprocessAnchoredBlock(e)
  <2>1. PICK e \in Entry : PreprocessAnchoredBlock(e)
    BY <1>1
  <2>2. /\ running' = [step |-> "store", entry |-> e] /\ staging_blocks' = staging_blocks
        /\ block_headers' = block_headers /\ headers_index' = headers_index /\ clarity_state' = clarity_state
    BY <2>1 DEF PreprocessAnchoredBlock, blocks_db, headers_db
  <2>3. TypeOK'
    BY <2>2 DEF IndInv, TypeOK
  <2>. QED BY <2>2, <2>3 DEF IndInv, HeadersBacked, ProcessedAccepted, IndexInherits, WrittenSoFar
<1>2. CASE CommitAnchoredBlock
  <2> DEFINE e == running.entry
             row == [attacheable |-> ~HasStagingBlock(ParentOf(e)), processed |-> FALSE]
             rows == [x \in DOMAIN staging_blocks \cup {e} |-> IF x = e THEN row ELSE staging_blocks[x]]
  <2>1. e \in Entry
    BY <1>2 DEF CommitAnchoredBlock, IndInv, TypeOK, Idle
  <2>2. /\ running' = Idle /\ staging_blocks' = SetChildren(rows, BlockOf(e), FALSE)
        /\ block_headers' = block_headers /\ headers_index' = headers_index /\ clarity_state' = clarity_state
    BY <1>2 DEF CommitAnchoredBlock, StoreStagingBlock, headers_db
  <2>3. /\ DOMAIN rows = DOMAIN staging_blocks \cup {e}
        /\ \A x \in DOMAIN rows : rows[x] \in Row /\ (rows[x].processed => x \in block_headers)
    BY DEF IndInv, TypeOK, ProcessedAccepted, Row, HasStagingBlock
  <2> HIDE DEF rows
  <2>4. /\ DOMAIN staging_blocks' = DOMAIN staging_blocks \cup {e}
        /\ \A x \in DOMAIN staging_blocks' :
              staging_blocks'[x] \in Row /\ (staging_blocks'[x].processed => x \in block_headers)
    <3>1. \A x \in DOMAIN rows : rows[x] \in Row
        BY <2>3
    <3>2. /\ DOMAIN SetChildren(rows, BlockOf(e), FALSE) = DOMAIN rows
          /\ \A x \in DOMAIN rows :
                /\ SetChildren(rows, BlockOf(e), FALSE)[x] \in Row
                /\ SetChildren(rows, BlockOf(e), FALSE)[x].processed = rows[x].processed
        BY <3>1, ChildrenKeepProcessed, Zenon
    <3>. QED BY <3>2, <2>2, <2>3, Zenon
  <2>5. TypeOK' /\ ProcessedAccepted'
    BY <2>1, <2>2, <2>4, Zenon DEF IndInv, TypeOK, ProcessedAccepted
  <2>6. HeadersBacked' /\ IndexInherits'
    BY <2>2 DEF IndInv, HeadersBacked, IndexInherits
  <2>7. WrittenSoFar'
    BY <2>2 DEF WrittenSoFar, Idle
  <2>. QED BY <2>5, <2>6, <2>7 DEF IndInv
<1>. QED BY <1>1, <1>2

\* append_block starts from a queued block whose parent is accepted and whose
\* key the parent's trie does not have.
LEMMA AppendInv ==
    ASSUME IndInv, NEW e \in Entry, AppendBlock(e)
    PROVE  IndInv'
<1>1. PICK ms \in Processable(e) :
         running' = [step |-> "tip", entry |-> e, stream |-> Confirmed(BlockOf(e), ms)]
    BY DEF AppendBlock
<1>2. /\ e \in DOMAIN staging_blocks /\ (IsGenesis(e) \/ ParentOf(e) \in block_headers)
      /\ ~PubkeyHashSeen(e)
    BY <1>1 DEF AppendBlock, Processable, Candidate, HasStagingBlock
<1>3. /\ clarity_state' = clarity_state \cup {e} /\ staging_blocks' = staging_blocks
      /\ block_headers' = block_headers /\ headers_index' = headers_index
    BY DEF AppendBlock, blocks_db
<1>4. /\ running'.step = "tip" /\ running'.entry = e
      /\ running' = [step |-> running'.step, entry |-> running'.entry, stream |-> running'.stream]
    BY <1>1
<1>5. TypeOK'
    BY <1>2, <1>3, <1>4 DEF IndInv, TypeOK
<1>6. HeadersBacked' /\ ProcessedAccepted' /\ IndexInherits'
    BY <1>3 DEF IndInv, HeadersBacked, ProcessedAccepted, IndexInherits
<1>7. WrittenSoFar'
    BY <1>2, <1>3, <1>4 DEF WrittenSoFar, PubkeyHashSeen
<1>. QED BY <1>5, <1>6, <1>7 DEF IndInv

\* advance_tip: the new trie has the key of the block, and unless it is put on
\* the sentinel it extends the parent's, which lacks that key; no entry below it
\* had a trie before.
LEMMA TipInv ==
    ASSUME IndInv, AdvanceTip
    PROVE  IndInv'
<1> DEFINE e == running.entry
           key == PubkeyHash[BlockOf(e)]
<1>1. CASE e \in DOMAIN headers_index \/ TrieToExtend(e) = {}
    BY <1>1, CallEnds DEF AdvanceTip, blocks_db
<1>2. ASSUME e \notin DOMAIN headers_index, TrieToExtend(e) # {}
      PROVE  IndInv'
  <2>1. /\ running.step = "tip" /\ e \in DOMAIN staging_blocks /\ e \in Entry
        /\ running = [step |-> running.step, entry |-> e, stream |-> running.stream]
        /\ e \in clarity_state /\ (IsGenesis(e) \/ ParentOf(e) \in block_headers)
        /\ ~PubkeyHashSeen(e)
    BY DEF AdvanceTip, IndInv, TypeOK, Idle, WrittenSoFar
  <2>2. PICK keys \in TrieToExtend(e) :
           /\ headers_index' = [x \in DOMAIN headers_index \cup {e} |->
                                  IF x = e THEN keys \cup {key} ELSE headers_index[x]]
           /\ running' = [running EXCEPT !.step = AfterTip(running.stream)]
    BY <1>2 DEF AdvanceTip
  <2>3. /\ staging_blocks' = staging_blocks /\ block_headers' = block_headers
        /\ clarity_state' = clarity_state
    BY DEF AdvanceTip, blocks_db
  <2>4. /\ DOMAIN headers_index' = DOMAIN headers_index \cup {e}
        /\ headers_index'[e] = keys \cup {key}
        /\ \A x \in DOMAIN headers_index : headers_index'[x] = headers_index[x]
    BY <1>2, <2>2
  <2>5. /\ running'.step \in {"confirm", "headers"} /\ running'.entry = e
        /\ running' = [step |-> running'.step, entry |-> running'.entry, stream |-> running'.stream]
    BY <2>1, <2>2 DEF AfterTip
  <2>6. ~AtSentinel(e) => /\ ParentOf(e) \in DOMAIN headers_index
                          /\ key \notin headers_index[ParentOf(e)]
                          /\ keys = headers_index[ParentOf(e)]
    BY <2>1, <2>2 DEF IndInv, HeadersBacked, PubkeyHashSeen, AtSentinel, TrieToExtend
  <2>7. TypeOK'
    BY <2>1, <2>3, <2>4, <2>5, SMTT(20) DEF IndInv, TypeOK
  <2>8. HeadersBacked' /\ ProcessedAccepted'
    BY <2>3, <2>4 DEF IndInv, HeadersBacked, ProcessedAccepted
  <2>9. IndexInherits'
    <3>1. ASSUME NEW x \in DOMAIN headers_index
          PROVE  /\ PubkeyHash[BlockOf(x)] \in headers_index'[x]
                 /\ ~AtSentinel(x) => /\ ParentOf(x) \in DOMAIN headers_index'
                                      /\ PubkeyHash[BlockOf(x)] \notin headers_index'[ParentOf(x)]
                                      /\ headers_index'[ParentOf(x)] \subseteq headers_index'[x]
        BY <2>4 DEF IndInv, IndexInherits
    <3>2. /\ key \in headers_index'[e]
          /\ ~AtSentinel(e) => /\ ParentOf(e) \in DOMAIN headers_index'
                               /\ key \notin headers_index'[ParentOf(e)]
                               /\ headers_index'[ParentOf(e)] \subseteq headers_index'[e]
        BY <2>4, <2>6
    <3> HIDE DEF e
    <3>. QED BY <3>1, <3>2, <2>4 DEF IndexInherits
  <2>10. WrittenSoFar'
    BY <2>1, <2>3, <2>4, <2>5, SMTT(20) DEF WrittenSoFar
  <2>. QED BY <2>7, <2>8, <2>9, <2>10, SMTT(20) DEF IndInv
<1>. QED BY <1>1, <1>2

\* set_microblocks_confirmed writes only to the chunk store.
LEMMA ConfirmInv ==
    ASSUME IndInv, SetMicroblocksConfirmed
    PROVE  IndInv'
<1>1. /\ running.step = "confirm"
      /\ UNCHANGED <<staging_blocks, block_headers, headers_index, clarity_state>>
      /\ \/ running' \in {Idle, [step |-> "panic_stream"]}
         \/ \E ms : running' = [step |-> "headers", entry |-> running.entry, stream |-> ms]
    BY Zenon DEF SetMicroblocksConfirmed, blocks_db, headers_db
<1>2. CASE running' \in {Idle, [step |-> "panic_stream"]}
    BY <1>1, <1>2, CallEnds
<1>3. ASSUME NEW ms, running' = [step |-> "headers", entry |-> running.entry, stream |-> ms]
      PROVE  IndInv'
  <2>1. /\ staging_blocks' = staging_blocks /\ block_headers' = block_headers
        /\ headers_index' = headers_index /\ clarity_state' = clarity_state
    BY <1>1
  <2>2. /\ running = [step |-> running.step, entry |-> running.entry, stream |-> running.stream]
        /\ running.entry \in DOMAIN staging_blocks
    BY <1>1 DEF IndInv, TypeOK, Idle
  <2>3. /\ running'.step = "headers" /\ running'.entry = running.entry
        /\ running' = [step |-> running'.step, entry |-> running'.entry, stream |-> running'.stream]
    BY <1>3, <2>2
  <2>4. TypeOK'
    BY <2>1, <2>2, <2>3 DEF IndInv, TypeOK
  <2>5. HeadersBacked' /\ ProcessedAccepted' /\ IndexInherits'
    BY <2>1 DEF IndInv, HeadersBacked, ProcessedAccepted, IndexInherits
  <2>6. WrittenSoFar'
    BY <1>1, <2>1, <2>3, SMTT(20) DEF IndInv, WrittenSoFar
  <2>. QED BY <2>4, <2>5, <2>6 DEF IndInv
<1>. QED BY <1>1, <1>2, <1>3, SMTT(20)

\* The headers transaction commits when the state and the trie are there.
LEMMA HeadersInv ==
    ASSUME IndInv, CommitHeaders
    PROVE  IndInv'
<1> DEFINE e == running.entry
<1>1. /\ running.step = "headers" /\ running' = [running EXCEPT !.step = "blocks"]
      /\ block_headers' = block_headers \cup {e} /\ staging_blocks' = staging_blocks
      /\ headers_index' = headers_index /\ clarity_state' = clarity_state
    BY DEF CommitHeaders, blocks_db
<1>2. /\ running = [step |-> running.step, entry |-> e, stream |-> running.stream]
      /\ e \in DOMAIN staging_blocks /\ e \in Entry
    BY <1>1 DEF IndInv, TypeOK, Idle
<1>3. /\ e \in clarity_state /\ (IsGenesis(e) \/ ParentOf(e) \in block_headers)
      /\ e \in DOMAIN headers_index
    BY <1>1 DEF IndInv, WrittenSoFar
<1>4. /\ running'.step = "blocks" /\ running'.entry = e
      /\ running' = [step |-> running'.step, entry |-> running'.entry, stream |-> running'.stream]
    BY <1>1, <1>2
<1> HIDE DEF e
<1>5. TypeOK'
    BY <1>1, <1>2, <1>4 DEF IndInv, TypeOK
<1>6. HeadersBacked' /\ ProcessedAccepted' /\ IndexInherits'
    BY <1>1, <1>3 DEF IndInv, HeadersBacked, ProcessedAccepted, IndexInherits
<1>7. WrittenSoFar'
    BY <1>1, <1>3, <1>4 DEF WrittenSoFar
<1>. QED BY <1>5, <1>6, <1>7 DEF IndInv

\* The blocks transaction, which commits second, marks the row of a block
\* whose header is durable.
LEMMA BlocksInv ==
    ASSUME IndInv, CommitBlocks
    PROVE  IndInv'
<1> DEFINE e == running.entry
           rows == [staging_blocks EXCEPT ![e].processed = TRUE]
<1>1. /\ running.step = "blocks" /\ running' = Idle
      /\ staging_blocks' = SetChildren(rows, BlockOf(e), TRUE)
      /\ block_headers' = block_headers /\ headers_index' = headers_index /\ clarity_state' = clarity_state
    BY DEF CommitBlocks, headers_db
<1>2. e \in block_headers
    BY <1>1 DEF IndInv, WrittenSoFar
<1>3. /\ DOMAIN rows = DOMAIN staging_blocks
      /\ \A x \in DOMAIN rows : rows[x] \in Row /\ (rows[x].processed => x \in block_headers)
    BY <1>2, Zenon DEF IndInv, TypeOK, ProcessedAccepted, Row
<1> HIDE DEF rows
<1>4. /\ DOMAIN staging_blocks' = DOMAIN staging_blocks
      /\ \A x \in DOMAIN staging_blocks' :
            staging_blocks'[x] \in Row /\ (staging_blocks'[x].processed => x \in block_headers)
  <2>1. \A x \in DOMAIN rows : rows[x] \in Row
    BY <1>3
  <2>2. /\ DOMAIN SetChildren(rows, BlockOf(e), TRUE) = DOMAIN rows
        /\ \A x \in DOMAIN rows :
              /\ SetChildren(rows, BlockOf(e), TRUE)[x] \in Row
              /\ SetChildren(rows, BlockOf(e), TRUE)[x].processed = rows[x].processed
    BY <2>1, ChildrenKeepProcessed, Zenon
  <2>. QED BY <2>2, <1>1, <1>3, Zenon
<1>5. TypeOK' /\ ProcessedAccepted'
    BY <1>1, <1>4, Zenon DEF IndInv, TypeOK, ProcessedAccepted
<1>6. HeadersBacked' /\ IndexInherits'
    BY <1>1 DEF IndInv, HeadersBacked, IndexInherits
<1>7. WrittenSoFar'
    BY <1>1 DEF WrittenSoFar, Idle
<1>. QED BY <1>5, <1>6, <1>7 DEF IndInv

\* The other operations write no row, no header and no state.
LEMMA FrameInv ==
    ASSUME IndInv, UNCHANGED <<staging_blocks, headers_db, running>>
    PROVE  IndInv'
<1>1. /\ staging_blocks' = staging_blocks /\ block_headers' = block_headers
      /\ headers_index' = headers_index /\ clarity_state' = clarity_state /\ running' = running
    BY DEF headers_db
<1>2. TypeOK' /\ HeadersBacked' /\ ProcessedAccepted'
    BY <1>1 DEF IndInv, TypeOK, HeadersBacked, ProcessedAccepted
<1>3. IndexInherits' /\ WrittenSoFar'
    BY <1>1 DEF IndInv, IndexInherits, WrittenSoFar, PubkeyHashSeen
<1>. QED BY <1>2, <1>3 DEF IndInv

\* Every step of the chain state preserves the inductive invariant.
LEMMA NextInv == IndInv /\ [Next]_vars => IndInv'
<1> SUFFICES ASSUME IndInv, [Next]_vars
             PROVE  IndInv'
    OBVIOUS
<1>1. CASE (\E e \in Entry : PreprocessAnchoredBlock(e)) \/ CommitAnchoredBlock
    BY <1>1, ArrivalInv
<1>2. CASE \E e \in Entry, m \in Microblock : PreprocessStreamedMicroblock(e, m)
    BY <1>2, FrameInv DEF PreprocessStreamedMicroblock
<1>3. CASE \E e \in Entry : AppendBlock(e)
    BY <1>3, AppendInv
<1>4. CASE \E e \in Entry : RejectBlock(e)
    BY <1>4, FrameInv DEF RejectBlock, blocks_db
<1>5. CASE AdvanceTip \/ SetMicroblocksConfirmed \/ CommitHeaders \/ CommitBlocks
    BY <1>5, TipInv, ConfirmInv, HeadersInv, BlocksInv, SMTT(20)
<1>6. CASE Crash \/ Restart
    BY <1>6, CallEnds DEF Crash, Restart, blocks_db
<1>7. CASE UNCHANGED vars
    BY <1>7, FrameInv DEF vars, headers_db
<1>. QED BY <1>1, <1>2, <1>3, <1>4, <1>5, <1>6, <1>7, SMTT(20) DEF Next

-----------------------------------------------------------------------------
(***************************************************************************)
(* The results.                                                            *)
(***************************************************************************)

\* The durable writes of process_next_staging_block are made in an order that
\* a crash between any two of them does not upset.
THEOREM Invariance == Spec => []IndInv
<1>1. Safety => []IndInv
    BY InitInv, NextInv, PTL DEF Safety
<1>. QED BY <1>1, PTL DEF Spec

\* A header in the headers database stands on an accepted parent, and has its
\* Clarity state and its trie.
THEOREM HeadersAreBacked == Spec => []HeadersBacked
<1>1. IndInv => HeadersBacked
    BY DEF IndInv
<1>. QED BY <1>1, Invariance, PTL

\* A row is marked processed only for a block whose header is durable.
THEOREM ProcessedIsAccepted == Spec => []ProcessedAccepted
<1>1. IndInv => ProcessedAccepted
    BY DEF IndInv
<1>. QED BY <1>1, Invariance, PTL

\* The trie of an entry has the keys of its ancestors above the first block: an
\* entry that has a trie uses the key of none of them.
LEMMA TrieHoldsAncestors ==
    ASSUME IndInv, NEW e \in DOMAIN headers_index, NEW a \in Ancestors[e], ~IsGenesis(a)
    PROVE  PubkeyHash[BlockOf(a)] # PubkeyHash[BlockOf(e)]
<1> DEFINE below == headers_index[ParentOf(e)]
           S == {x \in Entry : IsGenesis(x) \/ /\ ~AtSentinel(e) /\ x \in DOMAIN headers_index
                                               /\ headers_index[x] \subseteq below}
<1>1. \A x \in Entry : IsGenesis(x) => ParentOf(x) \notin Entry
    BY SortitionAssumption DEF IsGenesis, ParentOf
<1>2. e \in Entry /\ S \in SUBSET Entry
    BY DEF IndInv, TypeOK
<1>3. \A x \in S : ParentOf(x) \notin Entry \ S
    BY <1>1, <1>2 DEF IndInv, IndexInherits, AtSentinel
<1>4. ParentOf(e) \notin Entry \ S
    BY <1>1, <1>2 DEF IndInv, IndexInherits, AtSentinel
<1>5. a \in S
  <2>1. \A T \in SUBSET Entry : (\A x \in T \cup {e} : ParentOf(x) \notin Entry \ T) => a \in T
    BY <1>2 DEF Ancestors
  <2> HIDE DEF S
  <2>. QED BY <2>1, <1>2, <1>3, <1>4, SMTT(20)
<1>6. /\ ~AtSentinel(e) /\ a \in DOMAIN headers_index
      /\ headers_index[a] \subseteq below
    BY <1>5
<1>7. PubkeyHash[BlockOf(a)] \in headers_index[a]
    BY <1>6 DEF IndInv, IndexInherits
<1>8. PubkeyHash[BlockOf(e)] \notin below
    BY <1>6 DEF IndInv, IndexInherits
<1>. QED BY <1>6, <1>7, <1>8, SMTT(20)

\* No accepted block reuses the microblock public key of an ancestor above the
\* first block, however far below it: asking the parent's trie is enough, also
\* when the tries put on the sentinel were copied from those of other forks.
THEOREM PubkeysAreUnique == Spec => []PubkeyUniqueInFork
<1>1. IndInv => PubkeyUniqueInFork
  <2> SUFFICES ASSUME IndInv, NEW e \in block_headers, NEW a \in Ancestors[e], ~IsGenesis(a)
               PROVE  PubkeyHash[BlockOf(a)] # PubkeyHash[BlockOf(e)]
    BY DEF PubkeyUniqueInFork
  <2>1. e \in DOMAIN headers_index
    BY DEF IndInv, HeadersBacked
  <2>. QED BY <2>1, TrieHoldsAncestors
<1>. QED BY <1>1, Invariance, PTL
=============================================================================
