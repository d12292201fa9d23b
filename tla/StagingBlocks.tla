--------------------------- MODULE StagingBlocks ---------------------------
(***************************************************************************)
(* The staging area of the Stacks chain state: how anchored blocks and     *)
(* microblocks are queued as they arrive, in any order, and how they are   *)
(* attached one at a time (chainstate/stacks/db/blocks.rs).                *)
(*                                                                         *)
(* Four stores are kept, and they do not commit together:                  *)
(*   - the blocks database (staging_blocks, staging_microblocks and        *)
(*     staging_microblocks_data), one Sqlite transaction per operation;    *)
(*   - the chunk store, plain files renamed into place as they are written;*)
(*   - the headers database (block_headers, and its MARF index);           *)
(*   - the Clarity state.                                                  *)
(* The chain state is used through &mut self, so operations never overlap; *)
(* a crash can fall between any two of the durable writes of one.          *)
(*                                                                         *)
(* A transaction that is dropped without a commit is rolled back.  That is *)
(* the fate of every transaction that orphans a block: the one of a        *)
(* rejected block ends in an error, and process_blocks never commits the   *)
(* one of process_next_orphaned_staging_block.  No committed row is ever   *)
(* orphaned, so the rows carry no such flag here.                          *)
(***************************************************************************)
EXTENDS Naturals, FiniteSets, SequencesExt

CONSTANTS
    Burn,               \* burn header hashes
    Block,              \* Stacks block hashes
    Microblock,         \* microblock hashes
    Key,                \* microblock public key hashes
    FirstBlock,         \* FIRST_STACKS_BLOCK_HASH
    NoMicroblock,       \* EMPTY_MICROBLOCK_PARENT_HASH
    Entry,              \* <<burn header, block>> pairs that won a sortition
    Invalid,            \* the entries append_block refuses
    ParentBurn,         \* [Entry -> Burn]: parent_burn_header_hash
    ParentBlock,        \* [Block -> Block \cup {FirstBlock}]
    ParentMicroblock,   \* [Block -> Microblock \cup {NoMicroblock}]
    PubkeyHash,         \* [Block -> Key]
    Sequence,           \* [Microblock -> Nat]
    PrevBlock,          \* [Microblock -> Block \cup Microblock]
    Delivery,           \* <<entry, microblock>> pairs that may be delivered
    MaxCrashes          \* bound on the crashes of one behaviour

ASSUME SortitionAssumption ==
    /\ Entry \subseteq Burn \X Block
    /\ Invalid \subseteq Entry
    /\ ParentBurn \in [Entry -> Burn]
    /\ ParentBlock \in [Block -> Block \cup {FirstBlock}]
    /\ PubkeyHash \in [Block -> Key]
    /\ FirstBlock \notin Block
    /\ MaxCrashes \in Nat

ASSUME MicroblockAssumption ==
    /\ ParentMicroblock \in [Block -> Microblock \cup {NoMicroblock}]
    /\ Sequence \in [Microblock -> Nat]
    /\ PrevBlock \in [Microblock -> Block \cup Microblock]
    /\ NoMicroblock \notin Microblock
    /\ Delivery \subseteq Entry \X Microblock

VARIABLES
    staging_blocks,         \* the rows of the queue, by their primary key
    staging_microblocks,    \* [Delivery -> "none", "queued" or "processed"]
    microblock_data,        \* the hashes in staging_microblocks_data
    block_files,            \* [Entry -> "absent", "block" or "empty"]
    stream_files,           \* [Burn \X Microblock -> Seq(Microblock)]
    block_headers,          \* the entries in the headers database
    headers_index,          \* the keys the trie of each indexed entry shows
    open_trie,              \* the keys of the trie the headers index has open,
                            \* as a singleton; empty when it has none open
    clarity_state,          \* the entries whose Clarity state is committed
    running,                \* the operation in progress
    crashes                 \* how often the node has stopped so far

vars == <<staging_blocks, staging_microblocks, microblock_data, block_files,
          stream_files, block_headers, headers_index, open_trie, clarity_state,
          running, crashes>>

blocks_db == <<staging_blocks, staging_microblocks, microblock_data>>
headers_db == <<block_headers, headers_index, open_trie, clarity_state>>

----------------------------------------------------------------------------
(* Entries and rows.                                                       *)

BlockOf(e) == e[2]
IsGenesis(e) == ParentBlock[BlockOf(e)] = FirstBlock
ParentOf(e) == <<ParentBurn[e], ParentBlock[BlockOf(e)]>>

Row == [attacheable : BOOLEAN, processed : BOOLEAN]

Idle == [step |-> "idle"]

HasStagingBlock(e) == e \in DOMAIN staging_blocks /\ ~staging_blocks[e].processed

HasStoredBlock(e) == ~HasStagingBlock(e) /\ block_files[e] # "absent"

(* UPDATE staging_blocks SET attacheable = a WHERE parent_anchored_block_  *)
(* hash = b: over the children of b in every burn fork.                    *)
SetChildren(rows, b, a) ==
    [e \in DOMAIN rows |->
        IF ParentBlock[BlockOf(e)] = b
        THEN [rows[e] EXCEPT !.attacheable = a]
        ELSE rows[e]]

----------------------------------------------------------------------------
(* Microblock streams.                                                     *)

MicroblocksOf(e) ==
    {m \in Microblock : <<e, m>> \in Delivery /\ staging_microblocks[<<e, m>>] # "none"}

(* ORDER BY sequence leaves rows of equal sequence in any order.           *)
OrderedRows(S) ==
    {rows \in SetToSeqs(S) :
        \A i, j \in DOMAIN rows : i < j => Sequence[rows[i]] <= Sequence[rows[j]]}

(* The trailing sort of merge_microblock_streams, which is stable.         *)
SortBySequence(ms) ==
    FoldLeft(LAMBDA done, m :
                 LET after == SelectSeq(done, LAMBDA x : Sequence[x] > Sequence[m])
                     before == SelectSeq(done, LAMBDA x : Sequence[x] <= Sequence[m])
                 IN  before \o <<m>> \o after,
             <<>>, ms)

(* An unprocessed row needs its data, a processed one its place on disk:   *)
(* otherwise the merge is an error.                                        *)
Mergeable(e, rows, disk) ==
    \A i \in DOMAIN rows :
        IF staging_microblocks[<<e, rows[i]>>] = "queued"
        THEN rows[i] \in microblock_data
        ELSE i <= Len(disk)

\* With a defect: the rest of the stream on disk is dropped, and nothing is sorted.
DropTail(e, rows, disk) ==
    [i \in DOMAIN rows |->
        IF staging_microblocks[<<e, rows[i]>>] = "queued" THEN rows[i] ELSE disk[i]]

MergeMicroblockStreams(e, rows, disk) ==
    SortBySequence(
        [i \in DOMAIN rows |->
            IF staging_microblocks[<<e, rows[i]>>] = "queued" THEN rows[i] ELSE disk[i]]
        \o SubSeq(disk, Len(rows) + 1, Len(disk)))

(* The streams load_staging_microblock_stream may return for e: one per    *)
(* order of its rows, none if there are no rows or the merge fails.        *)
LoadStagingMicroblockStream(e) ==
    {MergeMicroblockStreams(e, rows, stream_files[<<e[1], rows[1]>>]) :
        rows \in {r \in OrderedRows(MicroblocksOf(e)) :
                    r # <<>> /\ Mergeable(e, r, stream_files[<<e[1], r[1]>>])}}

FindParentStagingMicroblockStream(e) ==
    IF ParentMicroblock[BlockOf(e)] = NoMicroblock
    THEN {<<>>}
    ELSE LoadStagingMicroblockStream(ParentOf(e))

\* With a defect: only the links up to the confirmed microblock are validated.
ConnectsUpToParent(b, ms) ==
    \/ ms = <<>> /\ ParentMicroblock[b] = NoMicroblock
    \/ \E last \in DOMAIN ms :
        /\ ms[last] = ParentMicroblock[b]
        /\ PrevBlock[ms[1]] = ParentBlock[b]
        /\ \A i \in 2..last : PrevBlock[ms[i]] = ms[i - 1]

(* validate_parent_microblock_stream: does the stream connect the parent   *)
(* to block b?  An equivocation (two microblocks with one parent or one    *)
(* sequence number) yields a poison payload, and the block is not          *)
(* processed then either.                                                  *)
Connects(b, ms) ==
    LET expectsNone == ParentMicroblock[b] = NoMicroblock
    IN  \/ (ParentBlock[b] = FirstBlock \/ ms = <<>>) /\ expectsNone
        \/ /\ ParentBlock[b] # FirstBlock
           /\ ms # <<>>
           /\ Sequence[ms[1]] = 0
           /\ PrevBlock[ms[1]] = ParentBlock[b]
           /\ \A i, j \in DOMAIN ms : i # j => PrevBlock[ms[i]] # PrevBlock[ms[j]]
           /\ \A i \in 2..Len(ms) :
                /\ Sequence[ms[i]] <= Sequence[ms[i - 1]] + 1
                /\ ms[i] # ms[i - 1] => Sequence[ms[i]] # Sequence[ms[i - 1]]
                /\ PrevBlock[ms[i]] = ms[i - 1]
           /\ expectsNone \/ ParentMicroblock[b] \in Range(ms)

(* The part of the stream that b confirms.                                 *)
Confirmed(b, ms) ==
    IF ParentMicroblock[b] = NoMicroblock
    THEN <<>>
    ELSE SubSeq(ms, 1, CHOOSE i \in DOMAIN ms : ms[i] = ParentMicroblock[b])

----------------------------------------------------------------------------
(* Arrivals.                                                               *)

(* What installing the boot code leaves: its trie, which has no keys, is   *)
(* open.                                                                   *)
Init ==
    /\ staging_blocks = [e \in {} |-> {}]
    /\ staging_microblocks = [d \in Delivery |-> "none"]
    /\ microblock_data = {}
    /\ block_files = [e \in Entry |-> "absent"]
    /\ stream_files = [f \in Burn \X Microblock |-> <<>>]
    /\ block_headers = {}
    /\ headers_index = [e \in {} |-> {}]
    /\ open_trie = {{}}
    /\ clarity_state = {}
    /\ running = Idle
    /\ crashes = 0

(* preprocess_anchored_block, up to the rename of the block file: nothing  *)
(* happens to a block that is queued or stored already.                    *)
PreprocessAnchoredBlock(e) ==
    /\ running = Idle
    /\ ~HasStoredBlock(e) /\ ~HasStagingBlock(e)
    /\ block_files' = [block_files EXCEPT ![e] = "block"]
    /\ running' = [step |-> "store", entry |-> e]
    /\ UNCHANGED <<blocks_db, stream_files, headers_db, crashes>>

\* With a defect: only a parent with a processed row makes a block attacheable.
AttacheableIfProcessed(e) ==
    LET ready == ParentOf(e) \in DOMAIN staging_blocks /\ ~HasStagingBlock(ParentOf(e))
    IN  SetChildren([x \in DOMAIN staging_blocks \cup {e} |->
                        IF x = e THEN [attacheable |-> ready, processed |-> FALSE]
                        ELSE staging_blocks[x]],
                    BlockOf(e), FALSE)

(* The row of store_staging_block: attacheable unless the parent is queued,*)
(* and the children of the block, in every burn fork, have to wait for it. *)
StoreStagingBlock(e) ==
    LET row == [attacheable |-> ~HasStagingBlock(ParentOf(e)), processed |-> FALSE]
    IN  SetChildren([x \in DOMAIN staging_blocks \cup {e} |->
                        IF x = e THEN row ELSE staging_blocks[x]],
                    BlockOf(e), FALSE)

(* The commit of preprocess_anchored_block's transaction.                  *)
CommitAnchoredBlock ==
    /\ running.step = "store"
    /\ staging_blocks' = StoreStagingBlock(running.entry)
    /\ running' = Idle
    /\ UNCHANGED <<staging_microblocks, microblock_data, block_files,
                   stream_files, headers_db, crashes>>

(* preprocess_streamed_microblock: the anchored block must be queued, or   *)
(* its file must hold it.  A row that was processed is replaced.           *)
PreprocessStreamedMicroblock(e, m) ==
    /\ running = Idle
    /\ <<e, m>> \in Delivery
    /\ staging_microblocks[<<e, m>>] # "queued"
    /\ HasStagingBlock(e) \/ block_files[e] = "block"
    /\ staging_microblocks' = [staging_microblocks EXCEPT ![<<e, m>>] = "queued"]
    /\ microblock_data' = microblock_data \cup {m}
    /\ UNCHANGED <<staging_blocks, block_files, stream_files, headers_db,
                   running, crashes>>

----------------------------------------------------------------------------
(* process_next_staging_block: one call, step by step along its durable    *)
(* writes.                                                                 *)

(* find_next_staging_block takes any queued, attacheable block whose       *)
(* parent is accepted and whose file and parent stream can be loaded.      *)
Candidate(e) ==
    /\ HasStagingBlock(e)
    /\ staging_blocks[e].attacheable
    /\ IsGenesis(e) \/ ParentOf(e) \in block_headers
    /\ block_files[e] = "block"

(* get_index_hash names the sentinel, not the parent's trie, for a parent  *)
(* whose header is_genesis: the made-up parent of a first block, and a     *)
(* first block itself.                                                     *)
AtSentinel(e) == IsGenesis(e) \/ IsGenesis(ParentOf(e))

\* With a defect: only the parent's own key is looked at.
ParentUsesPubkeyHash(e) ==
    ~AtSentinel(e) /\ PubkeyHash[BlockOf(e)] = PubkeyHash[ParentBlock[BlockOf(e)]]

(* has_microblock_pubkey_hash: no key is found at the sentinel.            *)
PubkeyHashSeen(e) ==
    ~AtSentinel(e) /\ PubkeyHash[BlockOf(e)] \in headers_index[ParentOf(e)]

(* The trie MARF::begin copies the new one from: it opens the parent's     *)
(* first, but for the sentinel it opens none, and so it takes whichever    *)
(* trie was open, the last one written since the node was started.         *)
TrieToExtend(e) ==
    IF AtSentinel(e) THEN open_trie ELSE {headers_index[ParentOf(e)]}

(* The streams with which a candidate passes the checks before             *)
(* append_block.  A candidate that fails one stays queued.                 *)
Processable(e) ==
    {ms \in FindParentStagingMicroblockStream(e) :
        ~PubkeyHashSeen(e) /\ Connects(BlockOf(e), ms)}

\* With a defect: the step that writes the trie is left out.
SkipTrie(e) ==
    /\ running = Idle
    /\ e \notin Invalid
    /\ Candidate(e)
    /\ \E ms \in Processable(e) :
          running' = [step |-> "headers", entry |-> e, stream |-> Confirmed(BlockOf(e), ms)]
    /\ clarity_state' = clarity_state \cup {e}
    /\ UNCHANGED <<blocks_db, block_files, stream_files, block_headers,
                   headers_index, open_trie, crashes>>

(* append_block accepts the block: its Clarity state is committed under    *)
(* its final name, and replaces the one an earlier attempt left.           *)
AppendBlock(e) ==
    /\ running = Idle
    /\ e \notin Invalid
    /\ Candidate(e)
    /\ \E ms \in Processable(e) :
          running' = [step |-> "tip", entry |-> e, stream |-> Confirmed(BlockOf(e), ms)]
    /\ clarity_state' = clarity_state \cup {e}
    /\ UNCHANGED <<blocks_db, block_files, stream_files, block_headers,
                   headers_index, open_trie, crashes>>

(* append_block refuses the block.  set_block_processed(false) empties its *)
(* file, and so does free_block_state; the rows they and                   *)
(* drop_staging_microblocks changed are rolled back, as the call returns   *)
(* the error without a commit.                                             *)
RejectBlock(e) ==
    /\ running = Idle
    /\ e \in Invalid
    /\ Candidate(e)
    /\ Processable(e) # {}
    /\ block_files' = [block_files EXCEPT ![e] = "empty"]
    /\ UNCHANGED <<blocks_db, stream_files, headers_db, running, crashes>>

\* With a defect: a stream that ends at sequence 0 is taken for no stream.
SkipSequenceZero(ms) ==
    IF ms = <<>> \/ Sequence[Last(ms)] = 0 THEN "headers" ELSE "confirm"

(* Only a block with parent microblocks has some to confirm.               *)
AfterTip(ms) == IF ms = <<>> THEN "headers" ELSE "confirm"

(* advance_tip commits the trie of the block in the headers index.  The    *)
(* index refuses a block it already has, which is fatal.  A copy of no     *)
(* trie fails when its file has been created, and an index with a half-    *)
(* written file is never opened again.                                     *)
AdvanceTip ==
    LET e == running.entry
        Extend(keys) ==
            /\ headers_index' = [x \in DOMAIN headers_index \cup {e} |->
                                    IF x = e THEN keys ELSE headers_index[x]]
            /\ open_trie' = {keys}
            /\ running' = [running EXCEPT !.step = AfterTip(running.stream)]
    IN  /\ running.step = "tip"
        /\ \/ /\ e \in DOMAIN headers_index
              /\ running' = [step |-> "panic_tip"]
              /\ UNCHANGED <<headers_index, open_trie>>
           \/ /\ e \notin DOMAIN headers_index /\ TrieToExtend(e) = {}
              /\ running' = [step |-> "partial_write"]
              /\ UNCHANGED <<headers_index, open_trie>>
           \/ /\ e \notin DOMAIN headers_index
              /\ \E keys \in TrieToExtend(e) : Extend(keys \cup {PubkeyHash[BlockOf(e)]})
        /\ UNCHANGED <<blocks_db, block_files, stream_files, block_headers,
                       clarity_state, crashes>>

(* set_microblocks_confirmed, up to the rename of the stream file: the     *)
(* confirmed rows are merged with the stream on disk.  No single head is   *)
(* taken to be unreachable; a failed merge ends the call with an error.    *)
SetMicroblocksConfirmed ==
    LET parent == ParentOf(running.entry)
        last == Sequence[Last(running.stream)]
        heads == {m \in MicroblocksOf(parent) : Sequence[m] = 0}
        disk == stream_files[<<parent[1], CHOOSE m \in heads : TRUE>>]
    IN  /\ running.step = "confirm"
        /\ IF Cardinality(heads) # 1
           THEN running' = [step |-> "panic_stream"] /\ UNCHANGED stream_files
           ELSE \E rows \in OrderedRows({m \in MicroblocksOf(parent) : Sequence[m] <= last}) :
                  LET merged == MergeMicroblockStreams(parent, rows, disk)
                  IN  IF Mergeable(parent, rows, disk)
                      THEN /\ stream_files' = [stream_files EXCEPT ![<<parent[1], merged[1]>>] = merged]
                           /\ running' = [step |-> "headers", entry |-> running.entry, stream |-> merged]
                      ELSE running' = Idle /\ UNCHANGED stream_files
        /\ UNCHANGED <<blocks_db, block_files, headers_db, crashes>>

\* With a defect: the headers transaction is not committed.
DropHeaders ==
    /\ running.step = "headers"
    /\ running' = [running EXCEPT !.step = "blocks"]
    /\ UNCHANGED <<blocks_db, block_files, stream_files, headers_db, crashes>>

(* ChainstateTx::commit, first half: the headers database.                 *)
CommitHeaders ==
    /\ running.step = "headers"
    /\ block_headers' = block_headers \cup {running.entry}
    /\ running' = [running EXCEPT !.step = "blocks"]
    /\ UNCHANGED <<blocks_db, block_files, stream_files, headers_index,
                   open_trie, clarity_state, crashes>>

(* ChainstateTx::commit, second half: set_block_processed(true) and the    *)
(* rows of set_microblocks_confirmed.                                      *)
CommitBlocks ==
    LET e == running.entry
        parent == ParentOf(e)
        confirms == {m \in Microblock :
                        /\ ParentMicroblock[BlockOf(e)] # NoMicroblock
                        /\ Sequence[m] <= Sequence[ParentMicroblock[BlockOf(e)]]}
    IN  /\ running.step = "blocks"
        /\ staging_blocks' = SetChildren([staging_blocks EXCEPT ![e].processed = TRUE],
                                         BlockOf(e), TRUE)
        /\ staging_microblocks' =
              [d \in Delivery |->
                IF d[1] = parent /\ d[2] \in confirms /\ staging_microblocks[d] # "none"
                THEN "processed" ELSE staging_microblocks[d]]
        /\ microblock_data' = microblock_data \ Range(running.stream)
        /\ running' = Idle
        /\ UNCHANGED <<block_files, stream_files, headers_db, crashes>>

(* The node stops between two durable writes, of one operation or of two.  *)
(* Its transactions are rolled back by Sqlite, its renamed files stay, and *)
(* when it is started again the headers index has no trie open.            *)
Crash ==
    /\ running.step \in {"idle", "store", "tip", "confirm", "headers", "blocks"}
    /\ crashes < MaxCrashes
    /\ crashes' = crashes + 1
    /\ running' = Idle
    /\ open_trie' = {}
    /\ UNCHANGED <<blocks_db, block_files, stream_files, block_headers,
                   headers_index, clarity_state>>

(* The node is started again after a panic.                                *)
Restart ==
    /\ running.step \in {"panic_tip", "panic_stream"}
    /\ running' = Idle
    /\ open_trie' = {}
    /\ UNCHANGED <<blocks_db, block_files, stream_files, block_headers,
                   headers_index, clarity_state, crashes>>

Finish == AdvanceTip \/ SetMicroblocksConfirmed \/ CommitHeaders \/ CommitBlocks

Next ==
    \/ \E e \in Entry : PreprocessAnchoredBlock(e)
    \/ CommitAnchoredBlock
    \/ \E e \in Entry, m \in Microblock : PreprocessStreamedMicroblock(e, m)
    \/ \E e \in Entry : AppendBlock(e)
    \/ \E e \in Entry : RejectBlock(e)
    \/ AdvanceTip
    \/ SetMicroblocksConfirmed
    \/ CommitHeaders
    \/ CommitBlocks
    \/ Crash
    \/ Restart

Safety == Init /\ [][Next]_vars

(* process_blocks is called after every tenure and takes the candidates in *)
(* random order, so a block that is a candidate time and again is taken;   *)
(* a call that has begun runs on.                                          *)
Fairness ==
    /\ \A e \in Entry \ Invalid : SF_vars(AppendBlock(e))
    /\ WF_vars(Finish) /\ WF_vars(CommitAnchoredBlock)

Spec == Safety /\ Fairness

----------------------------------------------------------------------------
(* Properties.                                                             *)

(* A header in the headers database stands on an accepted parent, and its  *)
(* Clarity state and its trie are there: the order of the durable writes   *)
(* in append_block and ChainstateTx::commit keeps this through crashes.    *)
HeadersBacked ==
    \A e \in block_headers :
        /\ IsGenesis(e) \/ ParentOf(e) \in block_headers
        /\ e \in clarity_state
        /\ e \in DOMAIN headers_index

(* The microblocks an accepted block confirms are in the chunk store, in   *)
(* one stream linked from the parent block up to the one the block names.  *)
ConfirmedMicroblocksKept ==
    \A e \in block_headers :
        LET m == ParentMicroblock[BlockOf(e)]
        IN  m # NoMicroblock =>
              \E h \in Microblock :
                LET stream == stream_files[<<ParentBurn[e], h>>]
                IN  /\ m \in Range(stream)
                    /\ PrevBlock[stream[1]] = ParentBlock[BlockOf(e)]
                    /\ \A i \in 2..Len(stream) : PrevBlock[stream[i]] = stream[i - 1]

(* A stream file is append-only (store_microblock_stream): siblings that   *)
(* confirm shorter or longer parts of a stream, late and repeated          *)
(* microblocks, and crashes never take a microblock out of it.             *)
StreamsAppendOnly ==
    [][\A f \in Burn \X Microblock : IsPrefix(stream_files[f], stream_files'[f])]_vars

(* set_microblocks_confirmed finds the one head it takes for granted, even *)
(* when the miner of the parent equivocated.                               *)
StreamHeadFound == running.step # "panic_stream"

(* A row is marked processed only for a block whose header is durable, so  *)
(* that a crash between the two commits never loses an accepted block.     *)
ProcessedAccepted ==
    \A e \in DOMAIN staging_blocks : staging_blocks[e].processed => e \in block_headers

(* The entries below e in its fork: the least set that holds the parent of *)
(* e and the parent of each of its members.                                *)
Ancestors ==
    [e \in Entry |->
        {a \in Entry :
            \A S \in SUBSET Entry : (\A x \in S \cup {e} : ParentOf(x) \notin Entry \ S) => a \in S}]

(* No accepted block reuses the microblock public key of an ancestor of    *)
(* its fork (has_microblock_pubkey_hash), but for that of the first block: *)
(* no child of it is asked for its key, and the tries above need not have  *)
(* it.                                                                     *)
PubkeyUniqueInFork ==
    \A e \in block_headers :
        \A a \in Ancestors[e] :
            ~IsGenesis(a) => PubkeyHash[BlockOf(a)] # PubkeyHash[BlockOf(e)]

(* Once every block and every microblock stream has arrived, and as long   *)
(* as the node does not crash and no miner equivocates, each block that is *)
(* valid with all its ancestors is accepted, in whatever order the         *)
(* arrivals came and although the second copy of a block, stored for       *)
(* another burn fork, holds its children in both forks back for a while.   *)
(* A key that is asked for has to be new in every fork, as the trie of a   *)
(* first block or of a child of one is copied from that of any other.      *)
Acceptable(e) ==
    \A a \in {e} \cup Ancestors[e] :
        /\ a \notin Invalid
        /\ AtSentinel(a) \/ \A b \in Entry \ {a} : PubkeyHash[BlockOf(b)] # PubkeyHash[BlockOf(a)]

StreamArrived(e) ==
    LET ms == MicroblocksOf(ParentOf(e))
    IN  \/ ParentMicroblock[BlockOf(e)] = NoMicroblock
        \/ /\ ParentMicroblock[BlockOf(e)] \in ms
           /\ \A m \in ms : PrevBlock[m] \in ms \cup {ParentBlock[BlockOf(e)]}

AllArrived == DOMAIN staging_blocks = Entry /\ \A e \in Entry : StreamArrived(e)

Equivocation ==
    \E d1, d2 \in Delivery :
        /\ d1 # d2 /\ d1[1] = d2[1] /\ PrevBlock[d1[2]] = PrevBlock[d2[2]]
        /\ staging_microblocks[d1] # "none" /\ staging_microblocks[d2] # "none"

AcceptedEventually ==
    [](crashes = 0 /\ ~Equivocation) /\ <>AllArrived
        => <>(\A e \in Entry : Acceptable(e) => e \in block_headers)

(* What makes HeadersBacked, ProcessedAccepted and PubkeyUniqueInFork      *)
(* inductive: the trie of an entry has its key, and unless it was put on   *)
(* the sentinel it also has the keys of the parent's, which lacks the new  *)
(* one; and each durable write of the call in progress that comes before   *)
(* the present one is there.                                               *)
TypeOK ==
    /\ DOMAIN staging_blocks \subseteq Entry
    /\ \A e \in DOMAIN staging_blocks : staging_blocks[e] \in Row
    /\ block_headers \subseteq Entry
    /\ DOMAIN headers_index \subseteq Entry
    /\ \/ running \in {Idle, [step |-> "panic_tip"], [step |-> "panic_stream"],
                       [step |-> "partial_write"]}
       \/ running \in [step : {"store"}, entry : Entry]
       \/ /\ running = [step |-> running.step, entry |-> running.entry, stream |-> running.stream]
          /\ running.step \in {"tip", "confirm", "headers", "blocks"}
          /\ running.entry \in DOMAIN staging_blocks

IndexInherits ==
    \A e \in DOMAIN headers_index :
        /\ PubkeyHash[BlockOf(e)] \in headers_index[e]
        /\ ~AtSentinel(e) =>
              /\ ParentOf(e) \in DOMAIN headers_index
              /\ PubkeyHash[BlockOf(e)] \notin headers_index[ParentOf(e)]
              /\ headers_index[ParentOf(e)] \subseteq headers_index[e]

WrittenSoFar ==
    LET e == running.entry
    IN  /\ running.step \in {"tip", "confirm", "headers", "blocks"} =>
              e \in clarity_state /\ (IsGenesis(e) \/ ParentOf(e) \in block_headers)
        /\ running.step = "tip" => ~PubkeyHashSeen(e)
        /\ running.step \in {"confirm", "headers", "blocks"} => e \in DOMAIN headers_index
        /\ running.step = "blocks" => e \in block_headers

IndInv == TypeOK /\ HeadersBacked /\ ProcessedAccepted /\ IndexInherits /\ WrittenSoFar

(* What a comment of the code says, and the code does not do.             *)

(* "Occurs as a single, atomic transaction against the (marf'ed) headers   *)
(* database and (un-marf'ed) staging block database, as well as against    *)
(* the chunk store" (process_next_staging_block).                          *)
AtomicProcessing ==
    running = Idle =>
        \A e \in Entry :
            HasStagingBlock(e) => e \notin block_headers /\ block_files[e] = "block"

============================================================================
