# A TLA+ model of the Stacks node

This development models state machines of the Stacks 2.0 node (the Rust code
under `src/src/`) and of the Python node before it (`src/legacy/`): what they
promise, what TLC checks of them on small instances, and what TLAPS proves of
them for every instance.

## The system

The node follows a burn chain (Bitcoin) and builds the Stacks chain on it.

- **Burn-chain synchronisation** (`burnchains/`) downloads headers and blocks
  and hands each block to `Burnchain::process_block`.
- **The burn database** (`chainstate/burn/`) checks the operations of a burn
  block (leader key registrations, block commits, user burns) against the fork
  they extend, picks the winner of the sortition, and records a snapshot. Rows
  go to Sqlite; what a fork knows goes to a MARF, an index with one trie per block.
- **The Stacks chain state** (`chainstate/stacks/db/`) queues the Stacks blocks
  and microblocks of the winners as they arrive and attaches them one by one.
- **Clarity** (`vm/`) runs their transactions over a key-value store with nested
  contexts (`vm/database/key_value_wrapper.rs`) on top of another MARF and a
  Sqlite side store.
- **The network** (`net/`) holds a conversation with each peer: messages cross a
  pipe, an outbox and a socket, and replies are matched to requests.
- **The testnet node** (`testnet/`) drives all of it from one run loop.

The Python node, which shares no code or state with it, indexes names.

- **The name database** (`lib/nameset/`, `lib/operations/`) takes the name
  operations of one Bitcoin block after the other.
- **Atlas** (`lib/atlas.py`) finds the zone files that names announce, and tells
  peers which ones it has.
- **The subdomain index** (`lib/subdomains.py`) reads subdomain records from the
  zone files, in whatever order these arrive.

`PROJECT.json` lists every part, with what is modelled of it or why it is not,
the hazards of the code at the line where they bite, and for each definition
the lines it models.

## Modules

| module | models |
|---|---|
| `BurnDB` | `process_block` and the burn database |
| `BurnDB_lemmas`, `BurnDB_proofs`, `BurnDB_sortitions` | its theorems |
| `RollbackWrapper` | nested edits of the Clarity store, `at-block` |
| `NestedStore` | the abstract stack of views that `RollbackWrapper` implements |
| `RollbackWrapper_lemmas`, `RollbackWrapper_proofs` | what each operation does to the log, the lookup map and the views; its theorems, the refinement among them |
| `StagingBlocks` | the queue of Stacks blocks and microblocks |
| `StagingBlocks_proofs` | its theorems |
| `Conversation` | one connection of the peer network: pipes, outbox, inbox, replies |
| `NameDB` | checks and commits of name operations, block by block |
| `NameDB_proofs` | its theorems |
| `Subdomains` | which subdomain records are accepted, as operators on the table |
| `AtlasZonefiles` | the threads that find zone files and index them, over `Subdomains` |
| `AtlasZonefiles_proofs` | its theorems |
| `MC...` | small instances of these for TLC |

Sqlite tables are sets of rows, or functions whose domain is the set of primary
keys. A definition marked `With a defect` is a wrong version of the one after
it; `PROJECT.json` pairs each with a property that it breaks.

### BurnDB

State: the blocks the burn chain offered, the tries of the index, the tables
`snapshots`, `leader_keys`, `block_commits` and `user_burns`, and the rows of
the block in progress (`pending`).

`IndexBlock` is `process_block` up to the point where the trie is on disk:
checks of the operations, burn distribution, snapshot, index entries.
`CommitBlock` is the Sqlite commit after it. `PanicInBlock` and `PanicInStore`
are the assertions and expects that stop the node in either half. `Crash` and
`Restart` may fall between them. The winner, which the code draws by hash, is
any accepted commit; hashes are names.

### RollbackWrapper and NestedStore

State: the stack of contexts, the lookup map with the history of every key (both
for data and metadata), the store, and the block it is read at. The actions are
`nest`, `put`, `insert_metadata`, `rollback`, the nested and the outermost
commit, and the beginning and end of an `at-block` evaluation. The outermost
commit replays the edits against the lookup map, as the code does, and a failed
expect or assertion sets `panicked`. `NestedStore` keeps a stack of complete views
instead; `ImplementsNestedStore` is the refinement. A pending edit is named by its
place, a context and an index into the edits of that context (`Pending`).

### StagingBlocks

State: the three tables of the blocks database, the chunk store's block and
stream files, the headers database and its index, the Clarity state, and the
operation in progress. An entry is a pair of burn header and Stacks block: one
Stacks block may have won on two burn forks.

`PreprocessAnchoredBlock` and `CommitAnchoredBlock` queue a block, the file first
and then the row. `PreprocessStreamedMicroblock` queues a microblock.
`AppendBlock`, `AdvanceTip`, `SetMicroblocksConfirmed`, `CommitHeaders` and
`CommitBlocks` are one successful call of `process_next_staging_block`, cut at
its durable writes; `RejectBlock` is a refused block. `Crash` may fall between
any two, not in the middle of one; `Restart` follows a panic. Whether
`append_block` accepts an entry is a constant (`Invalid`): running its
transactions is not modelled.

The headers index is the set of keys that each trie shows. `get_index_hash`
(db/mod.rs:914) names the sentinel and not a trie for a parent that `is_genesis`,
which the first Stacks block is as well: `AtSentinel`. Nothing is found at the
sentinel, so its children may reuse the key of the first block; and
`MARF::begin` opens no trie for it and copies the one that is open already, which
is the last one written (`open_trie`, `TrieToExtend`).

Transactions that mark a block as orphaned are never committed by the code (the
error path returns before the commit, and `process_blocks` drops the other), so
rows have no such mark. Headers whose microblock sequence contradicts their
parent microblock are assumed away.

### Conversation

State: the pipe of every outgoing message, the outbox and what is in flight, the
reply channels of the handles, the inbox, the two directions of the socket, the
remote peer, and where the network thread is in its pass (`phase`). The actions
of the network thread are the parts of `dispatch_network` in their order:
requests of other threads, reading (`Receive`, with the whole of `chat`), writing
(`SendBytes`), relays and timeouts (`FlushRelayHandles`), the walk, heartbeats,
re-keying. Another thread flushes its handle, drops the writer and waits, each
a step of its own. The peer and the socket are external: the peer reads, answers
once, twice, late or never, sends requests of its own, and may close. Both have
completed a handshake. A message is a sequence of units that reads and writes may
separate; time is what is left of a ttl, since the code only compares dates. A
`ttl` is a date for the timeout of a request and a duration for the deadline of
its handle (connection.rs:1043): that deadline does not pass in the model.

### NameDB

State: the tables of names, namespaces, preorders and accounts, the import
keychains, the collisions of the block, and the operations left of it. While
block `b` is indexed `lastblock` is `b - 1`, and most lookups are dated
`lastblock`. `db_scan_block` checks the creating operations of a block once to
find collisions; then each operation is one action (`NAME_PREORDER`, ...,
`TOKEN_TRANSFER`): its check, its commit with the assertions, the accounts.
`log_reject` is a failed check, `abort` a failed assertion, which stops the node.
`db_save` ends the block and vests tokens. A row has the columns that the assertions
of a commit compare (block number, preorder, `op_fee`, `token_fee`), and a price
curve is one of a few (`Pricing`). All epoch features are on.

### Subdomains and AtlasZonefiles

`Subdomains` has the algorithm: the cheap insertion of a record among its
neighbours (`TryInsert`), and the rewrite of the past and the future when that
gives up. `AtlasZonefiles` has the state: the zone file table, the inventory
vector in memory, the files, the queue, the subdomain table; and three threads.
The indexer adds the announcements of a block, rebuilds the inventory and works
off the queue. The crawler finds missing files, stores, marks and queues them. An
RPC client pushes a file. A crash restores a backup of the databases; the files
stay.

## What TLC checks

| run | instance | distinct states | result |
|---|---|---|---|
| `forks` | `BurnDB_forks.cfg` | 519,520 | passes |
| `burns` | `BurnDB_burns.cfg` | 318,446 | passes |
| `contexts` | `RollbackWrapper.cfg` | 57,834 | passes |
| `staging` | `StagingBlocks.cfg` | 288,980 | passes |
| `conversation` | `Conversation.cfg` | 255,001 | passes |
| `names` | `NameDB.cfg` | 44,297 | passes |
| `subdomains` | `AtlasZonefiles.cfg` | 117,025 | passes |
| `atblock` | `RollbackWrapper_atblock.cfg` | | violated |
| `atomic` | `StagingBlocks_atomic.cfg` | | violated |
| `rekey`, `pingreply` | `Conversation_*.cfg` | | violated |
| `elsewhere` | `AtlasZonefiles_elsewhere.cfg` | | violated |

**forks.** Four burn blocks on any forks, with two VRF keys and two Stacks blocks
that several commits contend for. Forks stay contiguous (`ForkContiguous`), a key
is consumed and a Stacks block wins at most once per fork (`KeyConsumedOnce`,
`WinnerUniqueInFork`), the index agrees with the tables (`KeyIndexAgrees`), and
committed history never changes (`HistoryKept`). Four blocks are the least that
give a registration, a commit, a commit that reuses what the first one took, and
a fork. New blocks are named in order, which is sound as hashes are only compared.

**burns.** Commits of several amounts with user burns that match, half match or
match nothing, and `U64Max = 6`, so that the total overflows, within one block and
over several. The counters are the
sums over the fork's rows (`CountersAgree`), pointers resolve in their own fork
(`CommitsResolve`), the sortition entries of the index are right
(`SortitionIndexAgrees`). `KeyInv`, the invariant of the first proofs, holds too.

**contexts.** Two keys, two values, three contexts, three pending edits: a key is
overwritten inside, below and after a nested context. The two records of the
edits never diverge (`LookupMapAgrees`), no assertion fails (`NoPanic`), and the
wrapper implements the stack of views (`ImplementsNestedStore`).

**staging.** Six Stacks blocks in seven sortitions on two burn forks: the first
block on both forks, children of it that confirm one and two microblocks, one with
the first block's key, a block that reuses its grandparent's key, an invalid block;
an equivocating microblock; at most one crash. A header has all that it refers to (`HeadersBacked`,
`ConfirmedMicroblocksKept`), a processed row has a header (`ProcessedAccepted`),
stream files only grow (`StreamsAppendOnly`), `set_microblocks_confirmed` finds
its head (`StreamHeadFound`), no key of a block above the first is reused
(`PubkeyUniqueInFork`), and what is valid is accepted in the end
(`AcceptedEventually`). Microblocks are
delivered for one of the two burn forks only.

**conversation.** One request of the walk, one of another thread, a relay, a
re-key, a ping and a query of the peer, of which any two are started; messages of
three units out and two in; a socket of two units; an outbox of two. Two is the
least number that has one message behind another, a reply out of order, and an
outbox that overflows. What arrives at the peer are whole messages in order
(`MessagesWhole`), a request is answered at most once and by its own reply
(`AnsweredOnce`), a reply is passed over only when nobody can wait for it
(`ReplyNotMissed`), a request fails only after its time or with the connection
(`NoEarlyFailure`), and it ends (`EveryRequestEnds`): once it is in flight always,
before that when the peer reads. A peer that keeps sending and does not read holds
up the outbox for good, since only requests in flight time out. Three exceptions are part of
the statements: a handle that its owner drops before it is flushed truncates the
message, since the end of a pipe is taken for the end of the message; a reply
that arrives when a thread has written its last piece and not yet dropped the
pipe is unsolicited, since the request is in flight only then; and nothing ends
behind a stuck re-key.

**names.** One namespace, two names, three principals, periods of two and three
blocks, and four chains of 5 to 10 blocks, each block from a menu of operations:
two principals after one name, a name through lifetime, grace period and lapse, a
namespace revealed twice with imports, under two price curves and for two fees,
names paid with tokens. An owner keeps a
name (`OwnerKeepsName`), also within the block that registers it, which the
lookups do not show; a revealer keeps a namespace (`RevealerKeepsNamespace`); a
revoked name stays so until it lapses (`RevokedUntilLapsed`); a name in its grace
period is renewed or left alone (`FrozenInGracePeriod`); a preorder is used once
(`PreorderUsedOnce`); and no commit aborts over what a check accepted
(`CommitFollowsCheck`). The exceptions are part of the statements. A name that is
imported, made ready with its namespace and registered in one block passes to the
registrant, as an import leaves no collision key (namedb.py:747). And after a
reveal that was not made ready, three operations pass their check and then abort
the node (db.py:1907): a name imported again in the block in which the reveal
expires; one imported again under a second reveal at another price in Stacks; and
a second reveal whose preorder burned another amount of BTC. The last two change a
column (`token_fee`, `op_fee`) that is not among the `MUTATE_FIELDS` of the
operation. `IndInv`, the invariant of the proofs, holds too.

**subdomains.** Six chains of two to four announcements over two subdomains:
conflicting successors in both orders, an update and a transfer in the zone file of
another name, a zone file announced twice, a plain update; up to two RPC calls, crashes or
restarts on the short chains; a queue read in batches of two. A bit of the
inventory is set only for a file on disk (`InventoryHonest`), the inventory is the
present column (`InventoryCoherent`), the accepted records are those of a fresh
index (`TableAgreesWithReindex`) and succeed one another (`AcceptedSucceed`), a
record whose past is complete is final (`FinalOnceComplete`), no zone file is
forgotten (`NoZonefileLost`) and each is indexed (`EventuallyIndexed`).
`TableAgreesWithReindex`, `FinalOnceComplete` and what `AcceptedSucceed` says of a
first record are about subdomains at home (`AtHome`): all of their records are in
zone files of the name they end in. For others they fail, for the reason that
`elsewhere` shows. `NoZonefileLost` and `EventuallyIndexed` exclude crashes: one
between marking a file and queueing it does lose the file for the indexer
(atlas.py:3261).

Deadlock is checked, except for `StagingBlocks` and `NameDB`: there nothing is
left to do once every block of the instance is processed, and a node that has
aborted stays down.

### Fairness

`AcceptedEventually`: `find_next_staging_block` draws the rows in random order
(`ORDER BY RANDOM()`, blocks.rs:2182), so a block that is a candidate time and
again is taken with probability one if `process_blocks` is called again and
again: strong fairness of `AppendBlock(e)`. An operation that has begun runs to
its end: weak fairness of the other steps. Two assumptions are the caller's: it
goes on calling `process_blocks` (the testnet node does so for every tenure,
testnet/node.rs:310), and it survives an error, which the testnet node turns into
a panic, by starting again. The property excludes crashes and equivocations: after
a crash a block may be stuck (see below), and a poisoned stream is not confirmed.

`EveryRequestEnds`: the network thread makes pass after pass, other threads are
scheduled, and time passes. Nothing is assumed of the peer; that it reads
(`PeerReads`) is a hypothesis of the part about requests not yet in flight, and it
need not answer. One call of `PeerNetwork::run` is one pass (p2p.rs:1296); that it
is called again and again is an assumption on its caller.

`EventuallyIndexed`: blocks keep coming, and the indexer, the crawler and an RPC
call that was started go on (they are loops and plain calls). No peer need ever
serve a file: the property is about files on disk.

### Where the code and its comments disagree

- `atblock`: a read inside `at-block` returns an uncommitted edit of the running
  transaction; vm/docs/mod.rs:591 says it is evaluated as of that block.
- `atomic`: a refused block loses its file while its row stays queued;
  blocks.rs:2531 calls the operation atomic.
- `rekey`: the handshake of a re-key is never flushed and blocks the outbox;
  p2p.rs:1083 says that it re-handshakes with everyone.
- `pingreply`: a request of the peer with the number of a request in flight is
  taken for its reply; connection.rs:965 says "this message is in reply to this
  inflight message".
- `elsewhere`: when a subdomain was updated in the zone file of another name and
  the file that created it is processed again, the creation is no longer accepted
  and its update still is; docs/naming/subdomains.md:143 says that the valid
  sequence is determined by the zone files.

Other observations, without a run:

- Two commits in a block that use one leader key stop the node at an assertion
  (`PanicInBlock`); distribution.rs:68 says that only the first is kept.
- A key registered on two forks passes `check()` and then breaks a UNIQUE column
  (`PanicInStore`); leader_key_register.rs:197 speaks of "this fork".
- "commit everything!" (burnchain.rs:691) follows an earlier commit of the index;
  after a crash in between, the block cannot be processed again (`PanicInBlock`).
- A crash between the rename of a block file and the commit of its row loses the
  block to the queue (blocks.rs:1085); one between the headers index and the
  databases makes the next attempt panic (db/mod.rs:975).
- The key of the first Stacks block may be used again by its children, since
  nothing is found at the sentinel (`PubkeyHashSeen`); db/mod.rs:925 says "we
  cannot have used this microblock public key hash before in this fork".
- A trie put on the sentinel is a copy of the one written last, whatever fork that
  was on (marf.rs:714): the keys it shows depend on the order in which the node
  processed the blocks. After a restart none is open, and the first block to be put
  on the sentinel stops the node with a half-written trie file that keeps the index
  from being opened again (`partial_write`).
- A namespace preorder never expires: its age is added to the present block where
  it should be subtracted (db.py:3322). An import keychain is read back for a
  namespace that somebody else has revealed since (namedb.py:374). A renewal is
  refused to an owner at their quota (register.py:755).

## What is proved

The theorems hold for every value of the constants that satisfies the named
assumptions: any number of blocks, forks, names, threads or crashes.

**BurnDB** (`BurnDB_lemmas`, `BurnDB_proofs`; `ConstantAssumption`,
`BodyAssumption`: the first block and its Stacks block are among the names, a
transaction identifier determines a transaction and occurs once in a block).
`TypeCorrect`, `ForksAreContiguous`, `KeyIndexIsRight`, `KeysAreConsumedOnce`,
`WinnersAreUnique` and `HistoryIsKept` rest on `KeyInvariance`: `KeyInv` is
inductive. The properties alone are not. A block becomes visible in two steps, and
between them the trie is on disk and the rows are not; so `PendingInFlight` says
what a trie without a snapshot and the open transaction look like: they extend some
snapshot `p` by operations that `check()` let through against the trie of `p`.
`RowsPlaced` ties rows to heights, so that a pointer (height, offset) names one
row of a fork, and `WinnersIndexed` ties the winners of a fork to its trie. Then:

1. `IndexBlockInv`: the trie made by a block satisfies `PendingInFlight`. This is
   where the checks of the code are used.
2. `CommitBlockInv`: committing such rows keeps every property of every fork. The
   fork of the new block is that of `p` and the block (`ForkOfPending`); other
   forks are untouched (`CommittedFrame`).
3. `HaltInv`: crashes, panics and restarts drop the transaction only.

`BurnDB_sortitions` builds on it. `IndInv` adds to `KeyInv` what the open
transaction says of the sortition (`PendingSortitions`): the trie on disk names the
winner if there is one and repeats the last sortition of `p` otherwise, the counter
is that of `p` or one more, and each accepted commit points at rows of the fork of
`p`. `SortitionIndexIsRight`, `CommitsAreResolved` and `SortitionsAreCounted` follow
along the same three steps.

**RollbackWrapper** (`RollbackWrapper_lemmas`, `RollbackWrapper_proofs`; `PastAssumption`, `AbsentAssumption`,
`DepthAssumption`: the open block is not an ancestor of itself, `Absent` is no
value). `PanicFree`, `LookupMapCorrect`, `TypeCorrect` and `Refinement` hold for any
keys, values and nesting.

- *The invariant.* `Agrees(map, log)` says that some function gives every pending
  edit a position in the history of its key, in the order of the writes, so that
  every position is taken once. A statement about places needs no induction over
  the length of a history. `MetadataOnce` is what keeps the UNIQUE constraint: a
  metadata key with a pending edit has no row, and no second edit.
- *Replay.* `ReplayFollows`: when edits are undone so that each is the last of its
  key among those left, it is at the end of its history and no assertion fails; the
  first one to fail would be a least counterexample, and there is none. A rollback
  is an instance, latest edit first (`DropInnermost`), and so is the outermost
  commit, earliest edit first in reversed histories (`CommitAll`).
- *The steps.* Each operation is a change of the log: `Opened`, `Written`, a prefix,
  `Merged`. A nested commit renames the places and keeps their order
  (`MergedPlaces`), so the same positions still agree, although the lookup map is
  not touched.
- *The refinement.* The view of a context is the store with the latest edit of each
  key up to that context. `ReadIsTopView`: `get` returns the top view. There is a
  lemma for what each change of the log does to the views (`OpenedViews`, ...,
  `StoredView`), one for the step of `NestedStore` that it is (`OpenStep`, ...), and
  `RefinementStep` puts them together.

**StagingBlocks** (`StagingBlocks_proofs`; `SortitionAssumption`,
`MicroblockAssumption`: the tree of blocks is well-formed). `HeadersAreBacked`,
`ProcessedIsAccepted` and `PubkeysAreUnique` hold for any tree of blocks and any
number of crashes. `WrittenSoFar` says which durable writes of the call in progress
are already there, so that a crash between two of them leaves nothing that a later
one would have had to come before. `IndexInherits` says that the trie of an entry
has its key, and, unless it was put on the sentinel, all that its parent's trie has,
to which the key was new; whatever a trie put on the sentinel was copied from, it
only adds keys. The ancestors of an entry are the least set closed under the parent,
so the trie holds the keys of all of them above the first block
(`TrieHoldsAncestors`), and a key that the parent's trie does not have is new there.

**AtlasZonefiles** (`AtlasZonefiles_proofs`; `AnnouncementAssumption`,
`BoundAssumption`). `InventoryIsHonest` and `InventoryIsCoherent` hold for any chain
of announcements and any number of calls, crashes and restarts. `StoredFirst` makes
them inductive: a row is marked present, in the table or in a backup of it, only
when its file is stored, and a thread on its way to mark a row has stored the file.

**NameDB** (`NameDB_proofs`; `PeriodAssumption`, `DataAssumption`,
`ChainAssumption`: periods are positive, operations and accounts well-formed, an
account of the genesis block not overdrawn). `PreordersAreUsedOnce`,
`CommitsFollowChecks`, `OwnersKeepTheirNames`, `RevokedNamesStay`,
`NamesFreezeInGracePeriod` and `RevealersKeepTheirNamespaces` hold for any chain of
blocks of any operations. The lookups of the checks are dated `lastblock` and hide
what the block being indexed has written; what replaces them is the set of
collision keys. So `IndInv` says that a name, a namespace or a preorder dated with
this block has its key among `collisions` (`NamesMarked`, `NamespacesMarked`,
`PreordersMarked`), that no date is later, and that a revoked name is out of reach
of imports (`RevokedForGood`). For `CommitsFollowChecks` it adds what the assertions
of a commit compare: the names of a namespace that is not ready were imported and
have the block number and, but for those of an earlier reveal, the fee that another
import finds (`ImportsMatch`), and a reveal has no ready block (`RevealsNotReady`);
so only the three aborts above are left. There is one lemma for each operation (`RenewalInv`,
...); three of them, about what is written to a table (`NameWritten`,
`NamespaceWritten`, `PreordersWritten`), carry the invariant for all. `NameStep`
says what a step can do to a name, and the four action properties follow from it;
`AcceptedCommits` says that an accepted operation meets the assertions of its
commit or is one of the three (`KnownAbort`), from `AffordDebit` (the accounts) and `LiveSequence` (the opcode order).

## What is only model-checked

- Liveness under fairness (`AcceptedEventually`, `EveryRequestEnds`,
  `EventuallyIndexed`): out of the prover's reach.
- The sum in `CountersAgree` of `BurnDB` (`total_burn` is the burns of the fork's
  rows): what a sum over rows is when a row is added needs an induction over data
  that the prover does not have. The other counter is proved (`SortitionsAreCounted`).
- `ConfirmedMicroblocksKept`, `StreamHeadFound` and `StreamsAppendOnly` of
  `StagingBlocks`, and `TableAgreesWithReindex`, `AcceptedSucceed`,
  `FinalOnceComplete` and `NoZonefileLost` of `AtlasZonefiles`: they are about sorted
  sequences and folds over them, with the same obstacle.
- `Conversation`.

The inductive invariants of `RollbackWrapper`, `StagingBlocks` and `AtlasZonefiles`
are conjunctions of properties of the runs and of the strengthenings named above.

## What is not modelled

- Parsing and encoding of Bitcoin transactions, Stacks messages, zone files,
  addresses; hashes, signatures, VRF: data formats and primitives.
- The Clarity interpreter, parser and type checker: functions over an unbounded
  set of programs.
- Synchronisation with the burn chain: threads, channels, the headers file.
- The tries of the MARF and the Clarity backing store: used through their
  interfaces.
- The winner's arithmetic: the draw is any accepted commit.
- Of the chain state: accounts and rewards, user burn supports, streaming of
  stored data to peers, admission of transactions.
- Of the network: handshakes and authentication, registration of sockets,
  pruning, the other states of the walk, the peer database; HTTP and RPC.
- Of the Python node: consensus hashes, queries about the past, Atlas peers, the
  daemon, RPC, clients, fast sync.
- The command-line programs: dispatch around the parts above.
