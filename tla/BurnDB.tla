------------------------------ MODULE BurnDB ------------------------------
(***************************************************************************)
(* The burn-chain database of a Stacks node and the transition that        *)
(* extends it: Burnchain::process_block checks the Stacks operations of one*)
(* burn-chain block against the fork the block extends, builds the burn    *)
(* distribution, runs the sortition, commits a trie to the MARF index and  *)
(* then commits the snapshot and the accepted operations to Sqlite.        *)
(*                                                                         *)
(* The database holds every fork it has seen.  Everything a check reads is *)
(* read "as of" the parent block: by height through the trie's ancestor    *)
(* table, by key through the trie's key/value pairs, and then by row.      *)
(***************************************************************************)
EXTENDS Integers, FiniteSets, FiniteSetsExt

CONSTANTS
    BurnHash,               \* burn block header hashes
    FirstHash,              \* hash of the first (sentinel) burn block
    FirstHeight,            \* its height
    VRFKey,                 \* VRF public keys
    StacksBlock,            \* Stacks block header hashes
    FirstStacksBlock,       \* FIRST_STACKS_BLOCK_HASH, also the all-zero "no winner"
    Address,                \* burn-chain address bytes
    Vtx,                    \* transaction offsets in a burn block
    Bodies,                 \* the bodies a burn block may have: operations by offset
    ConsensusHashLifetime,  \* how many blocks back a consensus hash is fresh
    U64Max                  \* u64::max_value()

(***************************************************************************)
(* Parsed operations.  consensus_hash names the burn block whose consensus *)
(* hash the sender copied into the transaction.                            *)
(***************************************************************************)
LeaderKeyRegister ==
    [op: {"key"}, txid: Nat, public_key: VRFKey, address: Address, consensus_hash: BurnHash]

LeaderBlockCommit ==
    [op: {"commit"}, txid: Nat, block_header_hash: StacksBlock, burn_fee: Nat, input: Address,
     key_block_ptr: Nat, key_vtxindex: Vtx, parent_block_ptr: Nat, parent_vtxindex: Nat]

UserBurnSupport ==
    [op: {"burn"}, txid: Nat, public_key: VRFKey, block_header_hash_160: StacksBlock,
     burn_fee: Nat, key_block_ptr: Nat, key_vtxindex: Vtx, consensus_hash: BurnHash]

ASSUME ConstantAssumption ==
    /\ FirstHash \in BurnHash
    /\ FirstHeight \in Nat
    /\ FirstStacksBlock \in StacksBlock
    /\ Vtx \subseteq Nat
    /\ ConsensusHashLifetime \in Nat
    /\ U64Max \in Nat

\* A transaction has one offset in a block, and its identifier determines it.
ASSUME BodyAssumption ==
    /\ \A f \in Bodies :
          /\ DOMAIN f \subseteq Vtx /\ IsFiniteSet(DOMAIN f)
          /\ \A v \in DOMAIN f : f[v] \in LeaderKeyRegister \cup LeaderBlockCommit \cup UserBurnSupport
          /\ \A v, w \in DOMAIN f : f[v].txid = f[w].txid => v = w
    /\ \A f, g \in Bodies : \A v \in DOMAIN f, w \in DOMAIN g : f[v].txid = g[w].txid => f[v] = g[w]

VARIABLES
    burnchain,      \* contents of the burn blocks offered so far: hash -> [parent, txs]
    tries,          \* the MARF index on disk: hash -> trie of that block
    snapshots,      \* table snapshots: hash -> row
    leader_keys,    \* table leader_keys
    block_commits,  \* table block_commits
    user_burns,     \* table user_burn_support
    pending,        \* the open Sqlite transaction: {} or one set of rows to insert
    up              \* is the process running?

db == <<snapshots, leader_keys, block_commits, user_burns>>
vars == <<burnchain, tries, db, pending, up>>

-----------------------------------------------------------------------------
(***************************************************************************)
(* Reading the database as of a chain tip.                                 *)
(***************************************************************************)

\* The blocks of the fork that ends in tip, and the block at one height of it.
Ancestors(tip) == {tries[tip].path[h] : h \in DOMAIN tries[tip].path}
HasAncestor(h, tip) == h \in DOMAIN tries[tip].path
AncestorAt(h, tip) == tries[tip].path[h]

\* The rows of a table at a height and offset of a fork (at most one).
get_leader_key_at(h, v, tip) ==
    {r \in leader_keys : HasAncestor(h, tip) /\ r.burn_header_hash = AncestorAt(h, tip) /\ r.vtxindex = v}

get_block_commit_parent(h, v, tip) ==
    {r \in block_commits : HasAncestor(h, tip) /\ r.burn_header_hash = AncestorAt(h, tip) /\ r.vtxindex = v}

has_VRF_public_key(key, tip) == tries[tip].vrf[key] # "absent"

\* With a defect: a key unknown to the fork, not a consumed one, counts as consumed.
ConsumedIsAbsent(key, tip) == tries[tip].vrf[key] = "absent"

is_leader_key_consumed(key, tip) == tries[tip].vrf[key] = "consumed"

\* With a defect: only the sentinel block counts as a winner of the fork.
OnlySentinelExpected(block, tip) == block = FirstStacksBlock

expects_stacks_block_in_fork(block, tip) == block \in DOMAIN tries[tip].winners

\* Is the consensus hash of block seen one of the last ones of the fork?
OldestFresh(tip) ==
    LET cur == snapshots[tip].block_height
    IN  IF cur - ConsensusHashLifetime < FirstHeight THEN FirstHeight ELSE cur - ConsensusHashLifetime

is_fresh_consensus_hash(seen, tip) ==
    /\ seen \in DOMAIN snapshots
    /\ \E h \in OldestFresh(tip) .. snapshots[tip].block_height :
          snapshots[AncestorAt(h, tip)].consensus_hash = snapshots[seen].consensus_hash

-----------------------------------------------------------------------------
(***************************************************************************)
(* check() of the three operations; tip is the parent of the block being   *)
(* processed.                                                              *)
(***************************************************************************)
CheckLeaderKeyRegister(t, tip) ==
    /\ ~has_VRF_public_key(t.public_key, tip)
    /\ is_fresh_consensus_hash(t.consensus_hash, tip)

\* With a defect: the key may be consumed already.
ConsumedKeyPasses(t, tip) ==
    /\ t.key_block_ptr # 0 /\ t.key_block_ptr <= snapshots[tip].block_height
    /\ \E key \in get_leader_key_at(t.key_block_ptr, t.key_vtxindex, tip) : key.tx.address = t.input

CheckCommitKey(t, tip) ==
    /\ t.key_block_ptr # 0 /\ t.key_block_ptr < snapshots[tip].block_height + 1
    /\ \E key \in get_leader_key_at(t.key_block_ptr, t.key_vtxindex, tip) :
          /\ ~is_leader_key_consumed(key.tx.public_key, tip)
          /\ key.tx.address = t.input

\* With a defect: the parent commit is not looked up.
AnyParentPasses(t, tip) == t.parent_block_ptr < snapshots[tip].block_height + 1

CheckCommitParent(t, tip) ==
    /\ t.parent_block_ptr < snapshots[tip].block_height + 1
    /\ \/ t.parent_block_ptr = 0 /\ t.parent_vtxindex = 0
       \/ /\ t.parent_block_ptr # 0
          /\ get_block_commit_parent(t.parent_block_ptr, t.parent_vtxindex, tip) # {}

CheckLeaderBlockCommit(t, tip) ==
    /\ t.burn_fee # 0
    /\ snapshots[tip].block_height + 1 >= FirstHeight
    /\ ~expects_stacks_block_in_fork(t.block_header_hash, tip)
    /\ CheckCommitKey(t, tip)
    /\ CheckCommitParent(t, tip)

CheckUserBurnSupport(t, tip) ==
    /\ is_fresh_consensus_hash(t.consensus_hash, tip)
    /\ t.key_block_ptr # 0 /\ t.key_block_ptr <= snapshots[tip].block_height + 1
    /\ get_leader_key_at(t.key_block_ptr, t.key_vtxindex, tip) # {}

-----------------------------------------------------------------------------
(***************************************************************************)
(* check_block_ops and from_block_ops.  The operations of a block are a    *)
(* function txs from their offsets; the sets below are sets of offsets.    *)
(***************************************************************************)
OfKind(txs, kind) == {v \in DOMAIN txs : txs[v].op = kind}

\* Key registrations that pass check(), and the first one of each key
\* (filter_block_VRF_dups).
CheckedKeys(txs, tip) == {v \in OfKind(txs, "key") : CheckLeaderKeyRegister(txs[v], tip)}
filter_block_VRF_dups(txs, checked) ==
    {v \in checked : \A w \in checked : w < v => txs[w].public_key # txs[v].public_key}
AcceptedKeys(txs, tip) == filter_block_VRF_dups(txs, CheckedKeys(txs, tip))

CheckedCommits(txs, tip) == {v \in OfKind(txs, "commit") : CheckLeaderBlockCommit(txs[v], tip)}
CheckedBurns(txs, tip) == {v \in OfKind(txs, "burn") : CheckUserBurnSupport(txs[v], tip)}

\* The row of the leader key that commit t consumes, and the VRF keys that
\* the commits of the block consume (get_consumed_leader_keys).
KeyOf(t, tip) == CHOOSE r \in get_leader_key_at(t.key_block_ptr, t.key_vtxindex, tip) : TRUE

\* With a defect: only the first commit of a block consumes its key.
FirstConsumedKey(txs, tip) ==
    LET commits == CheckedCommits(txs, tip)
    IN  {KeyOf(txs[v], tip).tx.public_key : v \in {v \in commits : \A w \in commits : v <= w}}

ConsumedKeys(txs, tip) == {KeyOf(txs[v], tip).tx.public_key : v \in CheckedCommits(txs, tip)}

\* Two commits that point at one leader key: make_distribution asserts that
\* this does not happen.
SharedLeaderKey(txs, tip) ==
    \E v, w \in CheckedCommits(txs, tip) :
        /\ v # w
        /\ txs[v].key_block_ptr = txs[w].key_block_ptr
        /\ txs[v].key_vtxindex = txs[w].key_vtxindex

\* apply_user_burns: a user burn supports the commit to its block by its key.
Supports(txs, tip, u, v) ==
    /\ txs[u].public_key = KeyOf(txs[v], tip).tx.public_key
    /\ txs[u].block_header_hash_160 = txs[v].block_header_hash
AcceptedBurns(txs, tip) ==
    {u \in CheckedBurns(txs, tip) : \E v \in CheckedCommits(txs, tip) : Supports(txs, tip, u, v)}

\* With a defect: user burns that match no commit are counted.
TotalOfAllBurns(txs, tip) ==
    LET Fee(v) == txs[v].burn_fee
    IN  MapThenSumSet(Fee, CheckedCommits(txs, tip) \cup CheckedBurns(txs, tip))

\* get_total_burns of the distribution; a total of U64Max or more is None.
BurnTotal(txs, tip) ==
    LET Fee(v) == txs[v].burn_fee
    IN  MapThenSumSet(Fee, CheckedCommits(txs, tip) \cup AcceptedBurns(txs, tip))

\* make_sortition_ranges unwraps the total when it has ranges to divide.
RangesOverflow(txs, tip) ==
    Cardinality(CheckedCommits(txs, tip)) > 1 /\ BurnTotal(txs, tip) >= U64Max

AcceptedOps(txs, tip) ==
    AcceptedKeys(txs, tip) \cup CheckedCommits(txs, tip) \cup AcceptedBurns(txs, tip)

-----------------------------------------------------------------------------
(***************************************************************************)
(* make_snapshot.  A hash is the value hashed: the consensus hash is made  *)
(* of the accepted transactions in order, the total burn and the consensus *)
(* hashes 0, 1, 3, 7, ... blocks back from the parent.                     *)
(***************************************************************************)
get_prev_consensus_hashes(tip) ==
    LET height == snapshots[tip].block_height
        Back == {i \in 0 .. height : height - (2^i - 1) >= FirstHeight}
    IN  {<<i, snapshots[AncestorAt(height - (2^i - 1), tip)].consensus_hash>> : i \in Back}

OpsHash(txs, ops) == {<<Cardinality({w \in ops : w <= v}), txs[v].txid>> : v \in ops}

ConsensusHash(txs, tip, total) ==
    [ops |-> OpsHash(txs, AcceptedOps(txs, tip)), burn |-> total, prev |-> get_prev_consensus_hashes(tip)]

\* Is there a sortition?  Not without commits, without burns, when the block's
\* burns overflow, or when the cumulative burn would.
HasSortition(txs, tip) ==
    /\ CheckedCommits(txs, tip) # {}
    /\ BurnTotal(txs, tip) # 0
    /\ BurnTotal(txs, tip) < U64Max
    /\ snapshots[tip].total_burn + BurnTotal(txs, tip) <= U64Max

NoSortitionSnapshot(txs, tip) ==
    [block_height |-> snapshots[tip].block_height + 1,
     parent_burn_header_hash |-> tip,
     consensus_hash |-> ConsensusHash(txs, tip, snapshots[tip].total_burn),
     total_burn |-> snapshots[tip].total_burn,
     sortition |-> FALSE,
     winning_block_txid |-> {},
     winning_stacks_block_hash |-> FirstStacksBlock,
     num_sortitions |-> snapshots[tip].num_sortitions]

SortitionSnapshot(txs, tip, v) ==
    LET total == snapshots[tip].total_burn + BurnTotal(txs, tip)
    IN  [block_height |-> snapshots[tip].block_height + 1,
         parent_burn_header_hash |-> tip,
         consensus_hash |-> ConsensusHash(txs, tip, total),
         total_burn |-> total,
         sortition |-> TRUE,
         winning_block_txid |-> {txs[v].txid},
         winning_stacks_block_hash |-> txs[v].block_header_hash,
         num_sortitions |-> snapshots[tip].num_sortitions + 1]

\* The possible snapshots: the winner is drawn by a hash of the VRF seed, so
\* any commit of the distribution may win.
MakeSnapshot(txs, tip) ==
    IF HasSortition(txs, tip)
    THEN {SortitionSnapshot(txs, tip, v) : v \in CheckedCommits(txs, tip)}
    ELSE {NoSortitionSnapshot(txs, tip)}

-----------------------------------------------------------------------------
\* With a defect: the trie's path leaves the block itself out.
PathWithoutSelf(b, tip, sn) == tries[tip].path

(***************************************************************************)
(* index_add_fork_info: the trie of block b extends the trie of its parent *)
(* by the block itself, the keys registered and consumed, and the winner.  *)
(***************************************************************************)
TriePath(b, tip, sn) ==
    [h \in FirstHeight .. sn.block_height |-> IF h = sn.block_height THEN b ELSE tries[tip].path[h]]

TrieVRF(txs, tip) ==
    LET keys == {txs[v].public_key : v \in AcceptedKeys(txs, tip)}
    IN  [k \in VRFKey |-> IF k \in ConsumedKeys(txs, tip) THEN "consumed"
                          ELSE IF k \in keys THEN "available" ELSE tries[tip].vrf[k]]

\* With a defect: the index entry for the last sortition is not moved.
LastSortitionOfParent(b, tip, sn) == tries[tip].last_sortition

TrieLastSortition(b, tip, sn) == IF sn.sortition THEN b ELSE tries[tip].last_sortition

TrieWinners(b, tip, sn) ==
    LET winners == tries[tip].winners
        winner == sn.winning_stacks_block_hash
    IN  IF ~sn.sortition THEN winners
        ELSE [s \in DOMAIN winners \cup {winner} |-> IF s = winner THEN b ELSE winners[s]]

MakeTrie(b, txs, tip, sn) ==
    [path |-> TriePath(b, tip, sn), vrf |-> TrieVRF(txs, tip),
     last_sortition |-> TrieLastSortition(b, tip, sn), winners |-> TrieWinners(b, tip, sn)]

Row(b, txs, tip, v) ==
    [tx |-> txs[v], burn_header_hash |-> b, vtxindex |-> v, block_height |-> snapshots[tip].block_height + 1]

\* The rows append_chain_tip_snapshot inserts.
MakeRows(b, txs, tip, sn) ==
    [hash |-> b, snapshot |-> sn,
     keys |-> {Row(b, txs, tip, v) : v \in AcceptedKeys(txs, tip)},
     commits |-> {Row(b, txs, tip, v) : v \in CheckedCommits(txs, tip)},
     burns |-> {Row(b, txs, tip, v) : v \in AcceptedBurns(txs, tip)}]

-----------------------------------------------------------------------------
\* The first snapshot is a sortition won by the sentinel Stacks block.
FirstSnapshot ==
    [block_height |-> FirstHeight, parent_burn_header_hash |-> FirstHash,
     consensus_hash |-> [ops |-> {}, burn |-> 0, prev |-> {}],
     total_burn |-> 0, sortition |-> TRUE, winning_block_txid |-> {},
     winning_stacks_block_hash |-> FirstStacksBlock, num_sortitions |-> 0]

FirstTrie ==
    [path |-> [h \in {FirstHeight} |-> FirstHash], vrf |-> [k \in VRFKey |-> "absent"],
     last_sortition |-> FirstHash, winners |-> [s \in {FirstStacksBlock} |-> FirstHash]]

Init ==
    /\ burnchain = [b \in {} |-> {}]
    /\ tries = [b \in {FirstHash} |-> FirstTrie]
    /\ snapshots = [b \in {FirstHash} |-> FirstSnapshot]
    /\ leader_keys = {} /\ block_commits = {} /\ user_burns = {}
    /\ pending = {}
    /\ up = TRUE

\* The contents a burn block may have: what it had before, or, for a block not
\* seen yet, transactions that its ancestors have not mined.
Txids(f) == {f[v].txid : v \in DOMAIN f}
Mined(tip) == UNION {Txids(burnchain[a].txs) : a \in Ancestors(tip) \ {FirstHash}}

Contents(b) ==
    IF b \in DOMAIN burnchain
    THEN {c \in {burnchain[b]} : c.parent \in DOMAIN snapshots}
    ELSE {c \in [parent: DOMAIN snapshots, txs: Bodies] : Txids(c.txs) \cap Mined(c.parent) = {}}

Offer(b, c) == burnchain' = [x \in DOMAIN burnchain \cup {b} |-> IF x = b THEN c ELSE burnchain[x]]

\* With a defect: a trie that exists already is not refused.
PanicsIgnoringIndex(b, c) == SharedLeaderKey(c.txs, c.parent) \/ RangesOverflow(c.txs, c.parent)

\* The assertions and expects that fail before anything is written: two
\* commits share a leader key, the ranges overflow, or the index already has
\* a trie for this block.
Panics(b, c) ==
    \/ SharedLeaderKey(c.txs, c.parent)
    \/ RangesOverflow(c.txs, c.parent)
    \/ b \in DOMAIN tries

\* process_block up to the commit of the index.
IndexBlock(b, c, sn) ==
    /\ up /\ pending = {}
    /\ ~Panics(b, c)
    /\ Offer(b, c)
    /\ tries' = [x \in DOMAIN tries \cup {b} |->
                    IF x = b THEN MakeTrie(b, c.txs, c.parent, sn) ELSE tries[x]]
    /\ pending' = {MakeRows(b, c.txs, c.parent, sn)}
    /\ UNCHANGED <<db, up>>

PanicInBlock(b, c) ==
    /\ up /\ pending = {}
    /\ Panics(b, c)
    /\ Offer(b, c)
    /\ up' = FALSE
    /\ UNCHANGED <<tries, db, pending>>

\* leader_keys.public_key is UNIQUE over all forks.
KeyConflict(rows) == \E r \in rows.keys : \E q \in leader_keys : q.tx.public_key = r.tx.public_key

\* With a defect: the snapshot row is not written.
CommitRowsOnly(rows) ==
    /\ up
    /\ ~KeyConflict(rows)
    /\ leader_keys' = leader_keys \cup rows.keys
    /\ block_commits' = block_commits \cup rows.commits
    /\ user_burns' = user_burns \cup rows.burns
    /\ pending' = {}
    /\ UNCHANGED <<burnchain, tries, snapshots, up>>

\* The inserts succeed and Sqlite commits.
CommitBlock(rows) ==
    /\ up
    /\ ~KeyConflict(rows)
    /\ snapshots' = [x \in DOMAIN snapshots \cup {rows.hash} |->
                        IF x = rows.hash THEN rows.snapshot ELSE snapshots[x]]
    /\ leader_keys' = leader_keys \cup rows.keys
    /\ block_commits' = block_commits \cup rows.commits
    /\ user_burns' = user_burns \cup rows.burns
    /\ pending' = {}
    /\ UNCHANGED <<burnchain, tries, up>>

\* An insert fails, store_burnchain_transaction panics, Sqlite rolls back.
PanicInStore(rows) ==
    /\ up
    /\ KeyConflict(rows)
    /\ up' = FALSE
    /\ pending' = {}
    /\ UNCHANGED <<burnchain, tries, db>>

Crash ==
    /\ up
    /\ up' = FALSE
    /\ pending' = {}
    /\ UNCHANGED <<burnchain, tries, db>>

Restart ==
    /\ ~up
    /\ up' = TRUE
    /\ UNCHANGED <<burnchain, tries, db, pending>>

Next ==
    \/ \E b \in BurnHash \ {FirstHash} : \E c \in Contents(b) :
          \/ \E sn \in MakeSnapshot(c.txs, c.parent) : IndexBlock(b, c, sn)
          \/ PanicInBlock(b, c)
    \/ \E rows \in pending : CommitBlock(rows) \/ PanicInStore(rows)
    \/ Crash
    \/ Restart

Spec == Init /\ [][Next]_vars

-----------------------------------------------------------------------------
(***************************************************************************)
(* Properties.                                                             *)
(***************************************************************************)
\* The database holds rows of the declared types, for blocks it has snapshots of.
TypeOK ==
    /\ up \in BOOLEAN
    /\ \A b \in DOMAIN burnchain : burnchain[b].txs \in Bodies
    /\ FirstHash \in DOMAIN snapshots
    /\ DOMAIN snapshots \subseteq DOMAIN tries
    /\ DOMAIN tries \subseteq BurnHash
    /\ \A b \in DOMAIN snapshots :
          /\ snapshots[b].block_height \in Nat
          /\ snapshots[b].num_sortitions \in Nat
          /\ snapshots[b].sortition \in BOOLEAN
          /\ snapshots[b].winning_stacks_block_hash \in StacksBlock
    /\ \A b \in DOMAIN tries :
          /\ tries[b].vrf \in [VRFKey -> {"absent", "available", "consumed"}]
          /\ DOMAIN tries[b].winners \subseteq StacksBlock
    /\ \A r \in leader_keys : r.tx \in LeaderKeyRegister /\ r.burn_header_hash \in DOMAIN snapshots
    /\ \A r \in block_commits : r.tx \in LeaderBlockCommit /\ r.burn_header_hash \in DOMAIN snapshots
    /\ \A r \in user_burns : r.tx \in UserBurnSupport /\ r.burn_header_hash \in DOMAIN snapshots

\* Whatever crashes happen between the two commits, the fork of a snapshot is
\* a contiguous chain of snapshots down to the first one: the "Discontiguous
\* index" panics of is_fresh_consensus_hash and get_fresh_consensus_hashes, and
\* the failed ancestor lookups, are unreachable.
ForkContiguous ==
    \A b \in DOMAIN snapshots :
        LET path == tries[b].path
            top == snapshots[b].block_height
        IN  /\ FirstHeight <= top /\ DOMAIN path = FirstHeight .. top
            /\ path[FirstHeight] = FirstHash /\ path[top] = b
            /\ \A h \in DOMAIN path :
                  /\ path[h] \in DOMAIN snapshots
                  /\ snapshots[path[h]].block_height = h
                  /\ h > FirstHeight => snapshots[path[h]].parent_burn_header_hash = path[h - 1]

\* A leader key is consumed at most once in a fork, whether the commits come
\* in one block or in several ("a previously-accepted *unused* key").
KeyConsumedOnce ==
    \A b \in DOMAIN snapshots : \A r, q \in block_commits :
        /\ r.burn_header_hash \in Ancestors(b) /\ q.burn_header_hash \in Ancestors(b)
        /\ r.tx.key_block_ptr = q.tx.key_block_ptr /\ r.tx.key_vtxindex = q.tx.key_vtxindex
        => r = q

\* A Stacks block wins at most one sortition in a fork ("Block must be unique
\* in this burnchain fork"), although losing commits to it may be repeated.
WinnerUniqueInFork ==
    \A b \in DOMAIN snapshots : \A x, y \in Ancestors(b) :
        /\ snapshots[x].sortition /\ snapshots[y].sortition
        /\ snapshots[x].winning_stacks_block_hash = snapshots[y].winning_stacks_block_hash
        => x = y

\* The registrations of a VRF key in the fork of b, and the commits that use one.
Registrations(b, k) == {r \in leader_keys : r.burn_header_hash \in Ancestors(b) /\ r.tx.public_key = k}
Uses(b, k) ==
    {r \in block_commits : /\ r.burn_header_hash \in Ancestors(b)
                           /\ \E key \in Registrations(b, k) : /\ key.block_height = r.tx.key_block_ptr
                                                               /\ key.vtxindex = r.tx.key_vtxindex}

\* The trie of a block says of every VRF key what the tables say of the
\* block's fork: absent, registered and unused, or consumed by a commit.
KeyIndexAgrees ==
    \A b \in DOMAIN snapshots : \A k \in VRFKey :
        /\ tries[b].vrf[k] = "absent" <=> Registrations(b, k) = {}
        /\ tries[b].vrf[k] = "consumed" <=> Uses(b, k) # {}

\* The sortitions of the fork of b.
Won(b) == {a \in Ancestors(b) : snapshots[a].sortition}

\* The index entries for sortitions name the right blocks: last_sortition is the
\* highest sortition of the fork, its winning commit is in the table (so that
\* select_winning_block's expect holds), and the winners are those of the fork.
LastSortitionRight(b, last) ==
    /\ last \in Won(b)
    /\ \A a \in Won(b) : snapshots[a].block_height <= snapshots[last].block_height
    /\ last # FirstHash =>
          \E r \in block_commits : r.burn_header_hash = last /\ {r.tx.txid} = snapshots[last].winning_block_txid

WinnersRight(b, winners) ==
    /\ DOMAIN winners = {snapshots[a].winning_stacks_block_hash : a \in Won(b)}
    /\ \A a \in Won(b) : winners[snapshots[a].winning_stacks_block_hash] = a

SortitionIndexAgrees ==
    \A b \in DOMAIN snapshots :
        LastSortitionRight(b, tries[b].last_sortition) /\ WinnersRight(b, tries[b].winners)

\* The counters of a snapshot are those of its fork: the sortitions since the
\* first block, and the burns of the commits and user burns stored for the
\* blocks that had one.
SortitionsCounted ==
    \A b \in DOMAIN snapshots : snapshots[b].num_sortitions = Cardinality(Won(b) \ {FirstHash})

BurnsCounted ==
    \A b \in DOMAIN snapshots :
        LET Fee(r) == r.tx.burn_fee
            paid == {r \in block_commits \cup user_burns : r.burn_header_hash \in Won(b) \ {FirstHash}}
        IN  snapshots[b].total_burn \in 0 .. U64Max /\ snapshots[b].total_burn = MapThenSumSet(Fee, paid)

CountersAgree == SortitionsCounted /\ BurnsCounted

\* Every accepted commit points at a key registered earlier in its own fork by
\* the same address, and builds on the genesis block or on an earlier commit of
\* its own fork.
CommitsResolve ==
    \A r \in block_commits :
        LET tip == r.burn_header_hash
        IN  /\ r.tx.key_block_ptr < r.block_height
            /\ \E key \in get_leader_key_at(r.tx.key_block_ptr, r.tx.key_vtxindex, tip) : key.tx.address = r.tx.input
            /\ r.tx.parent_block_ptr < r.block_height
            /\ r.tx.parent_block_ptr # 0 =>
                  get_block_commit_parent(r.tx.parent_block_ptr, r.tx.parent_vtxindex, tip) # {}

\* What was committed stays: no step removes or changes a snapshot, its rows or
\* its trie, and a step that adds rows adds those of one block on a known fork.
HistoryStep ==
    /\ \A b \in DOMAIN snapshots : b \in DOMAIN snapshots' /\ snapshots'[b] = snapshots[b] /\ tries'[b] = tries[b]
    /\ leader_keys \subseteq leader_keys' /\ block_commits \subseteq block_commits'
    /\ \A r \in (leader_keys' \ leader_keys) \cup (block_commits' \ block_commits) :
          r.burn_header_hash \in DOMAIN snapshots' \ DOMAIN snapshots
HistoryKept == [][HistoryStep]_vars

(***************************************************************************)
(* What makes these inductive.  Rows belong to the block and height they   *)
(* name, one per offset; a commit points below its own height; the index   *)
(* knows every winner of a fork; and the open Sqlite transaction and the   *)
(* trie already on disk extend a snapshot p by what check() let through.   *)
(***************************************************************************)
RowsPlaced ==
    /\ \A r \in leader_keys \cup block_commits :
          /\ r.burn_header_hash \in DOMAIN snapshots
          /\ r.block_height = snapshots[r.burn_header_hash].block_height
    /\ \A r, q \in leader_keys :
          r.burn_header_hash = q.burn_header_hash /\ r.vtxindex = q.vtxindex => r = q
    /\ \A r \in block_commits : r.tx.key_block_ptr < r.block_height

WinnersIndexed ==
    \A b \in DOMAIN snapshots : \A a \in Ancestors(b) :
        snapshots[a].sortition => snapshots[a].winning_stacks_block_hash \in DOMAIN tries[b].winners

PendingSnapshot(rows, p) ==
    /\ rows.snapshot.block_height = snapshots[p].block_height + 1
    /\ rows.snapshot.parent_burn_header_hash = p
    /\ rows.snapshot.sortition \in BOOLEAN
    /\ rows.snapshot.num_sortitions \in Nat
    /\ rows.snapshot.winning_stacks_block_hash \in StacksBlock

PendingKeys(rows, p) ==
    /\ \A r \in rows.keys :
          /\ r.tx \in LeaderKeyRegister
          /\ r.burn_header_hash = rows.hash /\ r.block_height = snapshots[p].block_height + 1
          /\ tries[p].vrf[r.tx.public_key] = "absent"
    /\ \A r, q \in rows.keys : r.vtxindex = q.vtxindex => r = q

PendingCommits(rows, p) ==
    /\ \A r \in rows.commits :
          /\ r.tx \in LeaderBlockCommit
          /\ r.burn_header_hash = rows.hash /\ r.block_height = snapshots[p].block_height + 1
          /\ r.tx.key_block_ptr < r.block_height
          /\ \E key \in get_leader_key_at(r.tx.key_block_ptr, r.tx.key_vtxindex, p) :
                tries[p].vrf[key.tx.public_key] # "consumed"
    /\ \A r, q \in rows.commits :
          r.tx.key_block_ptr = q.tx.key_block_ptr /\ r.tx.key_vtxindex = q.tx.key_vtxindex => r = q

PendingBurns(rows) == \A r \in rows.burns : r.tx \in UserBurnSupport /\ r.burn_header_hash = rows.hash

\* Is k the key of a leader key that a commit of rows consumes?
ConsumedIn(rows, p, k) ==
    \E r \in rows.commits : \E key \in get_leader_key_at(r.tx.key_block_ptr, r.tx.key_vtxindex, p) :
        key.tx.public_key = k

PendingTrie(rows, p) ==
    LET trie == tries[rows.hash]
        height == snapshots[p].block_height + 1
    IN  /\ trie.path = [h \in FirstHeight .. height |-> IF h = height THEN rows.hash ELSE tries[p].path[h]]
        /\ \A k \in VRFKey :
              /\ ConsumedIn(rows, p, k) => trie.vrf[k] = "consumed"
              /\ ~ConsumedIn(rows, p, k) /\ (\E r \in rows.keys : r.tx.public_key = k) => trie.vrf[k] = "available"
              /\ ~ConsumedIn(rows, p, k) /\ ~(\E r \in rows.keys : r.tx.public_key = k) => trie.vrf[k] = tries[p].vrf[k]
        /\ DOMAIN tries[p].winners \subseteq DOMAIN trie.winners
        /\ rows.snapshot.sortition =>
              /\ rows.snapshot.winning_stacks_block_hash \notin DOMAIN tries[p].winners
              /\ rows.snapshot.winning_stacks_block_hash \in DOMAIN trie.winners

InFlight(rows, p) ==
    /\ rows.hash \in DOMAIN tries \ DOMAIN snapshots
    /\ PendingSnapshot(rows, p) /\ PendingKeys(rows, p) /\ PendingCommits(rows, p)
    /\ PendingBurns(rows) /\ PendingTrie(rows, p)

PendingInFlight == \A rows \in pending : \E p \in DOMAIN snapshots : InFlight(rows, p)

KeyInv ==
    /\ TypeOK /\ ForkContiguous /\ RowsPlaced /\ KeyIndexAgrees /\ KeyConsumedOnce
    /\ WinnersIndexed /\ WinnerUniqueInFork /\ PendingInFlight

\* What the open transaction and its trie say of the sortition: the entries of
\* the index move to this block, and its winner is one of its commits.
PendingSortition(rows, p) ==
    LET trie == tries[rows.hash]
        winner == rows.snapshot.winning_stacks_block_hash
    IN  IF rows.snapshot.sortition
        THEN /\ trie.last_sortition = rows.hash
             /\ DOMAIN trie.winners = DOMAIN tries[p].winners \cup {winner}
             /\ trie.winners[winner] = rows.hash
             /\ \A s \in DOMAIN tries[p].winners : trie.winners[s] = tries[p].winners[s]
             /\ \E r \in rows.commits : {r.tx.txid} = rows.snapshot.winning_block_txid
             /\ rows.snapshot.num_sortitions = snapshots[p].num_sortitions + 1
        ELSE /\ trie.last_sortition = tries[p].last_sortition
             /\ trie.winners = tries[p].winners
             /\ rows.snapshot.num_sortitions = snapshots[p].num_sortitions

\* Its commits point into the fork they extend.
PendingPointers(rows, p) ==
    \A r \in rows.commits :
        /\ \E key \in get_leader_key_at(r.tx.key_block_ptr, r.tx.key_vtxindex, p) : key.tx.address = r.tx.input
        /\ r.tx.parent_block_ptr < r.block_height
        /\ r.tx.parent_block_ptr # 0 =>
              get_block_commit_parent(r.tx.parent_block_ptr, r.tx.parent_vtxindex, p) # {}

PendingSortitions ==
    \A rows \in pending :
        LET p == rows.snapshot.parent_burn_header_hash
        IN  PendingSortition(rows, p) /\ PendingPointers(rows, p)

IndInv == KeyInv /\ SortitionIndexAgrees /\ SortitionsCounted /\ CommitsResolve /\ PendingSortitions

=============================================================================
