------------------------- MODULE BurnDB_sortitions -------------------------
(***************************************************************************)
(* The sortition entries of the index, the sortition counter and the       *)
(* pointers of accepted commits are right on every fork.  This builds on   *)
(* KeyInv: the trie written before the Sqlite transaction and the rows     *)
(* inside it have to agree on who won, whatever happens in between.        *)
(***************************************************************************)
EXTENDS BurnDB_proofs, FiniteSetTheorems

\* The parts of IndInv beyond KeyInv that are about committed blocks only.
Sortitions == SortitionIndexAgrees /\ SortitionsCounted /\ CommitsResolve

-----------------------------------------------------------------------------
(***************************************************************************)
(* Steps that leave the tables and the tries of committed blocks alone.    *)
(***************************************************************************)

\* What is said of sortitions and commits stays true when no table and no trie
\* of a committed block changes.
LEMMA SortitionsFrame ==
    ASSUME KeyInv, Sortitions, UNCHANGED db, \A x \in DOMAIN snapshots : tries'[x] = tries[x]
    PROVE  Sortitions'
<1>1. /\ snapshots' = snapshots /\ leader_keys' = leader_keys /\ block_commits' = block_commits
      /\ \A x \in DOMAIN snapshots : Won(x)' = Won(x)
    BY DEF db, Ancestors, Won
<1>2. SortitionIndexAgrees'
  <2>1. ASSUME NEW x \in DOMAIN snapshots, NEW last, LastSortitionRight(x, last)
        PROVE  LastSortitionRight(x, last)'
    BY <1>1, <2>1, Zenon DEF LastSortitionRight
  <2>2. ASSUME NEW x \in DOMAIN snapshots, NEW winners, WinnersRight(x, winners)
        PROVE  WinnersRight(x, winners)'
    BY <1>1, <2>2 DEF WinnersRight
  <2>. QED BY <1>1, <2>1, <2>2 DEF Sortitions, SortitionIndexAgrees
<1>3. SortitionsCounted'
    BY <1>1 DEF Sortitions, SortitionsCounted
<1>4. CommitsResolve'
  <2>1. \A r \in block_commits : r.burn_header_hash \in DOMAIN snapshots
    BY DEF KeyInv, RowsPlaced
  <2>2. \A x \in DOMAIN snapshots : \A h, v :
           /\ get_leader_key_at(h, v, x)' = get_leader_key_at(h, v, x)
           /\ get_block_commit_parent(h, v, x)' = get_block_commit_parent(h, v, x)
    BY <1>1 DEF get_leader_key_at, get_block_commit_parent, HasAncestor, AncestorAt
  <2>. QED BY <1>1, <2>1, <2>2 DEF Sortitions, CommitsResolve
<1>. QED BY <1>2, <1>3, <1>4 DEF Sortitions

\* The database that instantiate creates has one sortition, won by the sentinel.
LEMMA SortitionsInit == Init => Sortitions /\ PendingSortitions
<1> SUFFICES ASSUME Init PROVE Sortitions /\ PendingSortitions
    OBVIOUS
<1>1. /\ DOMAIN snapshots = {FirstHash} /\ Ancestors(FirstHash) = {FirstHash}
      /\ snapshots[FirstHash].sortition = TRUE
      /\ snapshots[FirstHash].block_height = FirstHeight
      /\ snapshots[FirstHash].winning_stacks_block_hash = FirstStacksBlock
      /\ snapshots[FirstHash].num_sortitions = 0
      /\ tries[FirstHash].last_sortition = FirstHash
      /\ tries[FirstHash].winners = [s \in {FirstStacksBlock} |-> FirstHash]
    BY DEF Init, FirstSnapshot, FirstTrie, Ancestors
<1>2. Won(FirstHash) = {FirstHash}
    BY <1>1 DEF Won
<1>3. SortitionIndexAgrees /\ SortitionsCounted
  <2>1. LastSortitionRight(FirstHash, FirstHash)
    BY <1>1, <1>2, ConstantAssumption DEF LastSortitionRight
  <2>2. WinnersRight(FirstHash, tries[FirstHash].winners)
    BY <1>1, <1>2 DEF WinnersRight
  <2>3. Won(FirstHash) \ {FirstHash} = {}
    BY <1>2
  <2>. QED BY <1>1, <2>1, <2>2, <2>3, FS_EmptySet DEF SortitionIndexAgrees, SortitionsCounted
<1>4. CommitsResolve /\ PendingSortitions
    BY DEF Init, CommitsResolve, PendingSortitions
<1>. QED BY <1>3, <1>4 DEF Sortitions

\* A crash, a panic and a restart change neither the tables nor the index.
LEMMA SortitionsHalt ==
    ASSUME KeyInv, Sortitions, PendingSortitions, UNCHANGED <<tries, db>>, pending' = {} \/ pending' = pending
    PROVE  Sortitions' /\ PendingSortitions'
<1>1. Sortitions'
    BY SortitionsFrame
<1>2. /\ tries' = tries /\ snapshots' = snapshots
      /\ leader_keys' = leader_keys /\ block_commits' = block_commits
    BY DEF db
<1>3. \A h, v, p : get_leader_key_at(h, v, p)' = get_leader_key_at(h, v, p)
    BY <1>2, Zenon DEF get_leader_key_at, HasAncestor, AncestorAt
<1>4. \A h, v, p : get_block_commit_parent(h, v, p)' = get_block_commit_parent(h, v, p)
    BY <1>2, Zenon DEF get_block_commit_parent, HasAncestor, AncestorAt
<1>5. ASSUME NEW rows, NEW p, PendingSortition(rows, p), PendingPointers(rows, p)
      PROVE  PendingSortition(rows, p)' /\ PendingPointers(rows, p)'
  <2>1. PendingSortition(rows, p)'
    BY <1>2, <1>5 DEF PendingSortition
  <2>2. PendingPointers(rows, p)'
    BY <1>3, <1>4, <1>5, Zenon DEF PendingPointers
  <2>. QED BY <2>1, <2>2
<1>6. PendingSortitions'
    BY <1>5, Zenon DEF PendingSortitions
<1>. QED BY <1>1, <1>6

-----------------------------------------------------------------------------
(***************************************************************************)
(* IndexBlock.                                                             *)
(***************************************************************************)

\* make_snapshot: the winner is one of the commits that passed check(), and the
\* counter goes up by one exactly when there is a winner.
LEMMA WinnerMade ==
    ASSUME NEW txs, NEW p, NEW sn \in MakeSnapshot(txs, p)
    PROVE  /\ sn.sortition => /\ sn.num_sortitions = snapshots[p].num_sortitions + 1
                              /\ \E v \in CheckedCommits(txs, p) : sn.winning_block_txid = {txs[v].txid}
           /\ ~sn.sortition => sn.num_sortitions = snapshots[p].num_sortitions
<1>1. CASE HasSortition(txs, p)
  <2>1. PICK v \in CheckedCommits(txs, p) : sn = SortitionSnapshot(txs, p, v)
    BY <1>1 DEF MakeSnapshot
  <2>2. /\ sn.sortition = TRUE /\ sn.num_sortitions = snapshots[p].num_sortitions + 1
        /\ sn.winning_block_txid = {txs[v].txid}
    BY <2>1 DEF SortitionSnapshot
  <2>. QED BY <2>2
<1>2. CASE ~HasSortition(txs, p)
  <2>1. sn = NoSortitionSnapshot(txs, p)
    BY <1>2 DEF MakeSnapshot
  <2>. QED BY <2>1 DEF NoSortitionSnapshot
<1>. QED BY <1>1, <1>2

\* The trie and the open transaction agree on the winner, and the commits point
\* into the parent's fork, as check() found.
LEMMA SortitionsIndexed ==
    ASSUME KeyInv, Sortitions, NEW b \in BurnHash \ {FirstHash}, NEW c \in Contents(b),
           NEW sn \in MakeSnapshot(c.txs, c.parent), IndexBlock(b, c, sn)
    PROVE  Sortitions' /\ PendingSortitions'
<1> DEFINE p == c.parent
           txs == c.txs
           H == snapshots[p].block_height + 1
<1>0. PICK rows : rows = MakeRows(b, txs, p, sn)
    OBVIOUS
<1>1. p \in DOMAIN snapshots /\ txs \in Bodies /\ DOMAIN snapshots \subseteq DOMAIN tries
    BY DEF Contents, KeyInv, TypeOK
<1>2. /\ b \notin DOMAIN tries /\ tries'[b] = MakeTrie(b, txs, p, sn)
      /\ \A x \in DOMAIN tries : tries'[x] = tries[x]
      /\ pending' = {rows}
    BY <1>0 DEF IndexBlock, Panics
<1>3. /\ snapshots' = snapshots /\ leader_keys' = leader_keys /\ block_commits' = block_commits
    BY DEF IndexBlock, db
<1>4. Sortitions'
  <2>1. UNCHANGED db /\ \A x \in DOMAIN snapshots : tries'[x] = tries[x]
    BY <1>1, <1>2 DEF IndexBlock
  <2>. QED BY <2>1, SortitionsFrame
<1>5. sn.parent_burn_header_hash = p /\ (sn.sortition => sn.winning_stacks_block_hash \notin DOMAIN tries[p].winners)
    BY <1>1, SnapshotMade DEF KeyInv
<1>6. /\ rows.hash = b /\ rows.snapshot = sn
      /\ rows.commits = {Row(b, txs, p, v) : v \in CheckedCommits(txs, p)}
    BY <1>0 DEF MakeRows
<1>7. \A v : Row(b, txs, p, v).tx = txs[v] /\ Row(b, txs, p, v).block_height = H
    BY DEF Row
<1>8. \A h, v : /\ get_leader_key_at(h, v, p)' = get_leader_key_at(h, v, p)
                /\ get_block_commit_parent(h, v, p)' = get_block_commit_parent(h, v, p)
    BY <1>1, <1>2, <1>3 DEF get_leader_key_at, get_block_commit_parent, HasAncestor, AncestorAt
<1>9. PendingSortition(rows, p)'
  <2>1. /\ tries'[b].last_sortition = TrieLastSortition(b, p, sn)
        /\ tries'[b].winners = TrieWinners(b, p, sn)
    BY <1>2 DEF MakeTrie
  <2>2. tries'[p] = tries[p] /\ snapshots'[p] = snapshots[p]
    BY <1>1, <1>2, <1>3
  <2>3. CASE sn.sortition
    <3>1. tries'[b].last_sortition = b
        BY <2>1, <2>3 DEF TrieLastSortition
    <3>2. /\ DOMAIN tries'[b].winners = DOMAIN tries[p].winners \cup {sn.winning_stacks_block_hash}
          /\ tries'[b].winners[sn.winning_stacks_block_hash] = b
          /\ \A s \in DOMAIN tries[p].winners : tries'[b].winners[s] = tries[p].winners[s]
        BY <2>1, <2>3, <1>5 DEF TrieWinners
    <3>3. /\ sn.num_sortitions = snapshots[p].num_sortitions + 1
          /\ \E r \in rows.commits : {r.tx.txid} = sn.winning_block_txid
      <4>1. PICK v \in CheckedCommits(txs, p) : sn.winning_block_txid = {txs[v].txid}
        BY <2>3, WinnerMade
      <4>. QED BY <4>1, <2>3, WinnerMade, <1>6, <1>7
    <3>. QED BY <2>2, <2>3, <3>1, <3>2, <3>3, <1>6, Zenon DEF PendingSortition
  <2>4. CASE ~sn.sortition
    <3>1. tries'[b].last_sortition = tries[p].last_sortition /\ tries'[b].winners = tries[p].winners
        BY <2>1, <2>4 DEF TrieLastSortition, TrieWinners
    <3>2. sn.num_sortitions = snapshots[p].num_sortitions
        BY <2>4, WinnerMade
    <3>. QED BY <2>2, <2>4, <3>1, <3>2, <1>6, Zenon DEF PendingSortition
  <2>. QED BY <2>3, <2>4
<1>10. PendingPointers(rows, p)'
  <2>1. ASSUME NEW v \in CheckedCommits(txs, p)
        PROVE  /\ \E key \in get_leader_key_at(txs[v].key_block_ptr, txs[v].key_vtxindex, p) :
                     key.tx.address = txs[v].input
               /\ txs[v].parent_block_ptr < H
               /\ txs[v].parent_block_ptr # 0 =>
                     get_block_commit_parent(txs[v].parent_block_ptr, txs[v].parent_vtxindex, p) # {}
    BY DEF CheckedCommits, CheckLeaderBlockCommit, CheckCommitKey, CheckCommitParent
  <2> HIDE DEF p, txs, H
  <2>. QED BY <2>1, <1>6, <1>7, <1>8 DEF PendingPointers
<1>11. PendingSortitions'
    BY <1>2, <1>5, <1>6, <1>9, <1>10, Zenon DEF PendingSortitions
<1>. QED BY <1>4, <1>11

-----------------------------------------------------------------------------
(***************************************************************************)
(* CommitBlock.                                                            *)
(***************************************************************************)

\* The sortitions of a fork are finitely many.
LEMMA WonIsFinite ==
    ASSUME TypeOK, ForkContiguous, NEW x \in DOMAIN snapshots
    PROVE  IsFiniteSet(Won(x))
<1>1. DOMAIN tries[x].path = FirstHeight .. snapshots[x].block_height /\ snapshots[x].block_height \in Nat
    BY DEF TypeOK, ForkContiguous
<1>2. IsFiniteSet(DOMAIN tries[x].path)
    BY <1>1, FS_Interval, ConstantAssumption
<1>3. IsFiniteSet(Ancestors(x))
  <2> DEFINE f == [h \in DOMAIN tries[x].path |-> tries[x].path[h]]
  <2>1. f \in Surjection(DOMAIN tries[x].path, Ancestors(x))
    BY DEF Surjection, Ancestors
  <2>. QED BY <1>2, <2>1, FS_Surjection
<1>. QED BY <1>3, FS_Subset DEF Won

\* The block in flight becomes the tip of a fork: its sortitions are those of
\* its parent's fork and its own.
LEMMA CommittedBlock ==
    ASSUME KeyInv, PendingSortitions, NEW rows \in pending, CommitBlock(rows),
           NEW p \in DOMAIN snapshots, InFlight(rows, p)
    PROVE  /\ PendingSortition(rows, p) /\ PendingPointers(rows, p)
           /\ rows.hash \notin DOMAIN snapshots /\ rows.hash # FirstHash
           /\ DOMAIN snapshots' = DOMAIN snapshots \cup {rows.hash}
           /\ snapshots'[rows.hash] = rows.snapshot
           /\ \A x \in DOMAIN snapshots : /\ snapshots'[x] = snapshots[x]
                                          /\ Won(x) \subseteq DOMAIN snapshots
                                          /\ Won(x)' = Won(x)
           /\ Won(rows.hash)' = IF rows.snapshot.sortition THEN Won(p) \cup {rows.hash} ELSE Won(p)
           /\ tries' = tries /\ pending' = {}
           /\ leader_keys' = leader_keys \cup rows.keys /\ block_commits' = block_commits \cup rows.commits
<1> DEFINE b == rows.hash
<1>1. PendingSortition(rows, p) /\ PendingPointers(rows, p)
    BY DEF PendingSortitions, InFlight, PendingSnapshot
<1>2. b \notin DOMAIN snapshots /\ b # FirstHash
    BY DEF InFlight, KeyInv, TypeOK
<1>3. /\ DOMAIN snapshots' = DOMAIN snapshots \cup {b} /\ snapshots'[b] = rows.snapshot
      /\ \A x \in DOMAIN snapshots : snapshots'[x] = snapshots[x]
      /\ tries' = tries /\ pending' = {}
      /\ leader_keys' = leader_keys \cup rows.keys /\ block_commits' = block_commits \cup rows.commits
    BY <1>2 DEF CommitBlock
<1>4. \A x : Ancestors(x)' = Ancestors(x)
    BY <1>3 DEF Ancestors
<1>5. Ancestors(b) = Ancestors(p) \cup {b}
    BY ForkOfPending DEF KeyInv
<1>6. \A x \in DOMAIN snapshots : Ancestors(x) \subseteq DOMAIN snapshots
    BY ForkOfSnapshot DEF KeyInv
<1>7. \A x \in DOMAIN snapshots : Won(x) \subseteq DOMAIN snapshots /\ Won(x)' = Won(x)
    BY <1>3, <1>4, <1>6 DEF Won
<1>8. Won(b)' = IF rows.snapshot.sortition THEN Won(p) \cup {b} ELSE Won(p)
    BY <1>2, <1>3, <1>4, <1>5, <1>6 DEF Won
<1>. QED BY <1>1, <1>2, <1>3, <1>7, <1>8

\* The index entries of the new tip name its own sortition, or its parent's.
LEMMA CommitSortitionIndex ==
    ASSUME KeyInv, SortitionIndexAgrees, PendingSortitions, NEW rows \in pending, CommitBlock(rows)
    PROVE  SortitionIndexAgrees'
<1> DEFINE b == rows.hash
<1>1. PICK p \in DOMAIN snapshots : InFlight(rows, p)
    BY DEF KeyInv, PendingInFlight
<1>2. /\ PendingSortition(rows, p)
      /\ b \notin DOMAIN snapshots /\ b # FirstHash
      /\ DOMAIN snapshots' = DOMAIN snapshots \cup {b} /\ snapshots'[b] = rows.snapshot
      /\ \A x \in DOMAIN snapshots : /\ snapshots'[x] = snapshots[x]
                                     /\ Won(x) \subseteq DOMAIN snapshots
                                     /\ Won(x)' = Won(x)
      /\ Won(b)' = IF rows.snapshot.sortition THEN Won(p) \cup {b} ELSE Won(p)
      /\ tries' = tries /\ block_commits' = block_commits \cup rows.commits
    BY <1>1, CommittedBlock
<1>3. ASSUME NEW x \in DOMAIN snapshots
      PROVE  LastSortitionRight(x, tries[x].last_sortition) /\ WinnersRight(x, tries[x].winners)
    BY DEF SortitionIndexAgrees
<1>4. ASSUME NEW x \in DOMAIN snapshots
      PROVE  LastSortitionRight(x, tries[x].last_sortition)' /\ WinnersRight(x, tries[x].winners)'
  <2>1. LastSortitionRight(x, tries[x].last_sortition)'
    BY <1>2, <1>3 DEF LastSortitionRight
  <2>2. WinnersRight(x, tries[x].winners)'
    BY <1>2, <1>3 DEF WinnersRight
  <2>. QED BY <2>1, <2>2
<1>5. /\ \A a \in Won(p) : snapshots[a].block_height <= rows.snapshot.block_height
      /\ rows.snapshot.block_height <= rows.snapshot.block_height
  <2>1. rows.snapshot.block_height = snapshots[p].block_height + 1 /\ snapshots[p].block_height \in Nat
    BY <1>1 DEF InFlight, PendingSnapshot, KeyInv, TypeOK
  <2>2. \A a \in Ancestors(p) : snapshots[a].block_height \in FirstHeight .. snapshots[p].block_height
    BY <1>1, ForkOfSnapshot DEF KeyInv
  <2>3. \A a \in Won(p) : snapshots[a].block_height \in FirstHeight .. snapshots[p].block_height
    BY <2>2 DEF Won
  <2>. QED BY <2>1, <2>3, ConstantAssumption
<1>6. CASE rows.snapshot.sortition
  <2> DEFINE winner == rows.snapshot.winning_stacks_block_hash
  <2>1. /\ Won(b)' = Won(p) \cup {b}
        /\ tries[b].last_sortition = b
        /\ DOMAIN tries[b].winners = DOMAIN tries[p].winners \cup {winner}
        /\ tries[b].winners[winner] = b
        /\ \A s \in DOMAIN tries[p].winners : tries[b].winners[s] = tries[p].winners[s]
        /\ \E r \in rows.commits : {r.tx.txid} = rows.snapshot.winning_block_txid
    BY <1>2, <1>6 DEF PendingSortition
  <2>2. \A r \in rows.commits : r.burn_header_hash = b
    BY <1>1 DEF InFlight, PendingCommits
  <2>3. LastSortitionRight(b, b)'
    <3>1. \A a \in Won(b)' : snapshots'[a].block_height <= snapshots'[b].block_height
        BY <2>1, <1>2, <1>5
    <3>2. \E r \in block_commits' : r.burn_header_hash = b /\ {r.tx.txid} = snapshots'[b].winning_block_txid
        BY <2>1, <2>2, <1>2
    <3>. QED BY <3>1, <3>2, <2>1 DEF LastSortitionRight
  <2>4. /\ DOMAIN tries[p].winners = {snapshots[a].winning_stacks_block_hash : a \in Won(p)}
        /\ \A a \in Won(p) : tries[p].winners[snapshots[a].winning_stacks_block_hash] = a
    BY <1>3 DEF WinnersRight
  <2>5. WinnersRight(b, tries[b].winners)'
    <3>1. DOMAIN tries[b].winners = {snapshots'[a].winning_stacks_block_hash : a \in Won(p) \cup {b}}
        BY <2>1, <2>4, <1>2
    <3>2. \A a \in Won(p) \cup {b} : tries[b].winners[snapshots'[a].winning_stacks_block_hash] = a
        BY <2>1, <2>4, <1>2
    <3>. QED BY <3>1, <3>2, <2>1, <1>2 DEF WinnersRight
  <2>. QED BY <1>2, <1>4, <2>1, <2>3, <2>5 DEF SortitionIndexAgrees
<1>7. CASE ~rows.snapshot.sortition
  <2>1. /\ Won(b)' = Won(p) /\ Won(p)' = Won(p)
        /\ tries[b].last_sortition = tries[p].last_sortition /\ tries[b].winners = tries[p].winners
    BY <1>2, <1>7 DEF PendingSortition
  <2>2. LastSortitionRight(b, tries[b].last_sortition)' /\ WinnersRight(b, tries[b].winners)'
    BY <2>1, <1>2, <1>4 DEF LastSortitionRight, WinnersRight
  <2>. QED BY <1>2, <1>4, <2>2 DEF SortitionIndexAgrees
<1>. QED BY <1>6, <1>7

\* num_sortitions counts the new sortition once, and the sentinel's never.
LEMMA CommitCounter ==
    ASSUME KeyInv, SortitionsCounted, PendingSortitions, NEW rows \in pending, CommitBlock(rows)
    PROVE  SortitionsCounted'
<1> DEFINE b == rows.hash
<1>1. PICK p \in DOMAIN snapshots : InFlight(rows, p)
    BY DEF KeyInv, PendingInFlight
<1>2. /\ PendingSortition(rows, p)
      /\ b \notin DOMAIN snapshots /\ b # FirstHash
      /\ DOMAIN snapshots' = DOMAIN snapshots \cup {b} /\ snapshots'[b] = rows.snapshot
      /\ \A x \in DOMAIN snapshots : /\ snapshots'[x] = snapshots[x]
                                     /\ Won(x) \subseteq DOMAIN snapshots
                                     /\ Won(x)' = Won(x)
      /\ Won(b)' = IF rows.snapshot.sortition THEN Won(p) \cup {b} ELSE Won(p)
    BY <1>1, CommittedBlock
<1> DEFINE before == Won(p) \ {FirstHash}
<1>3. snapshots[p].num_sortitions = Cardinality(before) /\ b \notin before
    BY <1>2 DEF SortitionsCounted
<1>4. rows.snapshot.num_sortitions = Cardinality(Won(b)' \ {FirstHash})
  <2>1. CASE rows.snapshot.sortition
    <3>1. rows.snapshot.num_sortitions = snapshots[p].num_sortitions + 1
        BY <1>2, <2>1 DEF PendingSortition
    <3>2. Won(b)' \ {FirstHash} = before \cup {b}
        BY <1>2, <2>1
    <3>3. IsFiniteSet(before)
        BY WonIsFinite, FS_Subset DEF KeyInv
    <3>4. Cardinality(before \cup {b}) = Cardinality(before) + 1
        BY <1>3, <3>3, FS_AddElement
    <3>. QED BY <1>3, <3>1, <3>2, <3>4
  <2>2. CASE ~rows.snapshot.sortition
    <3>1. rows.snapshot.num_sortitions = snapshots[p].num_sortitions /\ Won(b)' = Won(p)
        BY <1>2, <2>2 DEF PendingSortition
    <3>. QED BY <1>3, <3>1
  <2>. QED BY <2>1, <2>2
<1>. QED BY <1>2, <1>4 DEF SortitionsCounted

\* A height below the new block leads to the same block from it as from its
\* parent, so the commits of the new block resolve as check() found.
LEMMA CommitPointers ==
    ASSUME KeyInv, CommitsResolve, PendingSortitions, NEW rows \in pending, CommitBlock(rows)
    PROVE  CommitsResolve'
<1> DEFINE b == rows.hash
<1>1. PICK p \in DOMAIN snapshots : InFlight(rows, p)
    BY DEF KeyInv, PendingInFlight
<1> DEFINE H == snapshots[p].block_height + 1
<1>2. /\ PendingPointers(rows, p) /\ tries' = tries
      /\ leader_keys' = leader_keys \cup rows.keys /\ block_commits' = block_commits \cup rows.commits
    BY <1>1, CommittedBlock
<1>3. /\ \A h, v, x : get_leader_key_at(h, v, x) \subseteq get_leader_key_at(h, v, x)'
      /\ \A h, v, x : get_block_commit_parent(h, v, x) \subseteq get_block_commit_parent(h, v, x)'
    BY <1>2 DEF get_leader_key_at, get_block_commit_parent, HasAncestor, AncestorAt
<1>4. \A h : HasAncestor(h, p) => HasAncestor(h, b) /\ AncestorAt(h, b) = AncestorAt(h, p)
  <2>1. DOMAIN tries[p].path = FirstHeight .. H - 1 /\ H \in Nat /\ FirstHeight \in Nat
    BY ConstantAssumption DEF KeyInv, TypeOK, ForkContiguous
  <2>2. tries[b].path = [h \in FirstHeight .. H |-> IF h = H THEN b ELSE tries[p].path[h]]
    BY <1>1 DEF InFlight, PendingTrie
  <2>. QED BY <2>1, <2>2 DEF HasAncestor, AncestorAt
<1>5. /\ \A h, v : get_leader_key_at(h, v, p) \subseteq get_leader_key_at(h, v, b)
      /\ \A h, v : get_block_commit_parent(h, v, p) \subseteq get_block_commit_parent(h, v, b)
    BY <1>4 DEF get_leader_key_at, get_block_commit_parent
<1>6. ASSUME NEW r \in rows.commits
      PROVE  /\ r.burn_header_hash = b /\ r.tx.key_block_ptr < r.block_height
             /\ \E key \in get_leader_key_at(r.tx.key_block_ptr, r.tx.key_vtxindex, b)' : key.tx.address = r.tx.input
             /\ r.tx.parent_block_ptr < r.block_height
             /\ r.tx.parent_block_ptr # 0 =>
                   get_block_commit_parent(r.tx.parent_block_ptr, r.tx.parent_vtxindex, b)' # {}
  <2>1. r.burn_header_hash = b /\ r.tx.key_block_ptr < r.block_height
    BY <1>1 DEF InFlight, PendingCommits
  <2>2. /\ \E key \in get_leader_key_at(r.tx.key_block_ptr, r.tx.key_vtxindex, p) : key.tx.address = r.tx.input
        /\ r.tx.parent_block_ptr < r.block_height
        /\ r.tx.parent_block_ptr # 0 =>
              get_block_commit_parent(r.tx.parent_block_ptr, r.tx.parent_vtxindex, p) # {}
    BY <1>2 DEF PendingPointers
  <2>. QED BY <2>1, <2>2, <1>3, <1>5
<1>7. ASSUME NEW r \in block_commits
      PROVE  LET tip == r.burn_header_hash
             IN  /\ r.tx.key_block_ptr < r.block_height
                 /\ \E key \in get_leader_key_at(r.tx.key_block_ptr, r.tx.key_vtxindex, tip)' : key.tx.address = r.tx.input
                 /\ r.tx.parent_block_ptr < r.block_height
                 /\ r.tx.parent_block_ptr # 0 =>
                       get_block_commit_parent(r.tx.parent_block_ptr, r.tx.parent_vtxindex, tip)' # {}
    BY <1>3 DEF CommitsResolve
<1>. QED BY <1>2, <1>6, <1>7 DEF CommitsResolve

-----------------------------------------------------------------------------
(***************************************************************************)
(* The theorems.                                                           *)
(***************************************************************************)

\* Every step keeps what is said of sortitions and pointers.
LEMMA SortitionsNext ==
    KeyInv /\ Sortitions /\ PendingSortitions /\ [Next]_vars => Sortitions' /\ PendingSortitions'
<1> SUFFICES ASSUME KeyInv, Sortitions, PendingSortitions, [Next]_vars PROVE Sortitions' /\ PendingSortitions'
    OBVIOUS
<1>1. ASSUME NEW b \in BurnHash \ {FirstHash}, NEW c \in Contents(b),
             NEW sn \in MakeSnapshot(c.txs, c.parent), IndexBlock(b, c, sn)
      PROVE  Sortitions' /\ PendingSortitions'
    BY <1>1, SortitionsIndexed
<1>2. ASSUME NEW rows \in pending, CommitBlock(rows)
      PROVE  Sortitions' /\ PendingSortitions'
  <2>1. PendingSortitions'
    BY <1>2 DEF CommitBlock, PendingSortitions
  <2>. QED BY <1>2, <2>1, CommitSortitionIndex, CommitCounter, CommitPointers DEF Sortitions
<1>3. ASSUME UNCHANGED <<tries, db>>, pending' = {} \/ pending' = pending
      PROVE  Sortitions' /\ PendingSortitions'
    BY <1>3, SortitionsHalt
<1>. QED BY <1>1, <1>2, <1>3 DEF Next, PanicInBlock, PanicInStore, Crash, Restart, vars

\* The inductive invariant holds in every reachable state of the database.
THEOREM Invariance == Spec => []IndInv
<1>1. Init => KeyInv /\ Sortitions /\ PendingSortitions
    BY InitInv, SortitionsInit
<1>2. KeyInv /\ Sortitions /\ PendingSortitions /\ [Next]_vars
         => KeyInv' /\ Sortitions' /\ PendingSortitions'
    BY NextInv, SortitionsNext
<1>3. KeyInv /\ Sortitions /\ PendingSortitions => IndInv
    BY DEF IndInv, Sortitions
<1>. QED BY <1>1, <1>2, <1>3, PTL DEF Spec

\* On every fork the index names the last sortition and all winners, and the
\* winning commit is in the table where select_winning_block expects it.
THEOREM SortitionIndexIsRight == Spec => []SortitionIndexAgrees
<1>1. IndInv => SortitionIndexAgrees
    BY DEF IndInv
<1>. QED BY <1>1, Invariance, PTL

\* num_sortitions is the number of sortitions of the snapshot's fork.
THEOREM SortitionsAreCounted == Spec => []SortitionsCounted
<1>1. IndInv => SortitionsCounted
    BY DEF IndInv
<1>. QED BY <1>1, Invariance, PTL

\* Every accepted commit points at a key and a parent commit of its own fork,
\* below its own height.
THEOREM CommitsAreResolved == Spec => []CommitsResolve
<1>1. IndInv => CommitsResolve
    BY DEF IndInv
<1>. QED BY <1>1, Invariance, PTL
=============================================================================
