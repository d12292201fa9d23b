--------------------------- MODULE BurnDB_proofs ---------------------------
(***************************************************************************)
(* The invariants of BurnDB hold for every burn chain, whatever its forks, *)
(* whatever operations its blocks hold and wherever the node stops.  The   *)
(* argument is KeyInv: everything happens in CommitBlock, where the rows   *)
(* that extend a snapshot p meet the rows of p's fork.                     *)
(***************************************************************************)
EXTENDS BurnDB_lemmas

-----------------------------------------------------------------------------
(***************************************************************************)
(* CommitBlock makes the block in flight the tip of a fork.                *)
(***************************************************************************)

\* Inserting the rows of the block in flight and committing them keeps every
\* part of the invariant: the new block's fork is its parent's and itself.
LEMMA CommitBlockInv ==
    ASSUME KeyInv, NEW rows \in pending, CommitBlock(rows)
    PROVE  KeyInv'
<1> DEFINE b == rows.hash
<1> USE DEF KeyInv
<1>1. PICK p \in DOMAIN snapshots : InFlight(rows, p)
    BY DEF PendingInFlight
<1> DEFINE H == snapshots[p].block_height + 1
<1>2. /\ b \in DOMAIN tries /\ b \notin DOMAIN snapshots
      /\ PendingSnapshot(rows, p) /\ PendingKeys(rows, p) /\ PendingCommits(rows, p)
      /\ PendingBurns(rows) /\ PendingTrie(rows, p)
    BY <1>1 DEF InFlight
<1>3. /\ DOMAIN snapshots' = DOMAIN snapshots \cup {b} /\ snapshots'[b] = rows.snapshot
      /\ \A x \in DOMAIN snapshots : snapshots'[x] = snapshots[x]
      /\ leader_keys' = leader_keys \cup rows.keys /\ block_commits' = block_commits \cup rows.commits
      /\ user_burns' = user_burns \cup rows.burns
      /\ pending' = {} /\ burnchain' = burnchain /\ tries' = tries /\ up' = up
    BY <1>2 DEF CommitBlock
<1>4. /\ \A x : Ancestors(x)' = Ancestors(x)
      /\ Ancestors(b) = Ancestors(p) \cup {b}
      /\ \A x \in DOMAIN snapshots : Ancestors(x) \subseteq DOMAIN snapshots /\ b \notin Ancestors(x)
  <2>1. \A x : Ancestors(x)' = Ancestors(x)
    BY <1>3 DEF Ancestors
  <2>2. Ancestors(b) = Ancestors(p) \cup {b}
    BY <1>1, ForkOfPending
  <2>3. \A x \in DOMAIN snapshots : Ancestors(x) \subseteq DOMAIN snapshots
    BY ForkOfSnapshot
  <2>. QED BY <2>1, <2>2, <2>3, <1>2
<1>5. /\ H \in Nat /\ FirstHeight < H /\ snapshots'[b].block_height = H
      /\ \A a \in Ancestors(p) : snapshots[a].block_height \in FirstHeight .. H - 1
  <2>1. snapshots[p].block_height \in Nat /\ FirstHeight <= snapshots[p].block_height
    BY DEF TypeOK, ForkContiguous
  <2>2. snapshots'[b].block_height = H
    BY <1>2, <1>3 DEF PendingSnapshot
  <2>3. \A a \in Ancestors(p) : snapshots[a].block_height \in FirstHeight .. snapshots[p].block_height
    BY ForkOfSnapshot
  <2>4. H - 1 = snapshots[p].block_height /\ H \in Nat /\ FirstHeight < H
    BY <2>1, ConstantAssumption
  <2>. QED BY <2>2, <2>3, <2>4
<1>6. /\ \A r \in leader_keys \cup block_commits :
            r.burn_header_hash \in DOMAIN snapshots /\ r.burn_header_hash # b
      /\ \A r \in rows.keys \cup rows.commits : r.burn_header_hash = b /\ r.block_height = H
    BY <1>2 DEF RowsPlaced, PendingKeys, PendingCommits
<1>7. TypeOK'
  <2>1. /\ snapshots'[b].block_height \in Nat /\ snapshots'[b].num_sortitions \in Nat
        /\ snapshots'[b].sortition \in BOOLEAN /\ snapshots'[b].winning_stacks_block_hash \in StacksBlock
    BY <1>2, <1>3, <1>5 DEF PendingSnapshot
  <2>2. /\ \A r \in rows.keys : r.tx \in LeaderKeyRegister /\ r.burn_header_hash = b
        /\ \A r \in rows.commits : r.tx \in LeaderBlockCommit /\ r.burn_header_hash = b
        /\ \A r \in rows.burns : r.tx \in UserBurnSupport /\ r.burn_header_hash = b
    BY <1>2 DEF PendingKeys, PendingCommits, PendingBurns
  <2>. QED BY <2>1, <2>2, <1>2, <1>3 DEF TypeOK
<1>8. ForkContiguous'
  <2>1. ASSUME NEW x \in DOMAIN snapshots
        PROVE  /\ FirstHeight <= snapshots[x].block_height
               /\ DOMAIN tries[x].path = FirstHeight .. snapshots[x].block_height
               /\ tries[x].path[FirstHeight] = FirstHash /\ tries[x].path[snapshots[x].block_height] = x
               /\ \A h \in DOMAIN tries[x].path :
                     /\ tries[x].path[h] \in DOMAIN snapshots
                     /\ snapshots[tries[x].path[h]].block_height = h
                     /\ h > FirstHeight =>
                           snapshots[tries[x].path[h]].parent_burn_header_hash = tries[x].path[h - 1]
    BY DEF ForkContiguous
  <2>2. tries[b].path = [h \in FirstHeight .. H |-> IF h = H THEN b ELSE tries[p].path[h]]
    BY <1>2 DEF PendingTrie
  <2>3. snapshots'[b].parent_burn_header_hash = p
    BY <1>2, <1>3 DEF PendingSnapshot
  <2>4. /\ DOMAIN tries[b].path = FirstHeight .. H /\ tries[b].path[H] = b
        /\ \A h \in FirstHeight .. H - 1 : tries[b].path[h] = tries[p].path[h]
    BY <2>2, <1>5, ConstantAssumption
  <2>5. /\ DOMAIN tries[p].path = FirstHeight .. H - 1
        /\ tries[p].path[FirstHeight] = FirstHash /\ tries[p].path[H - 1] = p
        /\ \A h \in FirstHeight .. H - 1 :
              /\ tries[p].path[h] \in DOMAIN snapshots
              /\ snapshots'[tries[p].path[h]].block_height = h
              /\ h > FirstHeight =>
                    snapshots'[tries[p].path[h]].parent_burn_header_hash = tries[p].path[h - 1]
    <3>1. snapshots[p].block_height = H - 1
        BY <1>5 DEF TypeOK
    <3>2. /\ DOMAIN tries[p].path = FirstHeight .. H - 1
          /\ tries[p].path[FirstHeight] = FirstHash /\ tries[p].path[H - 1] = p
        BY <3>1, <2>1
    <3>3. ASSUME NEW h \in FirstHeight .. H - 1
          PROVE  /\ tries[p].path[h] \in DOMAIN snapshots
                 /\ snapshots'[tries[p].path[h]].block_height = h
                 /\ h > FirstHeight =>
                       snapshots'[tries[p].path[h]].parent_burn_header_hash = tries[p].path[h - 1]
      <4>1. /\ tries[p].path[h] \in DOMAIN snapshots
            /\ snapshots[tries[p].path[h]].block_height = h
            /\ h > FirstHeight => snapshots[tries[p].path[h]].parent_burn_header_hash = tries[p].path[h - 1]
        BY <3>2, <2>1, Zenon
      <4>. QED BY <4>1, <1>3
    <3>. QED BY <3>2, <3>3
  <2>9. FirstHeight \in FirstHeight .. H - 1 /\ H - 1 \in FirstHeight .. H - 1 /\ FirstHeight <= H
    BY <1>5, ConstantAssumption
  <2>6. ASSUME NEW h \in FirstHeight .. H
        PROVE  /\ tries[b].path[h] \in DOMAIN snapshots'
               /\ snapshots'[tries[b].path[h]].block_height = h
               /\ h > FirstHeight => snapshots'[tries[b].path[h]].parent_burn_header_hash = tries[b].path[h - 1]
    <3>1. CASE h = H
      <4>1. tries[b].path[h] = b /\ tries[b].path[h - 1] = p
        BY SMTT(20), <3>1, <2>9, <2>4, <2>5
      <4>. QED BY <4>1, <3>1, <2>3, <1>3, <1>5
    <3>2. CASE h # H
      <4>1. h \in FirstHeight .. H - 1 /\ (h > FirstHeight => h - 1 \in FirstHeight .. H - 1)
        BY <3>2, <1>5, ConstantAssumption
      <4>. QED BY SMTT(20), <4>1, <2>4, <2>5, <1>3
    <3>. QED BY SMTT(20), <3>1, <3>2
  <2>7. tries[b].path[FirstHeight] = FirstHash /\ FirstHeight <= H
    BY SMTT(20), <2>9, <2>4, <2>5
  <2> HIDE DEF b, H
  <2>8. ASSUME NEW x \in DOMAIN snapshots'
        PROVE  /\ FirstHeight <= snapshots'[x].block_height
               /\ DOMAIN tries[x].path = FirstHeight .. snapshots'[x].block_height
               /\ tries[x].path[FirstHeight] = FirstHash /\ tries[x].path[snapshots'[x].block_height] = x
               /\ \A h \in DOMAIN tries[x].path :
                     /\ tries[x].path[h] \in DOMAIN snapshots'
                     /\ snapshots'[tries[x].path[h]].block_height = h
                     /\ h > FirstHeight =>
                           snapshots'[tries[x].path[h]].parent_burn_header_hash = tries[x].path[h - 1]
    <3>1. CASE x = b
        BY <3>1, <2>4, <2>6, <2>7, <1>5
    <3>2. CASE x \in DOMAIN snapshots
        BY <3>2, <2>1, <1>3
    <3>. QED BY SMTT(20), <3>1, <3>2, <1>3
  <2>. QED BY SMTT(20), <2>8, <1>3 DEF ForkContiguous
<1>9. RowsPlaced'
  <2>1. \A r \in leader_keys' \cup block_commits' :
           r.burn_header_hash \in DOMAIN snapshots' /\ r.block_height = snapshots'[r.burn_header_hash].block_height
    BY <1>3, <1>5, <1>6 DEF RowsPlaced
  <2>2. \A r, q \in leader_keys' :
           r.burn_header_hash = q.burn_header_hash /\ r.vtxindex = q.vtxindex => r = q
    BY <1>2, <1>3, <1>6 DEF RowsPlaced, PendingKeys
  <2>3. \A r \in block_commits' : r.tx.key_block_ptr < r.block_height
    BY <1>2, <1>3 DEF RowsPlaced, PendingCommits
  <2>. QED BY <2>1, <2>2, <2>3 DEF RowsPlaced
<1>10. WinnersIndexed' /\ WinnerUniqueInFork'
  <2>1. \A x \in DOMAIN snapshots : \A a \in Ancestors(x) : snapshots'[a] = snapshots[a]
    BY <1>3, <1>4
  <2>2. /\ DOMAIN tries[p].winners \subseteq DOMAIN tries[b].winners
        /\ rows.snapshot.sortition =>
              /\ rows.snapshot.winning_stacks_block_hash \notin DOMAIN tries[p].winners
              /\ rows.snapshot.winning_stacks_block_hash \in DOMAIN tries[b].winners
    BY <1>2 DEF PendingTrie
  <2>3. WinnersIndexed'
    BY <2>1, <2>2, <1>1, <1>3, <1>4 DEF WinnersIndexed
  <2>4. ASSUME NEW x \in Ancestors(p), snapshots[x].sortition, rows.snapshot.sortition
        PROVE  snapshots[x].winning_stacks_block_hash # rows.snapshot.winning_stacks_block_hash
    BY <2>2, <2>4, <1>1 DEF WinnersIndexed
  <2>5. WinnerUniqueInFork'
    BY <2>1, <2>4, <1>1, <1>3, <1>4 DEF WinnerUniqueInFork
  <2>. QED BY <2>3, <2>5
\* A new commit's key is a row of p's fork that no commit of the fork uses.
<1>11. ASSUME NEW q \in rows.commits
       PROVE  /\ q.tx.key_block_ptr < H
              /\ \E key \in leader_keys :
                    /\ key.burn_header_hash \in Ancestors(p)
                    /\ key.block_height = q.tx.key_block_ptr /\ key.vtxindex = q.tx.key_vtxindex
                    /\ key.tx.public_key \in VRFKey
                    /\ Uses(p, key.tx.public_key) = {}
  <2>1. q.tx.key_block_ptr < H
    BY <1>2, <1>6 DEF PendingCommits
  <2>2. PICK key \in get_leader_key_at(q.tx.key_block_ptr, q.tx.key_vtxindex, p) :
           tries[p].vrf[key.tx.public_key] # "consumed"
    BY <1>2 DEF PendingCommits
  <2>3. /\ key \in leader_keys /\ key.burn_header_hash \in Ancestors(p)
        /\ key.block_height = q.tx.key_block_ptr /\ key.vtxindex = q.tx.key_vtxindex
    BY <1>1, <2>2, KeyAt
  <2>4. key.tx.public_key \in VRFKey
    BY <2>3 DEF TypeOK, LeaderKeyRegister
  <2>5. Uses(p, key.tx.public_key) = {}
    BY <1>1, <2>2, <2>4 DEF KeyIndexAgrees
  <2>. QED BY <2>1, <2>3, <2>4, <2>5
<1>12. KeyConsumedOnce'
  <2>1. ASSUME NEW r \in block_commits, r.burn_header_hash \in Ancestors(p), NEW q \in rows.commits
        PROVE  ~(r.tx.key_block_ptr = q.tx.key_block_ptr /\ r.tx.key_vtxindex = q.tx.key_vtxindex)
    BY <2>1, <1>11 DEF Uses, Registrations
  <2>2. ASSUME NEW r \in rows.commits, NEW q \in rows.commits,
               r.tx.key_block_ptr = q.tx.key_block_ptr, r.tx.key_vtxindex = q.tx.key_vtxindex
        PROVE  r = q
    BY <1>2, <2>2 DEF PendingCommits
  <2>3. ASSUME NEW x \in DOMAIN snapshots', NEW r \in block_commits', NEW q \in block_commits',
               r.burn_header_hash \in Ancestors(x), q.burn_header_hash \in Ancestors(x),
               r.tx.key_block_ptr = q.tx.key_block_ptr, r.tx.key_vtxindex = q.tx.key_vtxindex
        PROVE  r = q
    <3>1. CASE x \in DOMAIN snapshots
        BY <3>1, <2>3, <1>3, <1>4, <1>6 DEF KeyConsumedOnce
    <3>2. CASE x = b
      <4>1. CASE r \in block_commits /\ q \in block_commits
        BY <4>1, <3>2, <2>3, <1>1, <1>4, <1>6 DEF KeyConsumedOnce
      <4>2. CASE r \in rows.commits /\ q \in rows.commits
        BY <4>2, <2>2, <2>3
      <4>3. CASE (r \in block_commits /\ q \in rows.commits) \/ (q \in block_commits /\ r \in rows.commits)
        BY <4>3, <3>2, <2>1, <2>3, <1>4, <1>6
      <4>. QED BY <4>1, <4>2, <4>3, <1>3
    <3>. QED BY <3>1, <3>2, <1>3
  <2>. QED BY <2>3, <1>4 DEF KeyConsumedOnce
<1>13. KeyIndexAgrees'
  <2>1. ASSUME NEW x \in DOMAIN snapshots, NEW k \in VRFKey
        PROVE  Registrations(x, k)' = Registrations(x, k) /\ Uses(x, k)' = Uses(x, k)
    <3>1. Registrations(x, k)' = Registrations(x, k)
        BY <1>3, <1>4, <1>6 DEF Registrations
    <3>. QED BY <3>1, <1>3, <1>4, <1>6 DEF Uses
  <2>2. ASSUME NEW k \in VRFKey
        PROVE  Registrations(b, k)' = Registrations(p, k) \cup {r \in rows.keys : r.tx.public_key = k}
    BY <1>3, <1>4, <1>6 DEF Registrations
  <2>3. ASSUME NEW k \in VRFKey
        PROVE  Uses(b, k)' # {} <=> Uses(p, k) # {} \/ ConsumedIn(rows, p, k)
    \* Commits point below their height, so never at a key of their own block.
    <3>1. ASSUME NEW r \in block_commits', r.burn_header_hash \in Ancestors(b),
                 NEW key \in Registrations(b, k)', key.block_height = r.tx.key_block_ptr
          PROVE  key \in Registrations(p, k)
      <4>1. r.tx.key_block_ptr < H
        <5>1. CASE r \in block_commits
          <6>1. /\ r.burn_header_hash \in Ancestors(p)
                /\ r.block_height = snapshots[r.burn_header_hash].block_height
                /\ r.tx.key_block_ptr < r.block_height
            BY <5>1, <3>1, <1>4, <1>6 DEF RowsPlaced
          <6>2. r.tx.key_block_ptr \in Nat
            BY <5>1 DEF TypeOK, LeaderBlockCommit
          <6>. QED BY <6>1, <6>2, <1>5, ConstantAssumption
        <5>2. CASE r \in rows.commits
            BY <5>2, <1>11
        <5>. QED BY <5>1, <5>2, <1>3
      <4>2. key \notin rows.keys
        <5>1. ASSUME key \in rows.keys PROVE FALSE
            BY <5>1, <4>1, <3>1, <1>5, <1>6
        <5>. QED BY <5>1
      <4>. QED BY <4>2, <3>1, <2>2
    <3>2. ASSUME NEW r \in rows.commits
          PROVE  (\E key \in Registrations(p, k) : key.block_height = r.tx.key_block_ptr /\ key.vtxindex = r.tx.key_vtxindex)
                 <=> \E key \in get_leader_key_at(r.tx.key_block_ptr, r.tx.key_vtxindex, p) : key.tx.public_key = k
        BY <1>1, KeyAt DEF Registrations
    <3>3. ASSUME Uses(b, k)' # {} PROVE Uses(p, k) # {} \/ ConsumedIn(rows, p, k)
      <4>1. PICK r \in block_commits' : /\ r.burn_header_hash \in Ancestors(b)
                                        /\ \E key \in Registrations(b, k)' : /\ key.block_height = r.tx.key_block_ptr
                                                                             /\ key.vtxindex = r.tx.key_vtxindex
        BY <3>3, <1>4 DEF Uses
      <4>2. \E key \in Registrations(p, k) : key.block_height = r.tx.key_block_ptr /\ key.vtxindex = r.tx.key_vtxindex
        BY <4>1, <3>1
      <4>3. CASE r \in block_commits
        BY <4>1, <4>2, <4>3, <1>4, <1>6 DEF Uses
      <4>4. CASE r \in rows.commits
        BY <4>2, <4>4, <3>2 DEF ConsumedIn
      <4>. QED BY <4>3, <4>4, <1>3
    <3>4. ASSUME Uses(p, k) # {} PROVE Uses(b, k)' # {}
        BY <3>4, <2>2, <1>3, <1>4 DEF Uses
    <3>5. ASSUME ConsumedIn(rows, p, k) PROVE Uses(b, k)' # {}
      <4>1. PICK r \in rows.commits :
               \E key \in Registrations(p, k) : key.block_height = r.tx.key_block_ptr /\ key.vtxindex = r.tx.key_vtxindex
        BY <3>5, <3>2 DEF ConsumedIn
      <4>. QED BY <4>1, <2>2, <1>3, <1>4, <1>6 DEF Uses
    <3>. QED BY <3>3, <3>4, <3>5
  <2>4. ASSUME NEW k \in VRFKey, ConsumedIn(rows, p, k) PROVE Registrations(p, k) # {}
    BY <2>4, <1>1, KeyAt DEF ConsumedIn, Registrations
  <2>5. ASSUME NEW k \in VRFKey, NEW r \in rows.keys, r.tx.public_key = k PROVE tries[p].vrf[k] = "absent"
    BY <2>5, <1>2 DEF PendingKeys
  <2>6. ASSUME NEW k \in VRFKey
        PROVE  /\ tries[p].vrf[k] = "absent" <=> Registrations(p, k) = {}
               /\ tries[p].vrf[k] = "consumed" <=> Uses(p, k) # {}
    BY <1>1 DEF KeyIndexAgrees
  <2>7. ASSUME NEW k \in VRFKey
        PROVE  /\ tries[b].vrf[k] = "absent" <=> Registrations(b, k)' = {}
               /\ tries[b].vrf[k] = "consumed" <=> Uses(b, k)' # {}
    <3>1. CASE ConsumedIn(rows, p, k)
      <4>1. tries[b].vrf[k] = "consumed"
        BY <3>1, <1>2 DEF PendingTrie
      <4>. QED BY <4>1, <3>1, <2>2, <2>3, <2>4
    <3>2. CASE ~ConsumedIn(rows, p, k) /\ \E r \in rows.keys : r.tx.public_key = k
      <4>1. tries[b].vrf[k] = "available"
        BY <3>2, <1>2 DEF PendingTrie
      <4>. QED BY <4>1, <3>2, <2>2, <2>3, <2>5, <2>6
    <3>3. CASE ~ConsumedIn(rows, p, k) /\ ~(\E r \in rows.keys : r.tx.public_key = k)
      <4>1. tries[b].vrf[k] = tries[p].vrf[k]
        BY <3>3, <1>2 DEF PendingTrie
      <4>. QED BY <4>1, <3>3, <2>2, <2>3, <2>6
    <3>. QED BY <3>1, <3>2, <3>3
  <2>. QED BY <2>1, <2>7, <1>3 DEF KeyIndexAgrees
<1>14. PendingInFlight'
    BY <1>3 DEF PendingInFlight
<1>. QED BY <1>7, <1>8, <1>9, <1>10, <1>12, <1>13, <1>14

-----------------------------------------------------------------------------
(***************************************************************************)
(* The theorems.                                                           *)
(***************************************************************************)

\* Every step keeps the inductive invariant.
LEMMA NextInv == KeyInv /\ [Next]_vars => KeyInv'
<1> SUFFICES ASSUME KeyInv, [Next]_vars PROVE KeyInv'
    OBVIOUS
<1>1. ASSUME NEW b \in BurnHash \ {FirstHash}, NEW c \in Contents(b),
             NEW sn \in MakeSnapshot(c.txs, c.parent), IndexBlock(b, c, sn)
      PROVE  KeyInv'
    BY <1>1, IndexBlockInv
<1>2. ASSUME NEW b \in BurnHash \ {FirstHash}, NEW c \in Contents(b), PanicInBlock(b, c)
      PROVE  KeyInv'
  <2>1. \A x \in DOMAIN burnchain' : burnchain'[x].txs \in Bodies
    BY <1>2 DEF PanicInBlock, Offer, Contents, KeyInv, TypeOK
  <2>. QED BY <1>2, <2>1, HaltInv, Zenon DEF PanicInBlock
<1>3. ASSUME NEW rows \in pending, CommitBlock(rows)
      PROVE  KeyInv'
    BY <1>3, CommitBlockInv
<1>4. ASSUME NEW rows \in pending, PanicInStore(rows)
      PROVE  KeyInv'
    BY <1>4, HaltInv, Zenon DEF PanicInStore, KeyInv, TypeOK
<1>5. CASE Crash
    BY <1>5, HaltInv, Zenon DEF Crash, KeyInv, TypeOK
<1>6. CASE Restart
    BY <1>6, HaltInv DEF Restart, KeyInv, TypeOK
<1>7. CASE UNCHANGED vars
    BY <1>7, HaltInv, Zenon DEF vars, KeyInv, TypeOK
<1>. QED BY <1>1, <1>2, <1>3, <1>4, <1>5, <1>6, <1>7 DEF Next

\* The inductive invariant holds in every reachable state of the database.
THEOREM KeyInvariance == Spec => []KeyInv
BY InitInv, NextInv, PTL DEF Spec

\* The tables and the index always hold rows of the declared types, and rows
\* only for blocks that have a snapshot.
THEOREM TypeCorrect == Spec => []TypeOK
<1>1. KeyInv => TypeOK
    BY DEF KeyInv
<1>. QED BY <1>1, KeyInvariance, PTL

\* The fork of every snapshot is a contiguous chain of snapshots down to the
\* first block, whatever crashes and forks happened: the ancestor lookups of
\* get_ancestor_snapshot and is_fresh_consensus_hash never fall into a gap.
THEOREM ForksAreContiguous == Spec => []ForkContiguous
<1>1. KeyInv => ForkContiguous
    BY DEF KeyInv
<1>. QED BY <1>1, KeyInvariance, PTL

\* The index's VRF key entries, which key registrations and commits are checked
\* against, agree with the tables on every fork.
THEOREM KeyIndexIsRight == Spec => []KeyIndexAgrees
<1>1. KeyInv => KeyIndexAgrees
    BY DEF KeyInv
<1>. QED BY <1>1, KeyInvariance, PTL

\* No fork has two accepted commits that consume one leader key.
THEOREM KeysAreConsumedOnce == Spec => []KeyConsumedOnce
<1>1. KeyInv => KeyConsumedOnce
    BY DEF KeyInv
<1>. QED BY <1>1, KeyInvariance, PTL

\* No Stacks block wins two sortitions of one fork.
THEOREM WinnersAreUnique == Spec => []WinnerUniqueInFork
<1>1. KeyInv => WinnerUniqueInFork
    BY DEF KeyInv
<1>. QED BY <1>1, KeyInvariance, PTL

\* History is append-only: no step changes a committed snapshot, its rows or
\* its trie, or adds rows to a block that already has its snapshot.
THEOREM HistoryIsKept == Spec => HistoryKept
<1>1. KeyInv /\ [Next]_vars => [HistoryStep]_vars
  <2> SUFFICES ASSUME KeyInv, Next PROVE HistoryStep
    BY DEF vars
  <2> USE DEF KeyInv
  <2>1. ASSUME NEW b \in BurnHash \ {FirstHash}, NEW c \in Contents(b),
               NEW sn \in MakeSnapshot(c.txs, c.parent), IndexBlock(b, c, sn)
        PROVE  HistoryStep
    BY <2>1 DEF IndexBlock, Panics, HistoryStep, TypeOK, db
  <2>2. ASSUME NEW rows \in pending, CommitBlock(rows)
        PROVE  HistoryStep
    <3>1. PICK p \in DOMAIN snapshots : InFlight(rows, p)
        BY DEF PendingInFlight
    <3>2. /\ rows.hash \notin DOMAIN snapshots
          /\ \A r \in rows.keys \cup rows.commits : r.burn_header_hash = rows.hash
        BY <3>1 DEF InFlight, PendingKeys, PendingCommits
    <3>. QED BY <2>2, <3>2 DEF CommitBlock, HistoryStep
  <2>3. ASSUME UNCHANGED <<tries, db>>
        PROVE  HistoryStep
    BY <2>3 DEF HistoryStep, db
  <2>. QED BY <2>1, <2>2, <2>3 DEF Next, PanicInBlock, PanicInStore, Crash, Restart
<1>. QED BY <1>1, KeyInvariance, PTL DEF Spec, HistoryKept

=============================================================================
