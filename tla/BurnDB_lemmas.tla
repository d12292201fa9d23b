--------------------------- MODULE BurnDB_lemmas ---------------------------
(***************************************************************************)
(* What the proof of BurnDB's invariant rests on: how forks are read, which*)
(* steps leave the committed blocks alone, and that process_block puts in  *)
(* flight a block that extends a snapshot by what check() let through.     *)
(***************************************************************************)
EXTENDS BurnDB, TLAPS

\* The parts of KeyInv that are about committed blocks only.
Committed ==
    /\ ForkContiguous /\ RowsPlaced /\ KeyIndexAgrees /\ KeyConsumedOnce
    /\ WinnersIndexed /\ WinnerUniqueInFork

-----------------------------------------------------------------------------
(***************************************************************************)
(* Forks.                                                                  *)
(***************************************************************************)

\* The fork of a snapshot consists of snapshots, found at their own heights.
LEMMA ForkOfSnapshot ==
    ASSUME TypeOK, ForkContiguous, NEW x \in DOMAIN snapshots
    PROVE  /\ Ancestors(x) \subseteq DOMAIN snapshots
           /\ x \in Ancestors(x)
           /\ \A a \in Ancestors(x) :
                 /\ snapshots[a].block_height \in FirstHeight .. snapshots[x].block_height
                 /\ AncestorAt(snapshots[a].block_height, x) = a
BY SMTT(20), ConstantAssumption DEF TypeOK, ForkContiguous, Ancestors, AncestorAt

\* The trie of a block in flight holds the fork of its parent and the block.
LEMMA ForkOfPending ==
    ASSUME TypeOK, ForkContiguous, NEW rows, NEW p \in DOMAIN snapshots, InFlight(rows, p)
    PROVE  Ancestors(rows.hash) = Ancestors(p) \cup {rows.hash}
<1> DEFINE H == snapshots[p].block_height + 1
<1>1. H \in Nat /\ FirstHeight \in Nat /\ FirstHeight < H /\ DOMAIN tries[p].path = FirstHeight .. H - 1
    BY ConstantAssumption DEF TypeOK, ForkContiguous
<1>2. tries[rows.hash].path = [h \in FirstHeight .. H |-> IF h = H THEN rows.hash ELSE tries[p].path[h]]
    BY DEF InFlight, PendingTrie
<1>3. FirstHeight .. H = (FirstHeight .. H - 1) \cup {H} /\ H \notin FirstHeight .. H - 1
    BY <1>1
<1>. HIDE DEF H
<1>4. /\ DOMAIN tries[rows.hash].path = DOMAIN tries[p].path \cup {H}
      /\ tries[rows.hash].path[H] = rows.hash
      /\ \A h \in DOMAIN tries[p].path : tries[rows.hash].path[h] = tries[p].path[h]
    BY <1>1, <1>2, <1>3, Zenon
<1>. QED BY <1>4, ZenonT(30) DEF Ancestors

\* get_leader_key_at finds the rows of the fork at that height and offset.
LEMMA KeyAt ==
    ASSUME TypeOK, ForkContiguous, RowsPlaced, NEW x \in DOMAIN snapshots, NEW h, NEW v, NEW key
    PROVE  key \in get_leader_key_at(h, v, x) <=>
              /\ key \in leader_keys /\ key.burn_header_hash \in Ancestors(x)
              /\ key.block_height = h /\ key.vtxindex = v
<1>1. ASSUME key \in get_leader_key_at(h, v, x)
      PROVE  key.burn_header_hash \in Ancestors(x) /\ key.block_height = h
    BY <1>1 DEF get_leader_key_at, HasAncestor, AncestorAt, Ancestors, ForkContiguous, RowsPlaced
<1>2. ASSUME key \in leader_keys, key.burn_header_hash \in Ancestors(x), key.block_height = h
      PROVE  HasAncestor(h, x) /\ key.burn_header_hash = AncestorAt(h, x)
    BY <1>2 DEF HasAncestor, AncestorAt, Ancestors, ForkContiguous, RowsPlaced
<1>. QED BY <1>1, <1>2 DEF get_leader_key_at

\* ... and there is at most one.
LEMMA OneKeyAt ==
    ASSUME RowsPlaced, NEW x, NEW h, NEW v,
           NEW key \in get_leader_key_at(h, v, x), NEW other \in get_leader_key_at(h, v, x)
    PROVE  key = other
BY DEF RowsPlaced, get_leader_key_at

-----------------------------------------------------------------------------
(***************************************************************************)
(* Steps that leave the tables and the tries of committed blocks alone.    *)
(***************************************************************************)

\* What is said of committed blocks stays true when no table and no trie of a
\* committed block changes.
LEMMA CommittedFrame ==
    ASSUME TypeOK, Committed, UNCHANGED db, \A x \in DOMAIN snapshots : tries'[x] = tries[x]
    PROVE  Committed'
<1>1. /\ snapshots' = snapshots /\ leader_keys' = leader_keys /\ block_commits' = block_commits
      /\ \A x \in DOMAIN snapshots : Ancestors(x)' = Ancestors(x)
    BY DEF db, Ancestors
<1>2. ForkContiguous'
    BY <1>1 DEF Committed, ForkContiguous
<1>3. RowsPlaced'
    BY <1>1 DEF Committed, RowsPlaced
<1>4. KeyIndexAgrees'
    BY <1>1 DEF Committed, KeyIndexAgrees, Registrations, Uses
<1>5. KeyConsumedOnce'
    BY <1>1 DEF Committed, KeyConsumedOnce
<1>6. WinnersIndexed'
    BY <1>1 DEF Committed, WinnersIndexed
<1>7. WinnerUniqueInFork'
    BY <1>1 DEF Committed, WinnerUniqueInFork
<1>. QED BY <1>2, <1>3, <1>4, <1>5, <1>6, <1>7 DEF Committed

\* The database that instantiate creates satisfies the inductive invariant.
LEMMA InitInv == Init => KeyInv
<1> SUFFICES ASSUME Init PROVE KeyInv
    OBVIOUS
<1> USE ConstantAssumption DEF Init, FirstSnapshot, FirstTrie
<1>1. TypeOK
    BY Zenon DEF TypeOK
<1>2. ForkContiguous
  <2>1. /\ DOMAIN snapshots = {FirstHash}
        /\ tries[FirstHash].path = [h \in {FirstHeight} |-> FirstHash]
        /\ snapshots[FirstHash].block_height = FirstHeight
    OBVIOUS
  <2>2. {FirstHeight} = FirstHeight .. FirstHeight /\ FirstHeight <= FirstHeight /\ ~(FirstHeight > FirstHeight)
    OBVIOUS
  <2>3. DOMAIN tries[FirstHash].path = {FirstHeight} /\ tries[FirstHash].path[FirstHeight] = FirstHash
    BY <2>1
  <2>4. ASSUME NEW b \in DOMAIN snapshots PROVE b = FirstHash
    BY <2>1
  <2>. HIDE DEF Init, FirstSnapshot, FirstTrie
  <2>. QED BY ONLY <2>1, <2>2, <2>3, <2>4, Zenon DEF ForkContiguous
<1>3. RowsPlaced /\ KeyConsumedOnce
    BY DEF RowsPlaced, KeyConsumedOnce
<1>4. KeyIndexAgrees
    BY DEF KeyIndexAgrees, Registrations, Uses
<1>5. WinnersIndexed /\ WinnerUniqueInFork
  <2>1. DOMAIN snapshots = {FirstHash} /\ Ancestors(FirstHash) = {FirstHash}
    BY DEF Ancestors
  <2>2. snapshots[FirstHash].winning_stacks_block_hash = FirstStacksBlock
    OBVIOUS
  <2>3. DOMAIN tries[FirstHash].winners = {FirstStacksBlock}
    OBVIOUS
  <2>. QED BY <2>1, <2>2, <2>3 DEF WinnersIndexed, WinnerUniqueInFork
<1>6. PendingInFlight
    BY DEF PendingInFlight
<1>. QED BY <1>1, <1>2, <1>3, <1>4, <1>5, <1>6 DEF KeyInv

\* A crash, a panic and a restart change neither the tables nor the index.
LEMMA HaltInv ==
    ASSUME KeyInv, UNCHANGED <<tries, db>>, pending' = {} \/ pending' = pending, up' \in BOOLEAN,
           \A b \in DOMAIN burnchain' : burnchain'[b].txs \in Bodies
    PROVE  KeyInv'
<1>1. TypeOK'
    BY DEF KeyInv, TypeOK, db
<1>2. Committed'
  <2>1. TypeOK /\ Committed /\ UNCHANGED db /\ \A x \in DOMAIN snapshots : tries'[x] = tries[x]
    BY Zenon DEF KeyInv, Committed
  <2>. QED BY <2>1, CommittedFrame, Zenon
<1>3. PendingInFlight'
  <2>1. tries' = tries /\ snapshots' = snapshots /\ leader_keys' = leader_keys
    BY DEF db
  <2>2. \A h, v, p : get_leader_key_at(h, v, p)' = get_leader_key_at(h, v, p)
    BY <2>1, Zenon DEF get_leader_key_at, HasAncestor, AncestorAt
  <2>3. ASSUME NEW rows, NEW p, InFlight(rows, p) PROVE InFlight(rows, p)'
    <3>1. PendingSnapshot(rows, p)'
      BY <2>1, <2>3, Zenon DEF InFlight, PendingSnapshot
    <3>2. PendingKeys(rows, p)'
      BY <2>1, <2>3, Zenon DEF InFlight, PendingKeys
    <3>3. PendingCommits(rows, p)'
      BY <2>1, <2>2, <2>3, Zenon DEF InFlight, PendingCommits
    <3>4. PendingBurns(rows)'
      BY <2>3, Zenon DEF InFlight, PendingBurns
    <3>5. PendingTrie(rows, p)'
      BY <2>1, <2>2, <2>3, ZenonT(30) DEF InFlight, PendingTrie, ConsumedIn
    <3>. QED BY <2>1, <2>3, <3>1, <3>2, <3>3, <3>4, <3>5, Zenon DEF InFlight
  <2>4. \A rows \in pending : \E p \in DOMAIN snapshots : InFlight(rows, p)
    BY Zenon DEF KeyInv, PendingInFlight
  <2>. QED BY <2>1, <2>3, <2>4, Zenon DEF PendingInFlight
<1>. QED BY <1>1, <1>2, <1>3 DEF KeyInv, Committed

-----------------------------------------------------------------------------
(***************************************************************************)
(* IndexBlock puts a block in flight.                                      *)
(***************************************************************************)

\* make_snapshot's row, whichever commit wins.
LEMMA SnapshotMade ==
    ASSUME TypeOK, NEW txs \in Bodies, NEW p \in DOMAIN snapshots, NEW sn \in MakeSnapshot(txs, p)
    PROVE  /\ sn.block_height = snapshots[p].block_height + 1
           /\ sn.parent_burn_header_hash = p
           /\ sn.sortition \in BOOLEAN
           /\ sn.num_sortitions \in Nat
           /\ sn.winning_stacks_block_hash \in StacksBlock
           /\ sn.sortition => sn.winning_stacks_block_hash \notin DOMAIN tries[p].winners
<1>1. CASE HasSortition(txs, p)
  <2>1. PICK v \in CheckedCommits(txs, p) : sn = SortitionSnapshot(txs, p, v)
    BY <1>1 DEF MakeSnapshot
  <2>2. txs[v].block_header_hash \in StacksBlock /\ txs[v].block_header_hash \notin DOMAIN tries[p].winners
    BY BodyAssumption
    DEF CheckedCommits, OfKind, CheckLeaderBlockCommit, expects_stacks_block_in_fork, LeaderBlockCommit,
        LeaderKeyRegister, UserBurnSupport
  <2>. QED BY <2>1, <2>2 DEF SortitionSnapshot, TypeOK
<1>2. CASE ~HasSortition(txs, p)
  <2>1. sn = NoSortitionSnapshot(txs, p)
    BY <1>2 DEF MakeSnapshot
  <2>. QED BY <2>1, ConstantAssumption DEF NoSortitionSnapshot, TypeOK
<1>. QED BY <1>1, <1>2

\* The operations of a body, by kind.
LEMMA KindsOfOps ==
    ASSUME NEW txs \in Bodies
    PROVE  /\ \A v \in OfKind(txs, "key") : txs[v] \in LeaderKeyRegister
           /\ \A v \in OfKind(txs, "commit") : txs[v] \in LeaderBlockCommit
           /\ \A v \in OfKind(txs, "burn") : txs[v] \in UserBurnSupport
BY BodyAssumption DEF OfKind, LeaderKeyRegister, LeaderBlockCommit, UserBurnSupport

\* The key of a checked commit: get_leader_key_at finds exactly KeyOf.
LEMMA KeyOfCommit ==
    ASSUME RowsPlaced, NEW txs, NEW p, NEW v \in CheckedCommits(txs, p)
    PROVE  /\ get_leader_key_at(txs[v].key_block_ptr, txs[v].key_vtxindex, p) = {KeyOf(txs[v], p)}
           /\ tries[p].vrf[KeyOf(txs[v], p).tx.public_key] # "consumed"
<1> DEFINE found == get_leader_key_at(txs[v].key_block_ptr, txs[v].key_vtxindex, p)
<1>1. PICK key \in found : tries[p].vrf[key.tx.public_key] # "consumed"
    BY DEF CheckedCommits, CheckLeaderBlockCommit, CheckCommitKey, is_leader_key_consumed
<1>2. \A other \in found : other = key
    BY OneKeyAt
<1>3. found = {key}
    BY <1>1, <1>2
<1>. QED BY <1>1, <1>3 DEF KeyOf

\* index_add_fork_info's trie, part by part.
LEMMA TrieMade ==
    ASSUME NEW b, NEW txs, NEW tip, NEW sn
    PROVE  LET trie == MakeTrie(b, txs, tip, sn)
           IN  /\ trie.path = [h \in FirstHeight .. sn.block_height |->
                                  IF h = sn.block_height THEN b ELSE tries[tip].path[h]]
               /\ trie.vrf = TrieVRF(txs, tip)
               /\ trie.winners = TrieWinners(b, tip, sn)
BY DEF MakeTrie, TriePath

\* process_block, up to the commit of the index: the trie and the open
\* transaction extend the parent's snapshot by what check() let through.
LEMMA IndexBlockInv ==
    ASSUME KeyInv, NEW b \in BurnHash \ {FirstHash}, NEW c \in Contents(b),
           NEW sn \in MakeSnapshot(c.txs, c.parent), IndexBlock(b, c, sn)
    PROVE  KeyInv'
<1> DEFINE p == c.parent
           txs == c.txs
           H == snapshots[p].block_height + 1
<1>0. PICK rows : rows = MakeRows(b, txs, p, sn)
    OBVIOUS
<1> USE DEF KeyInv
<1>1. p \in DOMAIN snapshots /\ txs \in Bodies
    BY DEF Contents, TypeOK
<1>2. /\ b \notin DOMAIN tries /\ DOMAIN tries' = DOMAIN tries \cup {b}
      /\ tries'[b] = MakeTrie(b, txs, p, sn)
      /\ \A x \in DOMAIN tries : tries'[x] = tries[x]
      /\ pending' = {rows}
      /\ ~SharedLeaderKey(txs, p)
    BY <1>0 DEF IndexBlock, Panics
<1>3. /\ snapshots' = snapshots /\ leader_keys' = leader_keys /\ block_commits' = block_commits
      /\ user_burns' = user_burns /\ up' = up
    BY DEF IndexBlock, db
<1>4. /\ b \notin DOMAIN snapshots /\ p \in DOMAIN tries
      /\ \A x \in DOMAIN snapshots : tries'[x] = tries[x]
    BY <1>1, <1>2 DEF TypeOK
<1>5. /\ sn.block_height = H /\ sn.parent_burn_header_hash = p /\ sn.sortition \in BOOLEAN
      /\ sn.num_sortitions \in Nat /\ sn.winning_stacks_block_hash \in StacksBlock
      /\ sn.sortition => sn.winning_stacks_block_hash \notin DOMAIN tries[p].winners
    BY <1>1, SnapshotMade
<1>6. /\ rows.hash = b /\ rows.snapshot = sn
      /\ rows.keys = {Row(b, txs, p, v) : v \in AcceptedKeys(txs, p)}
      /\ rows.commits = {Row(b, txs, p, v) : v \in CheckedCommits(txs, p)}
      /\ rows.burns = {Row(b, txs, p, v) : v \in AcceptedBurns(txs, p)}
    BY <1>0 DEF MakeRows
<1>7. \A v : /\ Row(b, txs, p, v).tx = txs[v] /\ Row(b, txs, p, v).burn_header_hash = b
             /\ Row(b, txs, p, v).vtxindex = v /\ Row(b, txs, p, v).block_height = H
    BY DEF Row
<1>8. \A h, v : get_leader_key_at(h, v, p)' = get_leader_key_at(h, v, p)
    BY <1>1, <1>3, <1>4 DEF get_leader_key_at, HasAncestor, AncestorAt
<1>9. /\ tries'[b].vrf = TrieVRF(txs, p) /\ tries'[b].winners = TrieWinners(b, p, sn)
       /\ tries'[b].path = [h \in FirstHeight .. H |-> IF h = H THEN b ELSE tries[p].path[h]]
    BY <1>2, <1>5, TrieMade
<1>10. \A k \in VRFKey : k \in ConsumedKeys(txs, p) <=> ConsumedIn(rows, p, k)
  <2>1. ASSUME NEW v \in CheckedCommits(txs, p), NEW k \in VRFKey
        PROVE  KeyOf(txs[v], p).tx.public_key = k <=>
                  \E key \in get_leader_key_at(txs[v].key_block_ptr, txs[v].key_vtxindex, p) : key.tx.public_key = k
    BY SMTT(20), KeyOfCommit
  <2>. QED BY <2>1, <1>6, <1>7 DEF ConsumedKeys, ConsumedIn
<1>11. TypeOK'
  <2>1. tries'[b].vrf \in [VRFKey -> {"absent", "available", "consumed"}]
    BY <1>9, <1>4 DEF TrieVRF, TypeOK
  <2>2. DOMAIN tries'[b].winners \subseteq StacksBlock
    BY <1>9, <1>4, <1>5 DEF TrieWinners, TypeOK
  <2>3. \A x \in DOMAIN burnchain' : burnchain'[x].txs \in Bodies
    BY <1>1 DEF IndexBlock, Offer, TypeOK
  <2>. QED BY <2>1, <2>2, <2>3, <1>2, <1>3, <1>4 DEF TypeOK
<1>12. Committed'
    BY <1>3, <1>4, CommittedFrame DEF Committed, db
<1>13. PendingSnapshot(rows, p)'
    BY <1>3, <1>5, <1>6 DEF PendingSnapshot
<1>14. PendingKeys(rows, p)'
  <2>1. ASSUME NEW v \in AcceptedKeys(txs, p)
        PROVE  txs[v] \in LeaderKeyRegister /\ tries[p].vrf[txs[v].public_key] = "absent"
    BY SMTT(20), <1>1, KindsOfOps
    DEF AcceptedKeys, filter_block_VRF_dups, CheckedKeys, CheckLeaderKeyRegister, has_VRF_public_key
  <2>. QED BY SMTT(20), <2>1, <1>1, <1>3, <1>4, <1>6, <1>7 DEF PendingKeys
<1>15. PendingCommits(rows, p)'
  <2>1. ASSUME NEW v \in CheckedCommits(txs, p)
        PROVE  /\ txs[v] \in LeaderBlockCommit /\ txs[v].key_block_ptr < H
               /\ \E key \in get_leader_key_at(txs[v].key_block_ptr, txs[v].key_vtxindex, p) :
                     tries[p].vrf[key.tx.public_key] # "consumed"
    <3>1. txs[v] \in LeaderBlockCommit
        BY <1>1, KindsOfOps DEF CheckedCommits
    <3>2. txs[v].key_block_ptr < H
        BY DEF CheckedCommits, CheckLeaderBlockCommit, CheckCommitKey
    <3>. QED BY SMTT(20), <3>1, <3>2, KeyOfCommit
  <2>2. ASSUME NEW v \in CheckedCommits(txs, p), NEW w \in CheckedCommits(txs, p),
               txs[v].key_block_ptr = txs[w].key_block_ptr, txs[v].key_vtxindex = txs[w].key_vtxindex
        PROVE  v = w
    BY <1>2, <2>2 DEF SharedLeaderKey
  <2>. QED BY SMTT(20), <2>1, <2>2, <1>1, <1>3, <1>4, <1>6, <1>7, <1>8 DEF PendingCommits
<1>16. PendingBurns(rows)'
  <2>1. \A v \in AcceptedBurns(txs, p) : txs[v] \in UserBurnSupport
    <3>1. AcceptedBurns(txs, p) \subseteq CheckedBurns(txs, p)
        BY Zenon DEF AcceptedBurns
    <3>2. CheckedBurns(txs, p) \subseteq OfKind(txs, "burn")
        BY ZenonT(30) DEF CheckedBurns
    <3>. QED BY <3>1, <3>2, <1>1, KindsOfOps, Zenon
  <2>. QED BY <2>1, <1>6, <1>7 DEF PendingBurns
<1>17. PendingTrie(rows, p)'
  <2>1. \A k \in VRFKey : ConsumedIn(rows, p, k)' <=> ConsumedIn(rows, p, k)
    BY <1>8 DEF ConsumedIn
  <2> DEFINE keys == {txs[v].public_key : v \in AcceptedKeys(txs, p)}
  <2>2. \A k \in VRFKey : k \in keys <=> \E r \in rows.keys : r.tx.public_key = k
    BY <1>6, <1>7
  <2>3. tries'[b].path = [h \in FirstHeight .. H |-> IF h = H THEN b ELSE tries[p].path[h]]
    BY <1>9
  <2>4. tries'[b].vrf = [k \in VRFKey |-> IF k \in ConsumedKeys(txs, p) THEN "consumed"
                                          ELSE IF k \in keys THEN "available" ELSE tries[p].vrf[k]]
    BY <1>9 DEF TrieVRF
  <2>5. /\ DOMAIN tries[p].winners \subseteq DOMAIN tries'[b].winners
        /\ sn.sortition => sn.winning_stacks_block_hash \in DOMAIN tries'[b].winners
    BY <1>9, <1>5 DEF TrieWinners
  <2>6. tries'[p] = tries[p] /\ snapshots'[p] = snapshots[p]
    BY <1>1, <1>3, <1>4
  <2>7. \A k \in VRFKey :
           /\ ConsumedIn(rows, p, k) => tries'[b].vrf[k] = "consumed"
           /\ ~ConsumedIn(rows, p, k) /\ k \in keys => tries'[b].vrf[k] = "available"
           /\ ~ConsumedIn(rows, p, k) /\ k \notin keys => tries'[b].vrf[k] = tries[p].vrf[k]
    BY <2>4, <1>10, ZenonT(30)
  <2> HIDE DEF keys, p, txs
  <2>. QED BY <2>1, <2>2, <2>3, <2>5, <2>6, <2>7, <1>5, <1>6 DEF PendingTrie
<1>18. PendingInFlight'
    BY <1>1, <1>2, <1>3, <1>4, <1>6, <1>13, <1>14, <1>15, <1>16, <1>17 DEF PendingInFlight, InFlight
<1>. QED BY <1>11, <1>12, <1>18 DEF Committed
=============================================================================
