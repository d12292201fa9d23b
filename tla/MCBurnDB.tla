----------------------------- MODULE MCBurnDB -----------------------------
(***************************************************************************)
(* Small instances of BurnDB.  Heights start at 1, so the first block that *)
(* can register a key is at height 2.                                      *)
(***************************************************************************)
EXTENDS BurnDB

CONSTANTS k1, k2, s0, s1, s2, alice, bob

Key(id, k, a, seen) ==
    [op |-> "key", txid |-> id, public_key |-> k, address |-> a, consensus_hash |-> seen]
Commit(id, s, fee, a, kh, kv, ph, pv) ==
    [op |-> "commit", txid |-> id, block_header_hash |-> s, burn_fee |-> fee, input |-> a,
     key_block_ptr |-> kh, key_vtxindex |-> kv, parent_block_ptr |-> ph, parent_vtxindex |-> pv]
Burn(id, k, s, fee, kh, kv, seen) ==
    [op |-> "burn", txid |-> id, public_key |-> k, block_header_hash_160 |-> s, burn_fee |-> fee,
     key_block_ptr |-> kh, key_vtxindex |-> kv, consensus_hash |-> seen]

\* Registrations, and commits that contend for keys and for Stacks blocks.
Reg1 == Key(1, k1, alice, 0)
Reg1Again == Key(2, k1, bob, 0)
Reg2 == Key(3, k2, alice, 0)
S1ByK1 == Commit(4, s1, 1, alice, 2, 1, 0, 0)
S2ByK1 == Commit(5, s2, 1, alice, 2, 1, 0, 0)
S1ByK2 == Commit(6, s1, 1, alice, 2, 2, 0, 0)
S2ByK2 == Commit(7, s2, 1, alice, 2, 2, 0, 0)

ForkBodies ==
    {<<>>, <<Reg1, Reg1Again>>, <<Reg1, Reg2>>, <<S1ByK1, S1ByK2>>, <<S2ByK1>>,
     <<S1ByK1, S2ByK1>>, <<S2ByK2>>}

\* Commits of several amounts with user burns that match a commit, match its
\* block but not its key, or come without one; a commit from the wrong address
\* and a registration with a consensus hash that ages.  Big1 with its user burn
\* reaches U64Max in one block; a stale user burn leaves it below.
Big1 == Commit(11, s1, 4, alice, 2, 1, 0, 0)
Small2 == Commit(12, s2, 1, alice, 2, 2, 0, 0)
Child2 == Commit(13, s2, 2, alice, 2, 2, 3, 1)
Imposter == Commit(14, s1, 2, bob, 2, 1, 0, 0)
ForBig1 == Burn(15, k1, s1, 2, 2, 1, 0)
WrongKey == Burn(16, k2, s1, 1, 2, 2, 1)
For2 == Burn(17, k2, s2, 2, 2, 2, 1)

BurnBodies ==
    {<<>>, <<Reg1, Reg2>>, <<Big1, ForBig1>>, <<Small2, WrongKey, For2>>, <<Child2, Imposter>>,
     <<Big1, Small2, WrongKey>>}

\* Burn hashes are only compared for equality, so new blocks may be named in
\* the order in which they are first offered.
NamedInOrder ==
    \A b \in DOMAIN burnchain' \ DOMAIN burnchain : \A x \in BurnHash \ DOMAIN burnchain : x # FirstHash => b <= x
=============================================================================
