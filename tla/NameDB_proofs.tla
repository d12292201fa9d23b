--------------------------- MODULE NameDB_proofs ---------------------------
(***************************************************************************)
(* Proofs about NameDB, for every set of names, namespaces and principals, *)
(* every value of the periods and prices and every chain of blocks.        *)
(***************************************************************************)
EXTENDS NameDB, TLAPS, WellFoundedInduction

----------------------------------------------------------------------------
\* Rows and operations.

\* fetchone() returns one of the rows it was asked about.
LEMMA FetchOneIn ==
    ASSUME NEW rows, rows # {}, \A r \in rows : r.block_number \in Nat
    PROVE  FetchOne(rows) \in rows
<1> DEFINE T == {r.block_number : r \in rows}
<1>1. T \subseteq Nat /\ T # {}
    OBVIOUS
<1>2. PICK b \in T : \A c \in T : ~ (<<c, b>> \in OpToRel(<, Nat))
  <2> HIDE DEF T
  <2>. QED BY <1>1, WFMin, NatLessThanWellFounded
<1>3. \A c \in T : b <= c
  <2> SUFFICES ASSUME NEW c \in T PROVE b <= c
    OBVIOUS
  <2>1. <<c, b>> \in Nat \X Nat
    BY <1>1
  <2>2. ~ (c < b)
    BY <1>2, <2>1 DEF OpToRel
  <2>. QED BY <1>1, <2>2
<1>4. PICK r \in rows : r.block_number = b
    OBVIOUS
<1>5. \A q \in rows : r.block_number <= q.block_number
    BY <1>3, <1>4
<1>. QED BY <1>5 DEF FetchOne

\* The fields the parsers give to an operation.
LEMMA OperationFields ==
    ASSUME NEW op \in Operation
    PROVE  /\ op.sender \in Principals
           /\ op.opcode \in {"NAME_PREORDER", "NAME_REGISTRATION", "NAME_RENEWAL", "NAME_UPDATE",
                             "NAME_TRANSFER", "NAME_REVOKE", "NAME_IMPORT"} => op.name \in Names
           /\ op.opcode \in {"NAMESPACE_PREORDER", "NAMESPACE_REVEAL", "NAMESPACE_READY"} =>
                op.namespace_id \in Namespaces
           /\ op.opcode \notin {"NAME_UPDATE", "NAME_REVOKE", "NAMESPACE_READY"} =>
                op.recipient \in Principals
           /\ op.opcode \in {"NAME_REGISTRATION", "NAME_RENEWAL", "NAME_UPDATE", "NAME_IMPORT"} =>
                op.value_hash \in Values
           /\ op.opcode \in {"NAME_PREORDER", "NAME_RENEWAL", "NAMESPACE_PREORDER",
                             "TOKEN_TRANSFER"} => op.token_fee \in Nat
           /\ op.opcode \in {"NAME_PREORDER", "NAMESPACE_PREORDER"} =>
                op.op_fee \in Nat /\ op.burn_address \in Principals \cup {BurnAddress}
           /\ op.opcode = "NAME_PREORDER" => op.token_units \in {"BTC", "STACKS"}
           /\ op.opcode = "NAMESPACE_REVEAL" => op.pricing \in Pricing
BY DEF Operation

\* A date after this block and not after the next is the next block.
LEMMA NextBlock ==
    ASSUME NEW a \in Nat, NEW b \in Nat, a < b, ~ (a + 1 < b)
    PROVE  b = a + 1
OBVIOUS

\* An operation that is committed passed its check, and from here on what it
\* takes is marked; nothing else of the state of the block changes.
LEMMA CommittedFacts ==
    ASSUME IndInv, NEW opcode, Committed(opcode)
    PROVE  /\ nameop \in Operation /\ nameop.opcode = opcode
           /\ check(nameop) /\ CollisionKey(nameop) \cap collisions = {}
           /\ collisions \subseteq collisions' /\ CollisionKey(nameop) \subseteq collisions'
           /\ chain' = chain /\ lastblock' = lastblock /\ block_id' = block_id
           /\ ops # <<>> /\ ops' \in Seq(Operation)
           /\ indexing /\ indexing' = indexing
           /\ ~ aborted /\ aborted' = aborted
BY DEF Committed, op_check, IndInv, nameop, block_id

----------------------------------------------------------------------------
\* What the invariant asks of the row a step writes.

MarkedName(n, rec) ==
    /\ Past(rec.first_registered) /\ Past(rec.preorder_block_number)
    /\ rec.first_registered <= rec.last_renewed
    /\ rec.last_creation_op = "NAME_PREORDER" =>
        /\ rec.first_registered = block_id => <<"name", n>> \in collisions'
        /\ rec.preorder_block_number = block_id =>
                <<"preorder_hash", rec.preorder_hash>> \in collisions'

FinalName(n, rec) ==
    /\ rec.revoked <=> rec.op = "NAME_REVOKE"
    /\ rec.revoked => rec.value_hash = NoValue /\ is_namespace_ready(NamespaceOf[n])

MatchedName(n, rec) ==
    LET ns == NamespaceOf[n]
    IN  is_namespace_ready(ns) \/
        /\ ns \in DOMAIN namespaces
        /\ rec.last_creation_op = "NAME_IMPORT"
        /\ rec.block_number = rec.first_registered
        /\ \/ rec.token_fee = ImportFee(ns)
           \/ /\ rec.first_registered < namespaces[ns].reveal_block
              /\ rec.token_fee # ImportFee(ns)
        /\ rec.first_registered = block_id => is_namespace_revealed(ns)

AccountsTyped(table) ==
    /\ DOMAIN table \subseteq Principals
    /\ \A p \in DOMAIN table : table[p] \in Account

KeychainTyped(table) ==
    /\ DOMAIN table \subseteq Namespaces
    /\ \A ns \in DOMAIN table : table[ns] \subseteq Principals

\* A step that writes one row of the table of names keeps the invariant if the
\* row is well-formed, marked, matched, and younger than no preorder with its hash.
LEMMA NameWritten ==
    ASSUME IndInv, NEW opcode, Committed(opcode),
           NEW n \in Names, NEW rec \in NameRecord,
           name_records' = Put(name_records, n, rec),
           MarkedName(n, rec), FinalName(n, rec), MatchedName(n, rec),
           preorders' \subseteq preorders, namespaces' = namespaces,
           \A r \in preorders' :
                rec.last_creation_op = "NAME_PREORDER" /\ rec.preorder_hash = r.preorder_hash
                => r.block_number > rec.preorder_block_number,
           AccountsTyped(accounts'), KeychainTyped(keychain')
    PROVE  IndInv'
<1> /\ chain' = chain /\ lastblock' = lastblock /\ block_id' = block_id
    /\ ops' \in Seq(Operation) /\ collisions \subseteq collisions'
    /\ indexing' = indexing /\ indexing /\ aborted' = aborted /\ ~ aborted
    BY CommittedFacts
<1>1. /\ DOMAIN name_records' = DOMAIN name_records \cup {n}
      /\ name_records'[n] = rec
      /\ \A x \in DOMAIN name_records : x # n => name_records'[x] = name_records[x]
    BY DEF Put
<1>2. TypeOK'
    BY <1>1 DEF TypeOK, IndInv, AccountsTyped, KeychainTyped
<1>3. \A h : Past(h) => Past(h)'
    BY DEF Past
<1>4. NamesMarked'
  <2> SUFFICES ASSUME NEW x \in DOMAIN name_records' PROVE MarkedName(x, name_records'[x])
    BY <1>3 DEF NamesMarked, MarkedName
  <2>1. CASE x = n
    BY <1>1, <2>1
  <2>2. CASE x # n
    BY <1>1, <2>2 DEF MarkedName, NamesMarked, IndInv
  <2>. QED BY <2>1, <2>2
<1>5. NamespacesMarked'
    BY <1>3 DEF NamespacesMarked, IndInv
<1>6. PreordersMarked'
    BY <1>3 DEF PreordersMarked, IndInv
<1>7. RevokedForGood'
  <2> SUFFICES ASSUME NEW x \in DOMAIN name_records' PROVE FinalName(x, name_records'[x])
    BY DEF RevokedForGood, FinalName, is_namespace_ready
  <2>1. CASE x = n
    BY <1>1, <2>1
  <2>2. CASE x # n
    BY <1>1, <2>2 DEF FinalName, RevokedForGood, IndInv
  <2>. QED BY <2>1, <2>2
<1>8. PreorderUsedOnce'
    BY <1>1 DEF PreorderUsedOnce, IndInv
<1>9. CommitFollowsCheck'
    BY DEF CommitFollowsCheck
<1>10. ImportsMatch'
  <2> SUFFICES ASSUME NEW x \in DOMAIN name_records' PROVE MatchedName(x, name_records'[x])
    BY DEF ImportsMatch, MatchedName, ImportedAtOtherPrice, ImportFee, is_namespace_ready,
           is_namespace_revealed, RevealedAt
  <2>1. CASE x = n
    BY <1>1, <2>1
  <2>2. CASE x # n
    BY <1>1, <2>2 DEF MatchedName, ImportsMatch, ImportedAtOtherPrice, IndInv
  <2>. QED BY <2>1, <2>2
<1>11. RevealsNotReady'
    BY DEF RevealsNotReady, IndInv
<1>. QED BY <1>2, <1>4, <1>5, <1>6, <1>7, <1>8, <1>9, <1>10, <1>11 DEF IndInv

\* A step that adds preorders keeps the invariant if nothing of this block has
\* their hash yet.
LEMMA PreordersWritten ==
    ASSUME IndInv, NEW opcode, Committed(opcode), NEW rows,
           preorders' = preorders \cup rows,
           \A r \in rows : /\ r \in Preorder /\ r.block_number = block_id
                           /\ <<"preorder_hash", r.preorder_hash>> \in collisions' \ collisions,
           UNCHANGED <<namespaces, name_records, keychain>>, AccountsTyped(accounts')
    PROVE  IndInv'
<1> /\ chain' = chain /\ lastblock' = lastblock /\ block_id' = block_id
    /\ ops' \in Seq(Operation) /\ collisions \subseteq collisions'
    /\ indexing' = indexing /\ indexing /\ aborted' = aborted /\ ~ aborted
    BY CommittedFacts
<1>1. TypeOK'
    BY Zenon DEF TypeOK, IndInv, AccountsTyped
<1>2. lastblock \in Nat /\ block_id = lastblock + 1
    BY DEF TypeOK, IndInv, block_id
<1>3. \A h : Past(h) => Past(h)'
    BY DEF Past
<1>4. NamesMarked'
    BY <1>3 DEF NamesMarked, IndInv
<1>5. NamespacesMarked'
    BY <1>3 DEF NamespacesMarked, IndInv
<1>6. PreordersMarked'
  <2> SUFFICES ASSUME NEW r \in preorders'
               PROVE  /\ Past(r.block_number)
                      /\ r.block_number = block_id =>
                            <<"preorder_hash", r.preorder_hash>> \in collisions'
    BY <1>3 DEF PreordersMarked
  <2>. QED BY DEF PreordersMarked, IndInv, Past
<1>7. RevokedForGood'
    BY DEF RevokedForGood, IndInv, is_namespace_ready
<1>8. PreorderUsedOnce'
  <2> SUFFICES ASSUME NEW n \in DOMAIN name_records, NEW r \in preorders',
                      name_records[n].last_creation_op = "NAME_PREORDER",
                      name_records[n].preorder_hash = r.preorder_hash
               PROVE  r.block_number > name_records[n].preorder_block_number
    BY DEF PreorderUsedOnce
  <2>1. CASE r \in preorders
    BY <2>1 DEF PreorderUsedOnce, IndInv
  <2>2. CASE r \in rows
    <3>1. name_records[n].preorder_block_number # block_id
        BY <2>2, Zenon DEF NamesMarked, IndInv
    <3>2. name_records[n].preorder_block_number <= lastblock
        BY <3>1, Zenon DEF NamesMarked, IndInv, Past
    <3>3. name_records[n].preorder_block_number \in Nat
        BY DEF TypeOK, IndInv, NameRecord
    <3>4. r.block_number = lastblock + 1
        BY <1>2, <2>2, Zenon
    <3>. QED BY <1>2, <3>2, <3>3, <3>4
  <2>. QED BY <2>1, <2>2
<1>9. CommitFollowsCheck'
    BY DEF CommitFollowsCheck
<1>10. ImportsMatch' /\ RevealsNotReady'
    BY DEF IndInv, ImportsMatch, RevealsNotReady, ImportedAtOtherPrice, ImportFee,
           is_namespace_ready, is_namespace_revealed, RevealedAt
<1>. QED BY <1>1, <1>4, <1>5, <1>6, <1>7, <1>8, <1>9, <1>10 DEF IndInv

\* A step that writes one row of the table of namespaces keeps the invariant if
\* the namespace was not ready and the row is well-formed and marked, and makes
\* the namespace ready or reveals one that no lookup shows.
LEMMA NamespaceWritten ==
    ASSUME IndInv, NEW opcode, Committed(opcode),
           NEW ns \in Namespaces, NEW row \in NamespaceRecord,
           namespaces' = Put(namespaces, ns, row),
           ~ is_namespace_ready(ns),
           Past(row.reveal_block),
           row.reveal_block = block_id => <<"namespace_id", ns>> \in collisions',
           \/ row.op = "NAMESPACE_READY"
           \/ row.ready_block = 0 /\ row.reveal_block = block_id /\ ~ is_namespace_revealed(ns),
           preorders' \subseteq preorders, UNCHANGED <<name_records, keychain, accounts>>
    PROVE  IndInv'
<1> /\ chain' = chain /\ lastblock' = lastblock /\ block_id' = block_id
    /\ ops' \in Seq(Operation) /\ collisions \subseteq collisions'
    /\ indexing' = indexing /\ indexing /\ aborted' = aborted /\ ~ aborted
    BY CommittedFacts
<1>1. /\ DOMAIN namespaces' = DOMAIN namespaces \cup {ns}
      /\ namespaces'[ns] = row
      /\ \A x \in DOMAIN namespaces : x # ns => namespaces'[x] = namespaces[x]
    BY DEF Put
<1>2. TypeOK'
    BY <1>1 DEF TypeOK, IndInv
<1>3. \A h : Past(h) => Past(h)'
    BY DEF Past
<1>4. NamesMarked'
    BY <1>3 DEF NamesMarked, IndInv
<1>5. NamespacesMarked'
  <2> SUFFICES ASSUME NEW x \in DOMAIN namespaces'
               PROVE  /\ Past(namespaces'[x].reveal_block)
                      /\ namespaces'[x].reveal_block = block_id =>
                            <<"namespace_id", x>> \in collisions'
    BY <1>3 DEF NamespacesMarked
  <2>1. CASE x = ns
    BY <1>1, <2>1
  <2>2. CASE x # ns
    BY <1>1, <2>2 DEF NamespacesMarked, IndInv
  <2>. QED BY <2>1, <2>2
<1>6. PreordersMarked'
    BY <1>3 DEF PreordersMarked, IndInv
<1>7. RevokedForGood'
  <2>1. \A x : is_namespace_ready(x) => is_namespace_ready(x)'
    BY <1>1 DEF is_namespace_ready
  <2>. QED BY <2>1 DEF RevokedForGood, IndInv
<1>8. PreorderUsedOnce'
    BY DEF PreorderUsedOnce, IndInv
<1>9. CommitFollowsCheck'
    BY DEF CommitFollowsCheck
<1>10. ImportsMatch'
  <2> SUFFICES ASSUME NEW n \in DOMAIN name_records, ~ is_namespace_ready(NamespaceOf[n])'
               PROVE  MatchedName(n, name_records[n])'
    BY DEF ImportsMatch, MatchedName, ImportedAtOtherPrice
  <2> DEFINE rec == name_records[n]
  <2>1. ~ is_namespace_ready(NamespaceOf[n])
    BY <1>1 DEF is_namespace_ready
  <2>2. MatchedName(n, rec)
    BY DEF IndInv, ImportsMatch, ImportedAtOtherPrice, MatchedName
  <2>3. rec.first_registered \in Nat /\ lastblock \in Nat
    BY DEF IndInv, TypeOK, NameRecord
  <2>4. CASE NamespaceOf[n] = ns
    <3>1. row.reveal_block = block_id /\ ~ is_namespace_revealed(ns)
        BY <1>1, <2>4 DEF is_namespace_ready
    <3>2. rec.first_registered # block_id
        BY <2>1, <2>2, <2>4, <3>1 DEF MatchedName
    <3>3. rec.first_registered < row.reveal_block
      <4>1. rec.first_registered <= lastblock
        BY <3>2, ZenonT(30) DEF IndInv, NamesMarked, Past
      <4> HIDE DEF rec
      <4>. QED BY <2>3, <3>1, <4>1 DEF block_id
    <3>. QED BY <1>1, <2>1, <2>2, <2>4, <3>2, <3>3 DEF MatchedName
  <2>5. CASE NamespaceOf[n] # ns
    BY <1>1, <2>1, <2>2, <2>5
       DEF MatchedName, ImportFee, is_namespace_ready, is_namespace_revealed, RevealedAt
  <2>. QED BY <2>4, <2>5
<1>11. RevealsNotReady'
    BY <1>1 DEF RevealsNotReady, IndInv
<1>. QED BY <1>2, <1>4, <1>5, <1>6, <1>7, <1>8, <1>9, <1>10, <1>11 DEF IndInv

----------------------------------------------------------------------------
\* Debits, credits and import keychains keep the types of their tables.

\* namedb_account_debit leaves well-formed accounts.
LEMMA DebitTyped ==
    ASSUME AccountsTyped(accounts), NEW p \in DOMAIN accounts, NEW amount \in Nat
    PROVE  AccountsTyped(Debit(p, amount))
<1>1. [accounts[p] EXCEPT !.debit_value = @ + amount] \in Account
    BY DEF AccountsTyped, Account
<1>. QED BY <1>1 DEF AccountsTyped, Debit, Put

\* namedb_account_credit leaves well-formed accounts, new ones included.
LEMMA CreditTyped ==
    ASSUME NEW table, AccountsTyped(table), NEW p \in Principals, NEW amount \in Nat
    PROVE  AccountsTyped(Credit(table, p, amount))
<1>1. CASE p \in DOMAIN table
  <2>1. [table[p] EXCEPT !.credit_value = @ + amount] \in Account
    BY <1>1 DEF AccountsTyped, Account
  <2>. QED BY <1>1, <2>1 DEF AccountsTyped, Credit, Put
<1>2. CASE p \notin DOMAIN table
  <2> DEFINE fresh == [credit_value |-> amount, debit_value |-> 0,
                       lock_transfer_block_id |-> 0, receive_whitelisted |-> TRUE]
  <2>1. fresh \in Account
    BY DEF Account
  <2>2. Credit(table, p, amount) = Put(table, p, fresh)
    BY <1>2 DEF Credit
  <2> HIDE DEF fresh
  <2>. QED BY <2>1, <2>2 DEF AccountsTyped, Put
<1>. QED BY <1>1, <1>2

\* The keychains the checks of imports store hold addresses.
LEMMA KeychainsBuiltTyped ==
    ASSUME TypeOK, NEW operations \in SUBSET Operation
    PROVE  KeychainTyped(KeychainsBuilt(operations))
<1> DEFINE built == {NamespaceOf[op.name] :
                        op \in {o \in operations : /\ o.opcode = "NAME_IMPORT"
                                                   /\ BuildsKeychain(o)}}
<1>1. \A ns \in built : ns \in DOMAIN namespaces
    BY DEF BuildsKeychain, is_namespace_revealed, RevealedAt
<1>2. \A ns \in built : ns \in Namespaces /\ ImportKeys[namespaces[ns].recipient] \subseteq Principals
    BY <1>1, DataAssumption DEF TypeOK, NamespaceRecord
<1>3. KeychainsBuilt(operations) =
        [ns \in DOMAIN keychain \cup built |->
            IF ns \in DOMAIN keychain THEN keychain[ns]
            ELSE ImportKeys[namespaces[ns].recipient]]
    BY DEF KeychainsBuilt
<1> HIDE DEF built
<1>. QED BY <1>2, <1>3 DEF KeychainTyped, TypeOK

----------------------------------------------------------------------------
\* The steps, one lemma for each kind of operation.

\* The owner of a name, as the checks see it.
LEMMA OwnerFacts ==
    ASSUME NEW n, NEW p, is_name_owner(n, p)
    PROVE  /\ n \in DOMAIN name_records /\ get_name(n)
           /\ name_records[n].sender = p /\ ~ name_records[n].revoked
BY DEF is_name_owner, is_name_registered, get_name, Unexpired

\* A change of a name of a ready namespace that leaves alone where its
\* registration came from.
LEMMA LiveNameChanged ==
    ASSUME IndInv, NEW opcode, Committed(opcode),
           NEW n \in DOMAIN name_records, NEW rec \in NameRecord,
           name_records' = Put(name_records, n, rec), FinalName(n, rec),
           is_namespace_ready(NamespaceOf[n]),
           rec.first_registered = name_records[n].first_registered,
           rec.preorder_block_number = name_records[n].preorder_block_number,
           rec.preorder_hash = name_records[n].preorder_hash,
           rec.last_creation_op = name_records[n].last_creation_op,
           rec.last_renewed \in {name_records[n].last_renewed, block_id},
           UNCHANGED <<preorders, namespaces, keychain>>, AccountsTyped(accounts')
    PROVE  IndInv'
<1>1. n \in Names /\ name_records[n] \in NameRecord /\ lastblock \in Nat
    BY DEF IndInv, TypeOK
<1>2. collisions \subseteq collisions'
    BY CommittedFacts
<1>3. MarkedName(n, name_records[n])
    BY <1>2 DEF IndInv, NamesMarked, MarkedName
<1>4. rec.first_registered <= rec.last_renewed
    BY <1>1, <1>3 DEF MarkedName, NameRecord, Past, block_id
<1>5. MarkedName(n, rec)
    BY <1>3, <1>4 DEF MarkedName
<1>6. KeychainTyped(keychain')
    BY DEF IndInv, TypeOK, KeychainTyped
<1>7. \A r \in preorders' :
        rec.last_creation_op = "NAME_PREORDER" /\ rec.preorder_hash = r.preorder_hash
        => r.block_number > rec.preorder_block_number
    BY Zenon DEF IndInv, PreorderUsedOnce
<1>8. MatchedName(n, rec)
    BY DEF MatchedName
<1>. QED BY <1>1, <1>5, <1>6, <1>7, <1>8, NameWritten, SMTT(30)

\* A renewal moves only the date of the last renewal, to this block, which is
\* not before the registration.
LEMMA RenewalInv == IndInv /\ NAME_RENEWAL => IndInv'
<1> SUFFICES ASSUME IndInv, NAME_RENEWAL PROVE IndInv'
    OBVIOUS
<1> DEFINE n == nameop.name
           rec == [name_records[n] EXCEPT
                    !.op = "NAME_RENEWAL", !.last_renewed = block_id,
                    !.sender = nameop.recipient, !.token_fee = nameop.token_fee,
                    !.value_hash = IF nameop.value_hash = NoValue THEN @ ELSE nameop.value_hash]
<1>1. Committed("NAME_RENEWAL") /\ UNCHANGED <<preorders, namespaces, keychain>>
    BY DEF NAME_RENEWAL
<1>2. nameop \in Operation /\ nameop.opcode = "NAME_RENEWAL" /\ check(nameop)
    BY <1>1, CommittedFacts
<1>3. check_renewal(nameop)
    BY <1>2 DEF check
<1>4. /\ n \in DOMAIN name_records /\ ~ name_records[n].revoked
      /\ is_namespace_ready(NamespaceOf[n])
    BY <1>3, OwnerFacts DEF check_renewal
<1>5. name_records[n] \in NameRecord /\ block_id \in Nat /\ AccountsTyped(accounts)
    BY <1>4 DEF IndInv, TypeOK, block_id, AccountsTyped
<1>6. nameop.recipient \in Principals /\ nameop.value_hash \in Values /\ nameop.token_fee \in Nat
    BY <1>2, OperationFields
<1>7. rec \in NameRecord
    BY <1>5, <1>6, Zenon DEF NameRecord, ChangesLiveName
<1>8. FinalName(n, rec)
    BY <1>4, <1>5 DEF FinalName, NameRecord
<1>9. AccountsTyped(accounts')
  <2>1. CASE nameop.token_fee = 0
    BY <1>5, <2>1 DEF NAME_RENEWAL
  <2>2. CASE nameop.token_fee # 0
    <3>1. nameop.sender \in DOMAIN accounts
        BY <1>3, <2>2 DEF check_renewal, RenewalPayment, CanAfford
    <3>2. accounts' = Debit(nameop.sender, nameop.token_fee)
        BY <2>2 DEF NAME_RENEWAL
    <3>. QED BY <1>5, <1>6, <3>1, <3>2, DebitTyped
  <2>. QED BY <2>1, <2>2
<1>10. name_records' = Put(name_records, n, rec)
    BY DEF NAME_RENEWAL
<1>11. /\ rec.first_registered = name_records[n].first_registered
       /\ rec.preorder_block_number = name_records[n].preorder_block_number
       /\ rec.preorder_hash = name_records[n].preorder_hash
       /\ rec.last_creation_op = name_records[n].last_creation_op
       /\ rec.last_renewed = block_id
    BY <1>5 DEF NameRecord
<1> HIDE DEF n, rec
<1>. QED BY <1>1, <1>4, <1>7, <1>8, <1>9, <1>10, <1>11, LiveNameChanged

\* An update leaves the dates and the marks of the name alone.
LEMMA UpdateInv == IndInv /\ NAME_UPDATE => IndInv'
<1> SUFFICES ASSUME IndInv, NAME_UPDATE PROVE IndInv'
    OBVIOUS
<1> DEFINE n == nameop.name
           rec == [name_records[n] EXCEPT
                    !.op = "NAME_UPDATE", !.value_hash = nameop.value_hash]
<1>1. Committed("NAME_UPDATE") /\ UNCHANGED <<preorders, namespaces, keychain, accounts>>
    BY DEF NAME_UPDATE
<1>2. nameop \in Operation /\ nameop.opcode = "NAME_UPDATE" /\ check(nameop)
    BY <1>1, CommittedFacts
<1>3. check_update(nameop)
    BY <1>2 DEF check
<1>4. /\ n \in DOMAIN name_records /\ ~ name_records[n].revoked
      /\ is_namespace_ready(NamespaceOf[n])
    BY <1>3, OwnerFacts DEF check_update, NamesOwned
<1>5. name_records[n] \in NameRecord /\ AccountsTyped(accounts')
    BY <1>1, <1>4 DEF IndInv, TypeOK, AccountsTyped
<1>6. rec \in NameRecord
    BY <1>2, <1>5, OperationFields, DataAssumption, Zenon DEF NameRecord, ChangesLiveName
<1>7. FinalName(n, rec)
    BY <1>4, <1>5 DEF FinalName, NameRecord
<1>8. name_records' = Put(name_records, n, rec)
    BY DEF NAME_UPDATE
<1>9. /\ rec.first_registered = name_records[n].first_registered
      /\ rec.preorder_block_number = name_records[n].preorder_block_number
      /\ rec.preorder_hash = name_records[n].preorder_hash
      /\ rec.last_creation_op = name_records[n].last_creation_op
      /\ rec.last_renewed = name_records[n].last_renewed
    BY <1>5 DEF NameRecord
<1> HIDE DEF n, rec
<1>. QED BY <1>1, <1>4, <1>5, <1>6, <1>7, <1>8, <1>9, LiveNameChanged

\* A transfer changes the owner, and does not make a name revoked or live.
LEMMA TransferInv == IndInv /\ NAME_TRANSFER => IndInv'
<1> SUFFICES ASSUME IndInv, NAME_TRANSFER PROVE IndInv'
    OBVIOUS
<1> DEFINE n == nameop.name
           rec == [name_records[n] EXCEPT
                    !.op = "NAME_TRANSFER", !.sender = nameop.recipient,
                    !.value_hash = IF nameop.keep_data THEN @ ELSE NoValue]
<1>1. Committed("NAME_TRANSFER") /\ UNCHANGED <<preorders, namespaces, keychain, accounts>>
    BY DEF NAME_TRANSFER
<1>2. nameop \in Operation /\ nameop.opcode = "NAME_TRANSFER" /\ check(nameop)
    BY <1>1, CommittedFacts
<1>3. check_transfer(nameop)
    BY <1>2 DEF check
<1>4. /\ n \in DOMAIN name_records /\ ~ name_records[n].revoked
      /\ is_namespace_ready(NamespaceOf[n])
    BY <1>3, OwnerFacts DEF check_transfer
<1>5. name_records[n] \in NameRecord /\ AccountsTyped(accounts')
    BY <1>1, <1>4 DEF IndInv, TypeOK, AccountsTyped
<1>6. rec \in NameRecord
    BY <1>2, <1>5, OperationFields, DataAssumption, Zenon DEF NameRecord, ChangesLiveName
<1>7. FinalName(n, rec)
    BY <1>4, <1>5 DEF FinalName, NameRecord
<1>8. name_records' = Put(name_records, n, rec)
    BY DEF NAME_TRANSFER
<1>9. /\ rec.first_registered = name_records[n].first_registered
      /\ rec.preorder_block_number = name_records[n].preorder_block_number
      /\ rec.preorder_hash = name_records[n].preorder_hash
      /\ rec.last_creation_op = name_records[n].last_creation_op
      /\ rec.last_renewed = name_records[n].last_renewed
    BY <1>5 DEF NameRecord
<1> HIDE DEF n, rec
<1>. QED BY <1>1, <1>4, <1>5, <1>6, <1>7, <1>8, <1>9, LiveNameChanged

\* A revocation takes the value away, and is accepted only in a ready namespace,
\* where no import follows.
LEMMA RevokeInv == IndInv /\ NAME_REVOKE => IndInv'
<1> SUFFICES ASSUME IndInv, NAME_REVOKE PROVE IndInv'
    OBVIOUS
<1> DEFINE n == nameop.name
           rec == [name_records[n] EXCEPT
                    !.op = "NAME_REVOKE", !.revoked = TRUE, !.value_hash = NoValue]
<1>1. Committed("NAME_REVOKE") /\ UNCHANGED <<preorders, namespaces, keychain, accounts>>
    BY DEF NAME_REVOKE
<1>2. nameop \in Operation /\ nameop.opcode = "NAME_REVOKE" /\ check(nameop)
    BY <1>1, CommittedFacts
<1>3. check_revoke(nameop)
    BY <1>2 DEF check
<1>4. /\ n \in DOMAIN name_records /\ ~ name_records[n].revoked
      /\ is_namespace_ready(NamespaceOf[n])
    BY <1>3, OwnerFacts DEF check_revoke
<1>5. name_records[n] \in NameRecord /\ AccountsTyped(accounts')
    BY <1>1, <1>4 DEF IndInv, TypeOK, AccountsTyped
<1>6. rec \in NameRecord
    BY <1>2, <1>5, OperationFields, DataAssumption, ZenonT(30) DEF NameRecord, ChangesLiveName
<1>7. FinalName(n, rec)
    BY <1>3, <1>5 DEF FinalName, NameRecord, check_revoke
<1>8. name_records' = Put(name_records, n, rec)
    BY DEF NAME_REVOKE
<1>9. /\ rec.first_registered = name_records[n].first_registered
      /\ rec.preorder_block_number = name_records[n].preorder_block_number
      /\ rec.preorder_hash = name_records[n].preorder_hash
      /\ rec.last_creation_op = name_records[n].last_creation_op
      /\ rec.last_renewed = name_records[n].last_renewed
    BY <1>5 DEF NameRecord
<1> HIDE DEF n, rec
<1>. QED BY <1>1, <1>4, <1>5, <1>6, <1>7, <1>8, <1>9, LiveNameChanged

\* The preorder a registration or a reveal uses is one of the table's rows.
LEMMA PreorderFound ==
    ASSUME TypeOK, NEW rows \in SUBSET preorders, rows # {}
    PROVE  FetchOne(rows) \in preorders /\ FetchOne(rows) \in rows
<1>1. \A r \in rows : r.block_number \in Nat
    BY DEF TypeOK, Preorder
<1>. QED BY <1>1, FetchOneIn

\* A registration marks the name, and takes the date of its preorder from a row
\* that is marked; the preorders with its hash are gone afterwards.
LEMMA RegistrationInv == IndInv /\ NAME_REGISTRATION => IndInv'
<1> SUFFICES ASSUME IndInv, NAME_REGISTRATION PROVE IndInv'
    OBVIOUS
<1> DEFINE n == nameop.name
           hash == hash_name(nameop)
           preorder == FetchOne(NamePreorders(hash))
           rec == [op |-> "NAME_REGISTRATION", last_creation_op |-> "NAME_PREORDER",
                   block_number |-> IF n \in DOMAIN name_records
                                    THEN name_records[n].block_number
                                    ELSE preorder.block_number,
                   preorder_block_number |-> preorder.block_number,
                   preorder_hash |-> hash,
                   first_registered |-> block_id, last_renewed |-> block_id,
                   sender |-> nameop.recipient, value_hash |-> nameop.value_hash,
                   token_fee |-> IF preorder.token_units = "STACKS"
                                 THEN preorder.token_fee ELSE 0,
                   revoked |-> FALSE]
<1>1. Committed("NAME_REGISTRATION") /\ UNCHANGED <<namespaces, keychain, accounts>>
    BY DEF NAME_REGISTRATION
<1>2. /\ nameop \in Operation /\ nameop.opcode = "NAME_REGISTRATION" /\ check(nameop)
      /\ collisions \subseteq collisions' /\ CollisionKey(nameop) \subseteq collisions' /\ indexing
    BY <1>1, CommittedFacts
<1>3. NamePreorders(hash) # {} /\ is_namespace_ready(NamespaceOf[n])
    BY <1>2 DEF check, check_register
<1>4. preorder \in preorders /\ preorder \in NamePreorders(hash)
    BY <1>3, PreorderFound, ZenonT(30) DEF IndInv, NamePreorders
<1>5. preorder \in Preorder /\ block_id \in Nat
    BY <1>4 DEF IndInv, TypeOK, block_id
<1>6. n \in Names /\ hash \in PreorderHash /\ nameop.recipient \in Principals /\ nameop.value_hash \in Values
    BY <1>2, OperationFields DEF hash_name, PreorderHash
<1>7. rec \in NameRecord
  <2>1. rec.block_number \in Nat /\ preorder.block_number \in Nat /\ rec.token_fee \in Nat
    BY <1>5, Zenon DEF IndInv, TypeOK, NameRecord, Preorder
  <2>. QED BY <1>5, <1>6, <2>1, Zenon DEF NameRecord
<1>8. MarkedName(n, rec)
  <2>1. Past(block_id) /\ <<"name", n>> \in collisions'
    BY <1>2 DEF Past, CollisionKey
  <2>2. preorder.preorder_hash = hash
    BY <1>4 DEF NamePreorders
  <2>3. /\ Past(preorder.block_number)
        /\ preorder.block_number = block_id => <<"preorder_hash", hash>> \in collisions'
    BY <1>2, <1>4, <2>2, SMTT(30) DEF IndInv, PreordersMarked
  <2> HIDE DEF preorder, hash
  <2>4. /\ rec.first_registered = block_id /\ rec.last_renewed = block_id
        /\ rec.preorder_block_number = preorder.block_number /\ rec.preorder_hash = hash
    BY SMTT(30)
  <2> HIDE DEF rec
  <2>. QED BY <1>5, <2>1, <2>3, <2>4 DEF MarkedName
<1>9. FinalName(n, rec)
    BY ZenonT(30) DEF FinalName
<1>10. name_records' = Put(name_records, n, rec) /\ preorders' = ClearPreorder(hash)
    BY ZenonT(30) DEF NAME_REGISTRATION
<1>11. /\ preorders' \subseteq preorders
       /\ \A r \in preorders' : r.preorder_hash # rec.preorder_hash
    BY <1>10, ZenonT(30) DEF ClearPreorder
<1>12. AccountsTyped(accounts') /\ KeychainTyped(keychain')
    BY <1>1 DEF IndInv, TypeOK, AccountsTyped, KeychainTyped
<1> HIDE DEF n, rec
<1>13. MatchedName(n, rec)
    BY <1>3 DEF MatchedName
<1>. QED BY <1>1, <1>6, <1>7, <1>8, <1>9, <1>10, <1>11, <1>12, <1>13, NameWritten

\* An import keeps the dates of the name get_name finds, or dates it with this
\* block; it is not the registration of a preorder, and matches the next import.
LEMMA ImportInv == IndInv /\ NAME_IMPORT => IndInv'
<1> SUFFICES ASSUME IndInv, NAME_IMPORT PROVE IndInv'
    OBVIOUS
<1> DEFINE n == nameop.name
           old == get_name(n)
           rec == [op |-> "NAME_IMPORT", last_creation_op |-> "NAME_IMPORT",
                   block_number |-> IF old THEN name_records[n].block_number ELSE block_id,
                   preorder_block_number |-> IF old THEN name_records[n].preorder_block_number
                                             ELSE block_id,
                   preorder_hash |-> IF old THEN name_records[n].preorder_hash
                                     ELSE hash_name(nameop),
                   first_registered |-> IF old THEN name_records[n].first_registered ELSE block_id,
                   last_renewed |-> IF old THEN name_records[n].last_renewed ELSE block_id,
                   sender |-> nameop.recipient, value_hash |-> nameop.value_hash,
                   token_fee |-> ImportFee(NamespaceOf[n]), revoked |-> FALSE]
<1>1. Committed("NAME_IMPORT") /\ UNCHANGED <<preorders, namespaces, accounts>>
    BY DEF NAME_IMPORT
<1>2. nameop \in Operation /\ nameop.opcode = "NAME_IMPORT" /\ check(nameop) /\ indexing
    BY <1>1, CommittedFacts
<1>3. block_id \in Nat /\ Past(block_id)
    BY <1>2 DEF IndInv, TypeOK, block_id, Past
<1>4. /\ n \in Names /\ hash_name(nameop) \in PreorderHash
      /\ nameop.recipient \in Principals /\ nameop.value_hash \in Values
    BY <1>2, OperationFields DEF hash_name, PreorderHash
<1>5. old => /\ name_records[n] \in NameRecord
             /\ Past(name_records[n].first_registered) /\ Past(name_records[n].preorder_block_number)
             /\ name_records[n].first_registered <= name_records[n].last_renewed
    BY ZenonT(30) DEF get_name, Unexpired, IndInv, TypeOK, NamesMarked
<1>6. is_namespace_revealed(NamespaceOf[n]) /\ ImportFee(NamespaceOf[n]) \in Nat
  <2>1. is_namespace_revealed(NamespaceOf[n])
    BY <1>2 DEF check, check_import
  <2>2. namespaces[NamespaceOf[n]].pricing \in Pricing
    BY <2>1 DEF is_namespace_revealed, RevealedAt, IndInv, TypeOK, NamespaceRecord
  <2>. QED BY <2>1, <2>2, PeriodAssumption DEF ImportFee
<1>7. old => /\ name_records[n].block_number = name_records[n].first_registered
              /\ name_records[n].first_registered # block_id
  <2>1. ~ is_namespace_ready(NamespaceOf[n])
    BY <1>6 DEF is_namespace_revealed, RevealedAt, is_namespace_ready
  <2>2. old => n \in DOMAIN name_records /\ name_records[n].first_registered <= lastblock
    BY DEF get_name, Unexpired
  <2>3. old => name_records[n].block_number = name_records[n].first_registered
    BY <2>1, <2>2 DEF IndInv, ImportsMatch
  <2>4. lastblock \in Nat
    BY DEF IndInv, TypeOK
  <2>5. old => name_records[n].first_registered \in Nat
    BY <1>5 DEF NameRecord
  <2> HIDE DEF n, old
  <2>. QED BY <2>2, <2>3, <2>4, <2>5 DEF block_id
<1> HIDE DEF old
<1>8. rec \in NameRecord
    BY <1>3, <1>4, <1>5, <1>6 DEF NameRecord
<1>9. MarkedName(n, rec)
  <2>1. rec.last_creation_op = "NAME_IMPORT"
    BY SMTT(30)
  <2>2. /\ rec.first_registered = IF old THEN name_records[n].first_registered ELSE block_id
        /\ rec.last_renewed = IF old THEN name_records[n].last_renewed ELSE block_id
        /\ rec.preorder_block_number = IF old THEN name_records[n].preorder_block_number
                                       ELSE block_id
    OBVIOUS
  <2> HIDE DEF n, rec
  <2>3. block_id <= block_id
    BY <1>3
  <2>4. /\ Past(rec.first_registered) /\ Past(rec.preorder_block_number)
        /\ rec.first_registered <= rec.last_renewed
    <3>1. CASE old
        BY <3>1, <2>2, <1>5
    <3>2. CASE ~ old
        BY <3>2, <2>2, <2>3, <1>3, SMTT(30)
    <3>. QED BY <3>1, <3>2
  <2>. QED BY <2>4, <2>1 DEF MarkedName
<1>10. FinalName(n, rec) /\ rec.last_creation_op = "NAME_IMPORT"
    BY ZenonT(30) DEF FinalName
<1>11. name_records' = Put(name_records, n, rec) /\ keychain' = KeychainsBuilt({nameop})
    BY ZenonT(30) DEF NAME_IMPORT, old
<1>12. AccountsTyped(accounts') /\ KeychainTyped(keychain')
    BY <1>1, <1>2, <1>11, KeychainsBuiltTyped, ZenonT(30) DEF IndInv, TypeOK, AccountsTyped
<1>13. MatchedName(n, rec)
  <2>1. rec.block_number = rec.first_registered
    BY <1>7, Zenon
  <2>. QED BY <1>6, <2>1, ZenonT(30) DEF MatchedName, is_namespace_revealed, RevealedAt
<1> HIDE DEF n, rec
<1>. QED BY <1>1, <1>4, <1>8, <1>9, <1>10, <1>11, <1>12, <1>13, NameWritten, SMTT(30)

\* A preorder is younger than every registration with its hash: had one used a
\* preorder of this block, the hash would be marked.
LEMMA PreorderInv == IndInv /\ NAME_PREORDER => IndInv'
<1> SUFFICES ASSUME IndInv, NAME_PREORDER PROVE IndInv'
    OBVIOUS
<1> DEFINE row == PreorderRow(nameop, hash_name(nameop), nameop.token_units)
           rows == {row}
<1>1. Committed("NAME_PREORDER") /\ UNCHANGED <<namespaces, name_records, keychain>>
    BY DEF NAME_PREORDER
<1>2. /\ nameop \in Operation /\ nameop.opcode = "NAME_PREORDER" /\ check(nameop)
      /\ CollisionKey(nameop) \cap collisions = {} /\ CollisionKey(nameop) \subseteq collisions'
    BY <1>1, CommittedFacts
<1>3. <<"preorder_hash", row.preorder_hash>> \in collisions' \ collisions
    BY <1>2 DEF CollisionKey, PreorderRow
<1>4. row.block_number = block_id /\ block_id \in Nat
    BY DEF PreorderRow, IndInv, TypeOK, block_id
<1>5. row \in Preorder
    BY <1>2, <1>4, OperationFields DEF PreorderRow, Preorder, PreorderHash, hash_name
<1>6. AccountsTyped(accounts')
  <2>1. AccountsTyped(accounts) /\ nameop.token_fee \in Nat
    BY <1>2, OperationFields DEF IndInv, TypeOK, AccountsTyped
  <2>2. CASE nameop.token_units = "STACKS"
    <3>1. nameop.sender \in DOMAIN accounts
        BY <1>2, <2>2 DEF check, check_preorder, CanAfford
    <3>2. accounts' = Debit(nameop.sender, nameop.token_fee)
        BY <2>2 DEF NAME_PREORDER
    <3>. QED BY <2>1, <3>1, <3>2, DebitTyped
  <2>3. CASE nameop.token_units # "STACKS"
    BY <2>1, <2>3 DEF NAME_PREORDER
  <2>. QED BY <2>2, <2>3
<1>7. preorders' = preorders \cup rows
    BY DEF NAME_PREORDER
<1>8. \A r \in rows : /\ r \in Preorder /\ r.block_number = block_id
                      /\ <<"preorder_hash", r.preorder_hash>> \in collisions' \ collisions
    BY <1>3, <1>4, <1>5
<1> HIDE DEF rows
<1>. QED BY <1>1, <1>6, <1>7, <1>8, PreordersWritten

\* The same for the preorder of a namespace.
LEMMA NamespacePreorderInv == IndInv /\ NAMESPACE_PREORDER => IndInv'
<1> SUFFICES ASSUME IndInv, NAMESPACE_PREORDER PROVE IndInv'
    OBVIOUS
<1> DEFINE row == PreorderRow(nameop, hash_namespace(nameop), "STACKS")
           rows == {row}
<1>1. Committed("NAMESPACE_PREORDER") /\ UNCHANGED <<namespaces, name_records, keychain>>
    BY DEF NAMESPACE_PREORDER
<1>2. /\ nameop \in Operation /\ nameop.opcode = "NAMESPACE_PREORDER" /\ check(nameop)
      /\ CollisionKey(nameop) \cap collisions = {} /\ CollisionKey(nameop) \subseteq collisions'
    BY <1>1, CommittedFacts
<1>3. <<"preorder_hash", row.preorder_hash>> \in collisions' \ collisions
    BY <1>2 DEF CollisionKey, PreorderRow
<1>4. row.block_number = block_id /\ block_id \in Nat
    BY DEF PreorderRow, IndInv, TypeOK, block_id
<1>5. row \in Preorder
    BY <1>2, <1>4, OperationFields DEF PreorderRow, Preorder, PreorderHash, hash_namespace
<1>6. AccountsTyped(accounts')
  <2>1. AccountsTyped(accounts) /\ nameop.token_fee \in Nat
    BY <1>2, OperationFields DEF IndInv, TypeOK, AccountsTyped
  <2>2. nameop.sender \in DOMAIN accounts
    BY <1>2 DEF check, check_namespace_preorder, CanAfford
  <2>. QED BY <2>1, <2>2, DebitTyped DEF NAMESPACE_PREORDER
<1>7. preorders' = preorders \cup rows
    BY DEF NAMESPACE_PREORDER
<1>8. \A r \in rows : /\ r \in Preorder /\ r.block_number = block_id
                      /\ <<"preorder_hash", r.preorder_hash>> \in collisions' \ collisions
    BY <1>3, <1>4, <1>5
<1> HIDE DEF rows
<1>. QED BY <1>1, <1>6, <1>7, <1>8, PreordersWritten

\* A token transfer touches the accounts only.
LEMMA TokenTransferInv == IndInv /\ TOKEN_TRANSFER => IndInv'
<1> SUFFICES ASSUME IndInv, TOKEN_TRANSFER PROVE IndInv'
    OBVIOUS
<1>1. Committed("TOKEN_TRANSFER") /\ UNCHANGED <<preorders, namespaces, name_records, keychain>>
    BY DEF TOKEN_TRANSFER
<1>2. nameop \in Operation /\ nameop.opcode = "TOKEN_TRANSFER" /\ check(nameop)
    BY <1>1, CommittedFacts
<1>3. AccountsTyped(accounts) /\ nameop.token_fee \in Nat /\ nameop.recipient \in Principals
    BY <1>2, OperationFields DEF IndInv, TypeOK, AccountsTyped
<1>4. nameop.sender \in DOMAIN accounts
    BY <1>2 DEF check, check_token_transfer, CanAfford
<1>5. AccountsTyped(Debit(nameop.sender, nameop.token_fee))
    BY <1>3, <1>4, DebitTyped
<1>6. AccountsTyped(accounts')
    BY <1>3, <1>5, CreditTyped DEF TOKEN_TRANSFER
<1> DEFINE rows == {}
<1>7. preorders' = preorders \cup rows /\ UNCHANGED <<namespaces, name_records, keychain>>
    BY <1>1
<1>8. \A r \in rows : /\ r \in Preorder /\ r.block_number = block_id
                      /\ <<"preorder_hash", r.preorder_hash>> \in collisions' \ collisions
    BY SMTT(30)
<1> HIDE DEF rows
<1>. QED BY <1>1, <1>6, <1>7, <1>8, PreordersWritten

\* A reveal marks the namespace, which was not ready.
LEMMA NamespaceRevealInv == IndInv /\ NAMESPACE_REVEAL => IndInv'
<1> SUFFICES ASSUME IndInv, NAMESPACE_REVEAL PROVE IndInv'
    OBVIOUS
<1> DEFINE ns == nameop.namespace_id
           hash == hash_namespace(nameop)
           preorder == FetchOne(NamespacePreorders(hash))
           row == [op |-> "NAMESPACE_REVEAL", preorder_hash |-> hash,
                   block_number |-> IF ns \in DOMAIN namespaces
                                    THEN namespaces[ns].block_number
                                    ELSE preorder.block_number,
                   reveal_block |-> block_id, ready_block |-> 0,
                   address |-> nameop.sender, recipient |-> nameop.recipient,
                   version |-> nameop.version, pricing |-> nameop.pricing,
                   op_fee |-> preorder.op_fee]
<1>1. Committed("NAMESPACE_REVEAL") /\ UNCHANGED <<name_records, keychain, accounts>>
    BY Zenon DEF NAMESPACE_REVEAL
<1>2. /\ nameop \in Operation /\ nameop.opcode = "NAMESPACE_REVEAL" /\ check(nameop)
      /\ CollisionKey(nameop) \subseteq collisions' /\ indexing
    BY <1>1, CommittedFacts
<1>3. check_namespace_reveal(nameop)
    BY <1>2, SMTT(30) DEF check
<1>4. preorder \in preorders
    BY <1>3, PreorderFound, Zenon DEF IndInv, NamespacePreorders, check_namespace_reveal
<1>5. preorder.block_number \in Nat /\ preorder.op_fee \in Nat /\ block_id \in Nat
  <2>1. preorder \in Preorder /\ lastblock \in Nat
    BY <1>4, Zenon DEF IndInv, TypeOK
  <2> HIDE DEF preorder, row
  <2>2. preorder.block_number \in Nat /\ preorder.op_fee \in Nat
    BY <2>1 DEF Preorder
  <2>3. block_id \in Nat
    BY <2>1 DEF block_id
  <2>. QED BY <2>2, <2>3
<1>6. /\ ns \in Namespaces /\ hash \in PreorderHash
      /\ nameop.sender \in Principals /\ nameop.recipient \in Principals
      /\ nameop.pricing \in Pricing
    BY <1>2, OperationFields, SMTT(30) DEF hash_namespace, PreorderHash
<1>7. row \in NamespaceRecord
  <2>1. row.block_number \in Nat /\ nameop.version \in {1, 2, 3}
    BY <1>3, <1>5, ZenonT(30) DEF IndInv, TypeOK, NamespaceRecord, check_namespace_reveal
  <2>. QED BY <1>5, <1>6, <2>1, ZenonT(30) DEF NamespaceRecord
<1>8. ~ is_namespace_ready(ns) /\ ~ is_namespace_revealed(ns)
    BY <1>3 DEF check_namespace_reveal
<1>9. Past(row.reveal_block) /\ <<"namespace_id", ns>> \in collisions'
    BY <1>2, SMTT(30) DEF Past, CollisionKey
<1>10. namespaces' = Put(namespaces, ns, row) /\ preorders' \subseteq preorders
    BY ZenonT(30) DEF NAMESPACE_REVEAL, ClearPreorder
<1>11. row.ready_block = 0 /\ row.reveal_block = block_id
    OBVIOUS
<1> HIDE DEF ns, row
<1>. QED BY <1>1, <1>6, <1>7, <1>8, <1>9, <1>10, <1>11, NamespaceWritten, ZenonT(30)

\* Making a namespace ready keeps the block of its reveal.
LEMMA NamespaceReadyInv == IndInv /\ NAMESPACE_READY => IndInv'
<1> SUFFICES ASSUME IndInv, NAMESPACE_READY PROVE IndInv'
    OBVIOUS
<1> DEFINE ns == nameop.namespace_id
           row == [namespaces[ns] EXCEPT !.op = "NAMESPACE_READY", !.ready_block = block_id]
<1>1. Committed("NAMESPACE_READY") /\ UNCHANGED <<preorders, name_records, keychain, accounts>>
    BY DEF NAMESPACE_READY
<1>2. /\ nameop \in Operation /\ nameop.opcode = "NAMESPACE_READY" /\ check(nameop)
      /\ collisions \subseteq collisions'
    BY <1>1, CommittedFacts
<1>3. ns \in DOMAIN namespaces /\ namespaces[ns].op = "NAMESPACE_REVEAL"
    BY <1>2 DEF check, check_namespace_ready, is_namespace_revealed, RevealedAt
<1>4. ns \in Namespaces /\ namespaces[ns] \in NamespaceRecord /\ block_id \in Nat
    BY <1>3 DEF IndInv, TypeOK, block_id
<1>5. /\ row \in NamespaceRecord /\ row.op = "NAMESPACE_READY"
      /\ row.reveal_block = namespaces[ns].reveal_block
    BY <1>4, Zenon DEF NamespaceRecord
<1>6. ~ is_namespace_ready(ns)
    BY <1>3 DEF is_namespace_ready
<1>7. Past(row.reveal_block) /\ (row.reveal_block = block_id => <<"namespace_id", ns>> \in collisions')
    BY <1>2, <1>3, <1>5 DEF IndInv, NamespacesMarked
<1>8. namespaces' = Put(namespaces, ns, row) /\ preorders' \subseteq preorders
    BY <1>1 DEF NAMESPACE_READY
<1> HIDE DEF ns, row
<1>. QED BY <1>1, <1>4, <1>5, <1>6, <1>7, <1>8, NamespaceWritten

\* Between blocks no row is dated with the block to come, so the scan may
\* begin with any set of collisions.
LEMMA ScanInv == IndInv /\ db_scan_block => IndInv'
<1> SUFFICES ASSUME IndInv, db_scan_block PROVE IndInv'
    OBVIOUS
<1>1. /\ ~ indexing /\ indexing' /\ ~ aborted /\ aborted' = aborted
      /\ UNCHANGED <<chain, lastblock, preorders, namespaces, name_records, accounts>>
      /\ block_id' = block_id
    BY DEF db_scan_block, block_id
<1>2. lastblock \in Nat /\ block_id = lastblock + 1
    BY DEF IndInv, TypeOK, block_id
<1>3. PICK block \in Chains[chain][block_id] :
        ops' = block /\ keychain' = KeychainsBuilt({block[i] : i \in DOMAIN block})
    BY Zenon DEF db_scan_block
<1>4. ops' \in Seq(Operation) /\ {block[i] : i \in DOMAIN block} \in SUBSET Operation
  <2>1. block \in Seq(Operation)
    BY <1>3, ChainAssumption DEF db_scan_block, IndInv, TypeOK
  <2>. QED BY <1>3, <2>1
<1>5. TypeOK'
  <2>1. KeychainTyped(keychain')
    BY <1>3, <1>4, KeychainsBuiltTyped DEF IndInv
  <2>. QED BY <1>1, <2>1 DEF IndInv, TypeOK, KeychainTyped, db_scan_block
<1>6. \A h \in Nat : Past(h) => Past(h)' /\ h # block_id'
    BY <1>1, <1>2 DEF Past
<1>7. NamesMarked'
  <2>1. \A n \in DOMAIN name_records :
            /\ name_records[n].first_registered \in Nat
            /\ name_records[n].preorder_block_number \in Nat
    BY DEF IndInv, TypeOK, NameRecord
  <2>. QED BY <1>1, <1>6, <2>1 DEF IndInv, NamesMarked
<1>8. NamespacesMarked'
    BY <1>1, <1>6 DEF IndInv, TypeOK, NamespaceRecord, NamespacesMarked
<1>9. PreordersMarked'
    BY <1>1, <1>6, ZenonT(30) DEF IndInv, TypeOK, Preorder, PreordersMarked
<1>10. RevokedForGood' /\ PreorderUsedOnce' /\ CommitFollowsCheck'
    BY <1>1, ZenonT(30) DEF IndInv, RevokedForGood, is_namespace_ready, PreorderUsedOnce, CommitFollowsCheck
<1>11. ImportsMatch' /\ RevealsNotReady'
  <2>1. \A n \in DOMAIN name_records :
            name_records[n].first_registered \in Nat /\ Past(name_records[n].first_registered)
    BY Zenon DEF IndInv, TypeOK, NameRecord, NamesMarked
  <2>. QED BY <1>1, <1>6, <2>1, ZenonT(30)
          DEF IndInv, ImportsMatch, RevealsNotReady, ImportedAtOtherPrice, ImportFee,
               is_namespace_ready
<1>. QED BY <1>4, <1>5, <1>7, <1>8, <1>9, <1>10, <1>11 DEF IndInv

\* Once the block is saved, its rows are of the past.
LEMMA SaveInv == IndInv /\ db_save => IndInv'
<1> SUFFICES ASSUME IndInv, db_save PROVE IndInv'
    OBVIOUS
<1>1. /\ lastblock' = block_id /\ block_id' = block_id + 1 /\ ~ aborted /\ indexing' = FALSE
      /\ UNCHANGED <<chain, ops, preorders, namespaces, name_records, keychain, aborted>>
    BY ZenonT(30) DEF db_save, block_id
<1>2. lastblock \in Nat /\ block_id = lastblock + 1
    BY DEF IndInv, TypeOK, block_id
<1>3. AccountsTyped(accounts')
  <2> DEFINE vests == IF block_id + 1 \in DOMAIN Vesting THEN Vesting[block_id + 1]
                      ELSE [p \in {} |-> 0]
             credited(p) == Credit(accounts, p, vests[p])[p]
  <2>1. AccountsTyped(accounts)
    BY DEF IndInv, TypeOK, AccountsTyped
  <2>2. DOMAIN vests \subseteq Principals /\ \A p \in DOMAIN vests : vests[p] \in Nat
    BY DataAssumption
  <2>3. accounts' = [p \in DOMAIN accounts \cup DOMAIN vests |->
                        IF p \in DOMAIN vests THEN credited(p) ELSE accounts[p]]
    BY DEF db_save
  <2> HIDE DEF vests
  <2>4. ASSUME NEW p \in DOMAIN vests PROVE credited(p) \in Account
    <3>1. AccountsTyped(Credit(accounts, p, vests[p]))
        BY <2>1, <2>2, CreditTyped
    <3>2. p \in DOMAIN Credit(accounts, p, vests[p])
        BY DEF Credit, Put
    <3>. QED BY <3>1, <3>2 DEF AccountsTyped
  <2> HIDE DEF credited
  <2>. QED BY <2>1, <2>2, <2>3, <2>4, Zenon DEF AccountsTyped
<1>4. TypeOK'
  <2>1. lastblock' \in Nat
    BY <1>1, <1>2
  <2>2. indexing' \in BOOLEAN /\ aborted' \in BOOLEAN
    BY <1>1, ZenonT(30) DEF IndInv, TypeOK
  <2>. QED BY <1>1, <1>3, <2>1, <2>2 DEF IndInv, TypeOK, AccountsTyped
<1>5. \A h \in Nat : Past(h) => Past(h)' /\ h # block_id'
    BY <1>1, <1>2 DEF Past
<1>6. NamesMarked'
  <2>1. \A n \in DOMAIN name_records :
            /\ name_records[n].first_registered \in Nat
            /\ name_records[n].preorder_block_number \in Nat
    BY DEF IndInv, TypeOK, NameRecord
  <2>. QED BY <1>1, <1>5, <2>1 DEF IndInv, NamesMarked
<1>7. NamespacesMarked'
    BY <1>1, <1>5 DEF IndInv, TypeOK, NamespaceRecord, NamespacesMarked
<1>8. PreordersMarked'
    BY <1>1, <1>5, ZenonT(30) DEF IndInv, TypeOK, Preorder, PreordersMarked
<1>9. RevokedForGood' /\ PreorderUsedOnce' /\ CommitFollowsCheck'
    BY <1>1, SMTT(30) DEF IndInv, RevokedForGood, is_namespace_ready, PreorderUsedOnce, CommitFollowsCheck
<1>10. ImportsMatch' /\ RevealsNotReady'
  <2>1. \A n \in DOMAIN name_records :
            name_records[n].first_registered \in Nat /\ Past(name_records[n].first_registered)
    BY Zenon DEF IndInv, TypeOK, NameRecord, NamesMarked
  <2>. QED BY <1>1, <1>5, <2>1, ZenonT(30)
          DEF IndInv, ImportsMatch, RevealsNotReady, ImportedAtOtherPrice, ImportFee,
               is_namespace_ready
<1>. QED BY <1>1, <1>4, <1>6, <1>7, <1>8, <1>9, <1>10, SMTT(30) DEF IndInv

\* A step that leaves the tables and the marks alone.
LEMMA TablesKept ==
    ASSUME IndInv, UNCHANGED <<chain, lastblock, indexing, collisions, tables>>,
           ops' \in Seq(Operation), aborted' \in BOOLEAN, CommitFollowsCheck'
    PROVE  IndInv'
<1>1. block_id' = block_id /\ \A h : Past(h)' <=> Past(h)
    BY SMTT(30) DEF block_id, Past
<1>2. TypeOK'
    BY ZenonT(30) DEF IndInv, TypeOK, tables
<1>3. NamesMarked' /\ NamespacesMarked' /\ PreordersMarked'
    BY <1>1, SMTT(30) DEF IndInv, NamesMarked, NamespacesMarked, PreordersMarked, tables
<1>4. RevokedForGood' /\ PreorderUsedOnce'
    BY ZenonT(30) DEF IndInv, RevokedForGood, is_namespace_ready, PreorderUsedOnce, tables
<1>5. ImportsMatch' /\ RevealsNotReady'
    BY <1>1, ZenonT(30) DEF IndInv, ImportsMatch, RevealsNotReady, ImportedAtOtherPrice, ImportFee,
                is_namespace_ready, is_namespace_revealed, RevealedAt, tables
<1>. QED BY <1>2, <1>3, <1>4, <1>5 DEF IndInv

\* What a sender can afford, namedb_account_debit does not refuse.
LEMMA AffordDebit ==
    ASSUME TypeOK, NEW p, NEW amount \in Nat, CanAfford(p, amount)
    PROVE  CanDebit(p, amount)
<1>1. p \in DOMAIN accounts /\ accounts[p].credit_value - accounts[p].debit_value >= amount
    BY DEF CanAfford, Balance
<1>2. accounts[p].credit_value \in Nat /\ accounts[p].debit_value \in Nat
    BY <1>1 DEF TypeOK, Account
<1>. QED BY <1>1, <1>2 DEF CanDebit

\* A name that is not revoked may be renewed, updated, transferred or revoked
\* whatever its last operation was.
LEMMA LiveSequence ==
    ASSUME IndInv, NEW n \in DOMAIN name_records, ~ name_records[n].revoked
    PROVE  ChangesLiveName \subseteq OpcodeSequence(name_records[n].op)
<1>1. name_records[n].op # "NAME_REVOKE"
    BY SMTT(30) DEF IndInv, RevokedForGood
<1>. QED BY <1>1 DEF OpcodeSequence

\* Where CommitFollowsCheck lets the node stop.
KnownAbort ==
    \/ /\ nameop.opcode = "NAME_IMPORT"
       /\ nameop.name \in DOMAIN name_records
       /\ \/ namespaces[NamespaceOf[nameop.name]].reveal_block + NamespaceRevealExpire = block_id
          \/ ImportedAtOtherPrice(nameop.name)
    \/ /\ nameop.opcode = "NAMESPACE_REVEAL"
       /\ nameop.namespace_id \in DOMAIN namespaces
       /\ namespaces[nameop.namespace_id].reveal_block + NamespaceRevealExpire <= lastblock
       /\ namespaces[nameop.namespace_id].op_fee
                # FetchOne(NamespacePreorders(hash_namespace(nameop))).op_fee

\* It depends on the tables, the operation and the block only.
LEMMA KnownAbortKept ==
    ASSUME KnownAbort, UNCHANGED <<lastblock, ops, tables>>
    PROVE  KnownAbort'
<1>1. nameop' = nameop /\ block_id' = block_id
    BY SMTT(30) DEF nameop, block_id
<1>2. NamespacePreorders(hash_namespace(nameop))' = NamespacePreorders(hash_namespace(nameop))
    BY <1>1, Zenon DEF NamespacePreorders, hash_namespace, tables
<1>. QED BY <1>1, <1>2, Zenon DEF KnownAbort, ImportedAtOtherPrice, ImportFee, tables

\* The only assertions of a commit that can fail after the check has accepted the
\* operation are those of an import, when the reveal expires in this block or the
\* name is from a reveal with another price, and that of a second reveal whose
\* preorder burned another fee.
LEMMA AcceptedCommits ==
    ASSUME IndInv, ops # <<>>, op_check(nameop), ~ CommitAssertions(nameop)
    PROVE  KnownAbort
<1>0. nameop \in Operation /\ TypeOK /\ check(nameop)
    BY DEF IndInv, nameop, op_check
<1>1. CASE nameop.opcode \in {"NAME_PREORDER", "NAMESPACE_PREORDER", "TOKEN_TRANSFER"}
  <2>1. nameop.token_fee \in Nat
    BY <1>0, <1>1, OperationFields
  <2>2. ~ CanDebit(nameop.sender, nameop.token_fee)
    BY <1>1 DEF CommitAssertions
  <2>3. CanAfford(nameop.sender, nameop.token_fee)
    BY <1>0, <1>1, Zenon DEF CommitAssertions, check, check_preorder, check_namespace_preorder, check_token_transfer
  <2>. QED BY <1>0, <2>1, <2>2, <2>3, AffordDebit
<1>2. CASE nameop.opcode \in ChangesLiveName
  <2>1. is_name_owner(nameop.name, nameop.sender)
    BY <1>0, <1>2, Zenon DEF ChangesLiveName, check, check_renewal, check_update, check_transfer, check_revoke,
                NamesOwned
  <2>2. /\ nameop.opcode \in OpcodeSequence(name_records[nameop.name].op)
        /\ nameop.sender = name_records[nameop.name].sender
    BY <1>2, <2>1, OwnerFacts, LiveSequence, Zenon
  <2>3. nameop.opcode = "NAME_RENEWAL" /\ nameop.token_fee # 0
        /\ ~ CanDebit(nameop.sender, nameop.token_fee)
    BY <1>2, <2>2 DEF ChangesLiveName, CommitAssertions
  <2>4. CanAfford(nameop.sender, nameop.token_fee)
    BY <1>0, <2>3 DEF check, check_renewal, RenewalPayment
  <2>5. nameop.token_fee \in Nat
    BY <1>0, <2>3, OperationFields
  <2>. QED BY <1>0, <2>3, <2>4, <2>5, AffordDebit
<1>3. CASE nameop.opcode = "NAME_IMPORT"
  <2> DEFINE n == nameop.name
             ns == NamespaceOf[n]
             rec == name_records[n]
  <2>1. RevealedAt(ns, lastblock)
    BY <1>0, <1>3 DEF check, check_import, is_namespace_revealed
  <2>2. \/ ~ (n \in DOMAIN name_records <=> Unexpired(n, block_id))
        \/ n \in DOMAIN name_records /\ ~ ImportUpdates(nameop)
    BY <1>3, SMTT(30) DEF CommitAssertions
  <2>3. n \in DOMAIN name_records
    BY <2>2, SMTT(30) DEF Unexpired
  <2>4. /\ rec.first_registered \in Nat /\ lastblock \in Nat
        /\ rec.first_registered <= lastblock \/ rec.first_registered = block_id
    BY <1>0, <2>3, ZenonT(30) DEF TypeOK, NameRecord, IndInv, NamesMarked, Past
  <2>5. CASE ~ Unexpired(n, block_id)
    <3>1. ~ RevealedAt(ns, block_id)
      <4>1. rec.first_registered <= block_id
        BY <2>4, SMTT(30) DEF block_id
      <4>. QED BY <2>3, <2>5, <4>1 DEF Unexpired
    <3> HIDE DEF n, ns, rec
    <3> DEFINE last == namespaces[ns].reveal_block + NamespaceRevealExpire
    <3>2. namespaces[ns].reveal_block \in Nat /\ lastblock \in Nat
        BY <1>0, <2>1, Zenon DEF RevealedAt, TypeOK, NamespaceRecord
    <3>3. last \in Nat
        BY <3>2, PeriodAssumption
    <3>4. lastblock < last
        BY <2>1 DEF RevealedAt
    <3>5. namespaces[ns].reveal_block <= lastblock + 1
        BY <2>1, <3>2 DEF RevealedAt
    <3>6. ~ (lastblock + 1 < last)
        BY <2>1, <3>1, <3>5 DEF RevealedAt, block_id
    <3>7. last = block_id
      <4> HIDE DEF last
      <4>. QED BY <3>2, <3>3, <3>4, <3>6, NextBlock, ZenonT(30) DEF block_id
    <3> USE DEF n, ns
    <3>. QED BY <1>3, <2>3, <3>7, Zenon DEF KnownAbort
  <2>6. CASE Unexpired(n, block_id)
    <3>1. ~ ImportUpdates(nameop)
        BY <2>2, <2>3, <2>6
    <3>2. ~ is_namespace_ready(ns)
        BY <2>1, SMTT(30) DEF RevealedAt, is_namespace_ready
    <3>3. /\ rec.block_number = rec.first_registered
          /\ rec.token_fee = ImportFee(ns) \/ ImportedAtOtherPrice(n)
        BY <2>3, <3>2, ZenonT(30) DEF IndInv, ImportsMatch
    <3>4. rec.block_number = block_id \/ get_name(n)
        BY <2>1, <2>3, <2>4, <3>3, ZenonT(30) DEF get_name, Unexpired
    <3>5. ImportedAtOtherPrice(n)
        BY <3>1, <3>3, <3>4, Zenon DEF ImportUpdates
    <3>. QED BY <1>3, <2>3, <3>5 DEF KnownAbort
  <2>. QED BY <2>5, <2>6
<1>4. CASE nameop.opcode = "NAMESPACE_READY"
    BY <1>0, <1>4 DEF CommitAssertions, check, check_namespace_ready, is_namespace_revealed, RevealedAt
<1>5. CASE nameop.opcode = "NAME_REGISTRATION"
    BY <1>5 DEF CommitAssertions
<1>6. CASE nameop.opcode = "NAMESPACE_REVEAL"
  <2> DEFINE ns == nameop.namespace_id
             row == namespaces[ns]
  <2>1. ns \in DOMAIN namespaces /\ ~ RevealUpdates(nameop)
    BY <1>6 DEF CommitAssertions
  <2>2. ~ is_namespace_revealed(ns) /\ ~ is_namespace_ready(ns)
    BY <1>0, <1>6 DEF check, check_namespace_reveal
  <2>3. row \in NamespaceRecord /\ row.reveal_block \in Nat /\ lastblock \in Nat
    BY <1>0, <2>1 DEF TypeOK, NamespaceRecord
  <2>4. row.op = "NAMESPACE_REVEAL" /\ row.ready_block = 0
    BY <2>1, <2>2, <2>3 DEF is_namespace_ready, NamespaceRecord, IndInv, RevealsNotReady
  <2>5. <<"namespace_id", ns>> \notin collisions
    BY <1>6 DEF op_check, CollisionKey
  <2>6. row.reveal_block <= lastblock
    BY <2>1, <2>5, SMTT(30) DEF IndInv, NamespacesMarked, Past
  <2>7. NamespaceRevealExpire \in Nat
    BY PeriodAssumption
  <2>8. row.reveal_block + NamespaceRevealExpire <= lastblock
    BY <2>1, <2>2, <2>3, <2>4, <2>6, <2>7, SMTT(30) DEF is_namespace_revealed, RevealedAt
  <2>. QED BY <1>6, <2>1, <2>4, <2>8 DEF RevealUpdates, KnownAbort
<1>7. nameop.opcode \in {"NAME_PREORDER", "NAMESPACE_PREORDER", "TOKEN_TRANSFER", "NAME_IMPORT",
                         "NAMESPACE_READY", "NAME_REGISTRATION", "NAMESPACE_REVEAL"}
                        \cup ChangesLiveName
    BY <1>0, Zenon DEF Operation, ChangesLiveName
<1>. QED BY <1>1, <1>2, <1>3, <1>4, <1>5, <1>6, <1>7

\* Refusing an operation changes nothing but the list of operations.
LEMMA RejectInv == IndInv /\ log_reject => IndInv'
<1> SUFFICES ASSUME IndInv, log_reject PROVE IndInv'
    OBVIOUS
<1>1. ops' \in Seq(Operation)
    BY SMTT(30) DEF IndInv, log_reject
<1>2. aborted' \in BOOLEAN /\ CommitFollowsCheck'
    BY Zenon DEF IndInv, TypeOK, log_reject, CommitFollowsCheck
<1>. QED BY <1>1, <1>2, TablesKept DEF log_reject, tables

\* The node stops only where AcceptedCommits says.
LEMMA AbortInv == IndInv /\ abort => IndInv'
<1> SUFFICES ASSUME IndInv, abort PROVE IndInv'
    OBVIOUS
<1>1. UNCHANGED <<chain, lastblock, indexing, ops, collisions, tables>> /\ aborted' = TRUE
    BY DEF abort
<1>2. ops' \in Seq(Operation) /\ aborted' \in BOOLEAN
    BY <1>1 DEF IndInv
<1>3. KnownAbort'
    BY <1>1, AcceptedCommits, KnownAbortKept, SMTT(30) DEF abort
<1>4. CommitFollowsCheck'
    BY <1>3, SMTT(30) DEF CommitFollowsCheck, KnownAbort
<1>. QED BY <1>1, <1>2, <1>4, TablesKept

----------------------------------------------------------------------------
\* The theorems.

\* The invariant holds of the empty tables and the genesis accounts.
LEMMA InitInv == Init => IndInv
<1> SUFFICES ASSUME Init PROVE IndInv
    OBVIOUS
<1>1. DOMAIN namespaces = {} /\ DOMAIN name_records = {} /\ DOMAIN keychain = {} /\ preorders = {}
    BY DEF Init
<1>2. TypeOK
    BY <1>1, DataAssumption, ZenonT(30) DEF Init, TypeOK
<1>3. ops \in Seq(Operation) /\ ~ aborted
    BY DEF Init
<1>. QED BY <1>1, <1>2, <1>3, ZenonT(30) DEF IndInv, NamesMarked, NamespacesMarked, PreordersMarked,
            RevokedForGood, PreorderUsedOnce, ImportsMatch, RevealsNotReady, CommitFollowsCheck

\* Every step keeps the invariant.
LEMMA NextInv == IndInv /\ [Next]_vars => IndInv'
<1> SUFFICES ASSUME IndInv, [Next]_vars PROVE IndInv'
    OBVIOUS
<1>1. CASE UNCHANGED vars
  <2>1. /\ UNCHANGED <<chain, lastblock, indexing, collisions, tables>>
        /\ ops' = ops /\ aborted' = aborted
    BY <1>1 DEF vars
  <2>2. CommitFollowsCheck'
    BY <2>1, KnownAbortKept, ZenonT(30) DEF IndInv, CommitFollowsCheck, KnownAbort
  <2>3. ops' \in Seq(Operation) /\ aborted' \in BOOLEAN
    BY <2>1, Zenon DEF IndInv, TypeOK
  <2>. QED BY <2>1, <2>2, <2>3, TablesKept
<1>2. CASE Next
    BY <1>2, ScanInv, PreorderInv, RegistrationInv, RenewalInv, UpdateInv, TransferInv, RevokeInv,
       ImportInv, NamespacePreorderInv, NamespaceRevealInv, NamespaceReadyInv, TokenTransferInv,
       RejectInv, AbortInv, SaveInv DEF Next
<1>. QED BY <1>1, <1>2

\* The inductive invariant holds in every reachable state of the database.
THEOREM Invariance == Spec => []IndInv
BY InitInv, NextInv, PTL DEF Spec

\* The rows of the tables always have the types of their schemas.
THEOREM TypeCorrect == Spec => []TypeOK
<1>1. IndInv => TypeOK
    BY DEF IndInv
<1>. QED BY <1>1, Invariance, PTL

\* A preorder pays for one registration, however often the name lapses and is
\* preordered again, and whatever else the block holds.
THEOREM PreordersAreUsedOnce == Spec => []PreorderUsedOnce
<1>1. IndInv => PreorderUsedOnce
    BY DEF IndInv
<1>. QED BY <1>1, Invariance, PTL

\* Committing what a check accepted stops the node in three cases only, all after
\* a reveal that was not made ready: a name is imported again in the block in
\* which the reveal expires, or under a second reveal with another price in
\* Stacks; or the preorder of a second reveal burned another amount of BTC.
THEOREM CommitsFollowChecks == Spec => []CommitFollowsCheck
<1>1. IndInv => CommitFollowsCheck
    BY DEF IndInv
<1>. QED BY <1>1, Invariance, PTL

\* What becomes of the row of a name in a step: it stays, or the step processes
\* an operation on that name which its check has accepted.
NameKeptOrChanged(n) ==
    /\ n \in DOMAIN name_records'
    /\ \/ name_records'[n] = name_records[n]
       \/ /\ ops # <<>> /\ nameop.name = n
          /\ check(nameop) /\ CollisionKey(nameop) \cap collisions = {}
          /\ \/ nameop.opcode \in {"NAME_REGISTRATION", "NAME_IMPORT",
                                   "NAME_RENEWAL", "NAME_TRANSFER"}
             \/ /\ nameop.opcode \in {"NAME_UPDATE", "NAME_REVOKE"}
                /\ name_records'[n].sender = name_records[n].sender

\* No other step changes the row of a name.
LEMMA NameStep ==
    ASSUME IndInv, Next, NEW n \in DOMAIN name_records
    PROVE  NameKeptOrChanged(n)
<1>1. CASE name_records' = name_records
    BY <1>1 DEF NameKeptOrChanged
<1>2. ASSUME NEW opcode \in {"NAME_REGISTRATION", "NAME_IMPORT", "NAME_RENEWAL", "NAME_TRANSFER",
                             "NAME_UPDATE", "NAME_REVOKE"},
             Committed(opcode), NEW rec, name_records' = Put(name_records, nameop.name, rec),
             opcode \in {"NAME_UPDATE", "NAME_REVOKE"} =>
                rec.sender = name_records[nameop.name].sender
      PROVE  NameKeptOrChanged(n)
  <2>1. /\ ops # <<>> /\ nameop.opcode = opcode
        /\ check(nameop) /\ CollisionKey(nameop) \cap collisions = {}
    BY <1>2, CommittedFacts, Zenon
  <2>2. /\ DOMAIN name_records' = DOMAIN name_records \cup {nameop.name}
        /\ name_records'[nameop.name] = rec
        /\ n # nameop.name => name_records'[n] = name_records[n]
    BY <1>2, SMTT(30) DEF Put
  <2>. QED BY <1>2, <2>1, <2>2, SMTT(30) DEF NameKeptOrChanged
<1>3. CASE NAME_REGISTRATION
    BY <1>2, <1>3, ZenonT(30) DEF NAME_REGISTRATION
<1>4. CASE NAME_IMPORT
    BY <1>2, <1>4, ZenonT(30) DEF NAME_IMPORT
<1>5. CASE NAME_RENEWAL
    BY <1>2, <1>5 DEF NAME_RENEWAL
<1>6. CASE NAME_TRANSFER
    BY <1>2, <1>6 DEF NAME_TRANSFER
<1>7. CASE NAME_UPDATE \/ NAME_REVOKE
  <2>1. nameop.name \in DOMAIN name_records
    <3>1. Committed("NAME_UPDATE") \/ Committed("NAME_REVOKE")
        BY <1>7 DEF NAME_UPDATE, NAME_REVOKE
    <3>2. check(nameop) /\ nameop.opcode \in {"NAME_UPDATE", "NAME_REVOKE"}
        BY <3>1, CommittedFacts
    <3>3. is_name_owner(nameop.name, nameop.sender)
        BY <3>2, Zenon DEF check, check_update, check_revoke, NamesOwned
    <3>. QED BY <3>3, OwnerFacts
  <2>2. name_records[nameop.name] \in NameRecord
    BY <2>1 DEF IndInv, TypeOK
  <2>3. CASE NAME_UPDATE
    BY <1>2, <2>2, <2>3, Zenon DEF NAME_UPDATE, NameRecord
  <2>4. CASE NAME_REVOKE
    BY <1>2, <2>2, <2>4, ZenonT(30) DEF NAME_REVOKE, NameRecord
  <2>. QED BY <1>7, <2>3, <2>4
<1>. QED BY <1>1, <1>3, <1>4, <1>5, <1>6, <1>7
        DEF Next, db_scan_block, NAME_PREORDER, NAMESPACE_PREORDER, NAMESPACE_REVEAL,
            NAMESPACE_READY, TOKEN_TRANSFER, log_reject, abort, db_save, tables

\* Nobody but its owner passes on a name, whatever the order of the operations
\* in a block: a second registration in the block is refused by the collision
\* key that NamesMarked finds, though get_name does not show the first.
THEOREM OwnersKeepTheirNames == Spec => OwnerKeepsName
<1>1. IndInv /\ [Next]_vars => [OwnerStep]_vars
  <2> SUFFICES ASSUME IndInv, Next, NEW n \in DOMAIN name_records, Held(n),
                      name_records'[n].sender # name_records[n].sender
               PROVE  \/ By(name_records[n].sender, {"NAME_TRANSFER", "NAME_RENEWAL"})
                      \/ ~ is_namespace_ready(NamespaceOf[n])
                      \/ /\ name_records[n].last_creation_op = "NAME_IMPORT"
                         /\ name_records[n].first_registered = block_id
    BY NameStep, ZenonT(30) DEF vars, OwnerStep, NameKeptOrChanged
  <2>1. /\ ops # <<>> /\ nameop.name = n
        /\ check(nameop) /\ CollisionKey(nameop) \cap collisions = {}
        /\ nameop.opcode \in {"NAME_REGISTRATION", "NAME_IMPORT", "NAME_RENEWAL", "NAME_TRANSFER"}
    BY NameStep, SMTT(30) DEF NameKeptOrChanged
  <2>2. CASE nameop.opcode \in {"NAME_RENEWAL", "NAME_TRANSFER"}
    <3>1. is_name_owner(n, nameop.sender)
        BY <2>1, <2>2, Zenon DEF check, check_renewal, check_transfer
    <3>. QED BY <2>1, <2>2, <3>1, OwnerFacts, Zenon DEF By
  <2>3. CASE nameop.opcode = "NAME_IMPORT"
    BY <2>1, <2>3 DEF check, check_import, is_namespace_revealed, RevealedAt, is_namespace_ready
  <2>4. CASE nameop.opcode = "NAME_REGISTRATION"
    <3>1. ~ get_name(n)
        BY <2>1, <2>4 DEF check, check_register
    <3>2. name_records[n].first_registered = block_id
        BY <3>1 DEF Held
    <3>3. <<"name", n>> \notin collisions
        BY <2>1, <2>4 DEF CollisionKey
    <3>4. name_records[n].last_creation_op # "NAME_PREORDER"
        BY <3>2, <3>3, ZenonT(30) DEF IndInv, NamesMarked
    <3>5. name_records[n].last_creation_op = "NAME_IMPORT"
        BY <3>4 DEF IndInv, TypeOK, NameRecord
    <3>. QED BY <3>2, <3>5, Zenon
  <2>. QED BY <2>1, <2>2, <2>3, <2>4, Zenon
<1>. QED BY <1>1, Invariance, PTL DEF Spec, OwnerKeepsName

\* A revoked name has no value and stays as it is until it lapses: it has no
\* owner, it cannot be registered while get_name shows it, and its namespace
\* takes no imports any more.
THEOREM RevokedNamesStay == Spec => RevokedUntilLapsed
<1>1. IndInv /\ [Next]_vars => [RevokedStep]_vars
  <2> SUFFICES ASSUME IndInv, Next, NEW n \in DOMAIN name_records, is_name_revoked(n)
               PROVE  /\ name_records[n].value_hash = NoValue
                      /\ name_records'[n] = name_records[n]
    BY DEF vars, RevokedStep
  <2>1. /\ get_name(n) /\ name_records[n].revoked
        /\ name_records[n].value_hash = NoValue /\ is_namespace_ready(NamespaceOf[n])
    BY DEF is_name_revoked, IndInv, RevokedForGood
  <2>2. SUFFICES ASSUME name_records'[n] # name_records[n] PROVE FALSE
    BY <2>1
  <2>3. /\ nameop.name = n /\ check(nameop)
        /\ nameop.opcode \in {"NAME_REGISTRATION", "NAME_IMPORT"} \cup ChangesLiveName
    BY <2>2, NameStep, SMTT(30) DEF NameKeptOrChanged, ChangesLiveName
  <2>4. CASE nameop.opcode \in ChangesLiveName
    <3>1. is_name_owner(n, nameop.sender)
        BY <2>3, <2>4, ZenonT(30) DEF ChangesLiveName, check, check_renewal, check_update, check_transfer,
                          check_revoke, NamesOwned
    <3>. QED BY <2>1, <3>1, OwnerFacts
  <2>5. CASE nameop.opcode = "NAME_IMPORT"
    BY <2>1, <2>3, <2>5 DEF check, check_import, is_namespace_revealed, RevealedAt,
                            is_namespace_ready
  <2>6. CASE nameop.opcode = "NAME_REGISTRATION"
    BY <2>1, <2>3, <2>6 DEF check, check_register
  <2>. QED BY <2>3, <2>4, <2>5, <2>6
<1>. QED BY <1>1, Invariance, PTL DEF Spec, RevokedUntilLapsed

\* In its grace period a name changes only by a renewal of its owner.  A name
\* registered in this block, which get_name does not show, is not in its grace
\* period: it was last renewed in this block too.
THEOREM NamesFreezeInGracePeriod == Spec => FrozenInGracePeriod
<1>1. IndInv /\ [Next]_vars => [FrozenStep]_vars
  <2> SUFFICES ASSUME IndInv, Next, NEW n \in DOMAIN name_records,
                      is_name_in_grace_period(n, block_id),
                      name_records'[n] # name_records[n]
               PROVE  By(name_records[n].sender, {"NAME_RENEWAL"})
    BY ZenonT(30) DEF vars, FrozenStep
  <2>1. /\ ops # <<>> /\ nameop.name = n /\ check(nameop)
        /\ nameop.opcode \in {"NAME_REGISTRATION", "NAME_IMPORT"} \cup ChangesLiveName
    BY NameStep DEF NameKeptOrChanged, ChangesLiveName
  <2>2. is_namespace_ready(NamespaceOf[n])
    BY DEF is_name_in_grace_period
  <2>3. CASE nameop.opcode = "NAME_RENEWAL"
    <3>1. is_name_owner(n, nameop.sender)
        BY <2>1, <2>3 DEF check, check_renewal
    <3>. QED BY <2>1, <2>3, <3>1, OwnerFacts DEF By
  <2>4. CASE nameop.opcode \in {"NAME_UPDATE", "NAME_TRANSFER", "NAME_REVOKE"}
    BY <2>1, <2>4, Zenon DEF check, check_update, check_transfer, check_revoke
  <2>5. CASE nameop.opcode = "NAME_IMPORT"
    BY <2>1, <2>2, <2>5 DEF check, check_import, is_namespace_revealed, RevealedAt,
                            is_namespace_ready
  <2>6. CASE nameop.opcode = "NAME_REGISTRATION"
    <3> DEFINE rec == name_records[n]
               ready == namespaces[NamespaceOf[n]].ready_block
    <3>1. ~ get_name(n)
        BY <2>1, <2>6, SMTT(30) DEF check, check_register
    <3>2. /\ rec.first_registered \in Nat /\ rec.last_renewed \in Nat /\ ready \in Nat
          /\ lastblock \in Nat /\ rec.first_registered <= rec.last_renewed
        BY <2>2, ZenonT(30) DEF IndInv, TypeOK, NameRecord, NamespaceRecord, NamesMarked, is_namespace_ready
    <3>3. Lifetime \in Nat \ {0} /\ GracePeriod \in Nat
        BY PeriodAssumption
    <3>4. /\ rec.first_registered <= block_id
          /\ ready + (Lifetime + GracePeriod) > block_id
                \/ rec.last_renewed + (Lifetime + GracePeriod) >= block_id
        BY <2>2 DEF is_name_in_grace_period, Unexpired, RevealedAt, is_namespace_ready
    <3>5. MaxOf(ready, rec.last_renewed) + Lifetime <= block_id
        BY DEF is_name_in_grace_period, ExpireBlock
    <3>6. ~ (rec.first_registered <= lastblock)
        BY <2>2, <3>1, <3>2, <3>3, <3>4 DEF get_name, Unexpired, block_id
    <3> HIDE DEF rec, ready
    <3>. QED BY <3>2, <3>3, <3>5, <3>6 DEF MaxOf, block_id
  <2>. QED BY <2>1, <2>3, <2>4, <2>5, <2>6 DEF ChangesLiveName
<1>. QED BY <1>1, Invariance, PTL DEF Spec, FrozenInGracePeriod

\* A namespace stays with whoever revealed it, until the reveal expires or, once
\* it is ready, for good; a second reveal in the block is refused by the
\* collision key that NamespacesMarked finds.
THEOREM RevealersKeepTheirNamespaces == Spec => RevealerKeepsNamespace
<1>1. IndInv /\ [Next]_vars => [RevealerStep]_vars
  <2> SUFFICES ASSUME IndInv, Next PROVE RevealerStep
    BY DEF vars, RevealerStep
  <2>1. CASE namespaces' = namespaces
    BY <2>1 DEF RevealerStep
  <2>2. CASE NAMESPACE_REVEAL
    <3>1. Committed("NAMESPACE_REVEAL")
        BY <2>2, Zenon DEF NAMESPACE_REVEAL
    <3>2. /\ nameop.opcode = "NAMESPACE_REVEAL" /\ check(nameop)
          /\ CollisionKey(nameop) \cap collisions = {}
        BY <3>1, CommittedFacts
    <3>3. /\ ~ is_namespace_revealed(nameop.namespace_id) /\ ~ is_namespace_ready(nameop.namespace_id)
          /\ <<"namespace_id", nameop.namespace_id>> \notin collisions
        BY <3>2, SMTT(30) DEF check, check_namespace_reveal, CollisionKey
    <3>4. \A ns \in DOMAIN namespaces : ns # nameop.namespace_id => namespaces'[ns] = namespaces[ns]
        BY <2>2, ZenonT(30) DEF NAMESPACE_REVEAL, Put
    <3>. QED BY <3>3, <3>4, SMTT(30) DEF RevealerStep, IndInv, NamespacesMarked
  <2>3. CASE NAMESPACE_READY
    <3> DEFINE m == nameop.namespace_id
    <3>1. Committed("NAMESPACE_READY")
        BY <2>3 DEF NAMESPACE_READY
    <3>2. nameop.opcode = "NAMESPACE_READY" /\ check(nameop) /\ ops # <<>>
        BY <3>1, CommittedFacts
    <3>3. /\ m \in DOMAIN namespaces /\ ~ is_namespace_ready(m)
          /\ namespaces[m].recipient = nameop.sender
        BY <3>2 DEF check, check_namespace_ready, is_namespace_revealed, RevealedAt,
                    is_namespace_ready
    <3>4. namespaces[m] \in NamespaceRecord
        BY <3>3 DEF IndInv, TypeOK
    <3>5. /\ \A ns \in DOMAIN namespaces : ns # m => namespaces'[ns] = namespaces[ns]
          /\ namespaces'[m].recipient = namespaces[m].recipient
        BY <2>3, <3>4, Zenon DEF NAMESPACE_READY, Put, NamespaceRecord
    <3>6. By(namespaces[m].recipient, {"NAMESPACE_READY"})
        BY <3>2, <3>3 DEF By
    <3>. QED BY <3>3, <3>5, <3>6 DEF RevealerStep
  <2>. QED BY <2>1, <2>2, <2>3, SMTT(30)
       DEF Next, db_scan_block, NAME_PREORDER, NAME_REGISTRATION, NAME_RENEWAL, NAME_UPDATE,
            NAME_TRANSFER, NAME_REVOKE, NAME_IMPORT, NAMESPACE_PREORDER, TOKEN_TRANSFER,
            log_reject, abort, db_save, tables
<1>. QED BY <1>1, Invariance, PTL DEF Spec, RevealerKeepsNamespace

=============================================================================
