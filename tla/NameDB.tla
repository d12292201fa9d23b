------------------------------- MODULE NameDB -------------------------------
(***************************************************************************)
(* The name database of the Python node (legacy/blockstack/lib/nameset and *)
(* lib/operations): how the name operations found in one block after the   *)
(* other change the tables of namespaces, preorders, names and accounts.   *)
(*                                                                         *)
(* virtualchain hands the node the operations of a block twice.  db_scan_  *)
(* block checks the creating ones against the state before the block, to   *)
(* find the names and namespaces that two of them claim.  Then db_check and*)
(* db_commit take the operations one at a time.  A check reads the tables  *)
(* as the operations before it left them, but dates its questions with     *)
(* lastblock, the block before; the commit that follows has assertions of  *)
(* its own, dated with the block being processed, and stops the node when  *)
(* one fails.  db_save ends the block and vests the tokens of the next.    *)
(*                                                                         *)
(* Every epoch feature is on, as since the fourth epoch.  The operations   *)
(* considered carry a valid consensus hash and a well-formed name; a       *)
(* principal stands for a script and its address.                          *)
(***************************************************************************)
EXTENDS Integers, FiniteSets, Sequences

CONSTANTS
    Names,
    Namespaces,
    NamespaceOf,             \* the namespace of a name
    Principals,
    Values,
    NoValue,                 \* value_hash = None
    BurnAddress,             \* BLOCKSTACK_BURN_ADDRESS
    ImportKeys,              \* the addresses derived from a principal's key
    Lifetime,                \* of the names of a namespace, in blocks
    GracePeriod,             \* NAMESPACE_LIFETIME_GRACE_PERIOD
    NamePreorderExpire,
    NamespacePreorderExpire,
    NamespaceRevealExpire,
    ReceiveFeesPeriod,       \* of a namespace that pays its creator
    MaxNamesPerSender,
    Pricing,                 \* the price curves a namespace may be revealed with
    NameFee,                 \* price of a name in BTC, by price curve
    NameTokens,              \* price of a name in Stacks, by price curve
    NamespaceTokens,         \* price of a namespace in Stacks
    Genesis,                 \* the accounts of the genesis block
    Vesting,                 \* Vesting[h]: what accounts receive for block h
    Chains                   \* the chains considered: Chains[c][h] are the blocks
                             \* that may be at height h, as sequences of operations

ASSUME PeriodAssumption ==
    /\ {Lifetime, GracePeriod, NamePreorderExpire, NamespacePreorderExpire,
        NamespaceRevealExpire, ReceiveFeesPeriod} \subseteq Nat \ {0}
    /\ {MaxNamesPerSender, NamespaceTokens} \subseteq Nat
    /\ NameFee \in [Pricing -> Nat] /\ NameTokens \in [Pricing -> Nat]

Account == [credit_value : Nat, debit_value : Nat,
            lock_transfer_block_id : Nat, receive_whitelisted : BOOLEAN]

ASSUME DataAssumption ==
    /\ NamespaceOf \in [Names -> Namespaces]
    /\ ImportKeys \in [Principals -> SUBSET Principals]
    /\ \A p \in Principals : p \in ImportKeys[p]
    /\ NoValue \in Values
    /\ BurnAddress \notin Principals
    /\ DOMAIN Genesis \subseteq Principals
    /\ \A p \in DOMAIN Genesis :
        /\ Genesis[p] \in Account
        /\ Genesis[p].debit_value <= Genesis[p].credit_value
    /\ \A h \in DOMAIN Vesting :
        /\ DOMAIN Vesting[h] \subseteq Principals
        /\ \A p \in DOMAIN Vesting[h] : Vesting[h][p] \in Nat

\* The operations, as the parsers hand them on.
Operation ==
    [opcode : {"NAME_PREORDER"}, name : Names, sender : Principals,
     recipient : Principals, op_fee : Nat, burn_address : Principals \cup {BurnAddress},
     token_units : {"BTC", "STACKS"}, token_fee : Nat]
    \cup
    [opcode : {"NAME_REGISTRATION", "NAME_IMPORT"}, name : Names, sender : Principals,
     recipient : Principals, value_hash : Values]
    \cup
    [opcode : {"NAME_RENEWAL"}, name : Names, sender : Principals,
     recipient : Principals, value_hash : Values, op_fee : Nat,
     burn_address : Principals \cup {BurnAddress}, token_fee : Nat]
    \cup
    [opcode : {"NAME_UPDATE"}, name : Names, sender : Principals, value_hash : Values]
    \cup
    [opcode : {"NAME_TRANSFER"}, name : Names, sender : Principals,
     recipient : Principals, keep_data : BOOLEAN]
    \cup
    [opcode : {"NAME_REVOKE"}, name : Names, sender : Principals]
    \cup
    [opcode : {"NAMESPACE_PREORDER"}, namespace_id : Namespaces, sender : Principals,
     recipient : Principals, op_fee : Nat, burn_address : Principals \cup {BurnAddress},
     token_fee : Nat]
    \cup
    [opcode : {"NAMESPACE_REVEAL"}, namespace_id : Namespaces, sender : Principals,
     recipient : Principals, version : Nat, pricing : Pricing]
    \cup
    [opcode : {"NAMESPACE_READY"}, namespace_id : Namespaces, sender : Principals]
    \cup
    [opcode : {"TOKEN_TRANSFER"}, sender : Principals, recipient : Principals,
     token_fee : Nat]

ASSUME ChainAssumption ==
    \A c \in DOMAIN Chains : \A h \in DOMAIN Chains[c] : Chains[c][h] \subseteq Seq(Operation)

VARIABLES
    chain,         \* the chain being indexed
    lastblock,     \* the last block saved
    indexing,      \* TRUE from the scan of block lastblock + 1 to its db_save
    ops,           \* the operations of that block still to be processed
    collisions,    \* names, namespaces and preorder hashes not to be taken
                   \* (again) in that block
    preorders,     \* the rows of the table of preorders
    namespaces,    \* the table of namespaces
    name_records,  \* the table of names
    keychain,      \* the import keychains on disk, by namespace
    accounts,      \* the latest row of every account
    aborted        \* the node has stopped in os.abort()

tables == <<preorders, namespaces, name_records, keychain, accounts>>
vars == <<chain, lastblock, indexing, ops, collisions, tables, aborted>>

----------------------------------------------------------------------------
\* Rows and lookups.

block_id == lastblock + 1

\* INSERT or UPDATE of the row with key k.
Put(table, k, row) ==
    [x \in DOMAIN table \cup {k} |-> IF x = k THEN row ELSE table[x]]

hash_name(op) == <<op.name, op.sender, op.recipient>>
hash_namespace(op) == <<op.namespace_id, op.sender, op.recipient>>

MaxOf(a, b) == IF a >= b THEN a ELSE b

\* get_namespace: there is a namespace ns, and it is ready.
is_namespace_ready(ns) ==
    ns \in DOMAIN namespaces /\ namespaces[ns].op = "NAMESPACE_READY"

\* namedb_get_namespace_reveal at block c: revealed, not ready, not expired.
RevealedAt(ns, c) ==
    /\ ns \in DOMAIN namespaces
    /\ namespaces[ns].op = "NAMESPACE_REVEAL"
    /\ namespaces[ns].reveal_block <= c
    /\ c < namespaces[ns].reveal_block + NamespaceRevealExpire

is_namespace_revealed(ns) == RevealedAt(ns, lastblock)

\* namedb_select_where_unexpired_names: the name is there at block c.
Unexpired(n, c) ==
    LET ns == NamespaceOf[n]
        span == Lifetime + GracePeriod
    IN  /\ n \in DOMAIN name_records
        /\ name_records[n].first_registered <= c
        /\ \/ /\ is_namespace_ready(ns)
              /\ \/ namespaces[ns].ready_block + span > c
                 \/ name_records[n].last_renewed + span >= c
           \/ RevealedAt(ns, c)

\* get_name: what a check sees of a name.
get_name(n) == Unexpired(n, lastblock)
is_name_revoked(n) == get_name(n) /\ name_records[n].revoked
is_name_registered(n) == get_name(n) /\ ~ name_records[n].revoked
is_name_owner(n, p) == is_name_registered(n) /\ name_records[n].sender = p

\* get_name_deadlines, for a name of a ready namespace.
ExpireBlock(n) ==
    MaxOf(namespaces[NamespaceOf[n]].ready_block, name_records[n].last_renewed)
        + Lifetime
RenewalDeadline(n) == ExpireBlock(n) + GracePeriod

is_name_in_grace_period(n, c) ==
    /\ Unexpired(n, c)
    /\ is_namespace_ready(NamespaceOf[n])
    /\ ExpireBlock(n) <= c
    /\ c < RenewalDeadline(n)

NamesOwned(p) == {n \in Names : is_name_owner(n, p)}

\* get_num_names_owned in the check pass: the registrations of this block,
\* which lastblock hides, and the names in the table.
RegisteredNow(p) ==
    {n \in DOMAIN name_records :
        /\ name_records[n].first_registered = block_id
        /\ name_records[n].last_creation_op = "NAME_PREORDER"
        /\ name_records[n].sender = p}
NumNamesOwned(p) == Cardinality(RegisteredNow(p)) + Cardinality(NamesOwned(p))

\* fetchone() on the rows of one preorder hash: the primary key starts with
\* the hash and the block number.
FetchOne(rows) == CHOOSE r \in rows : \A q \in rows : r.block_number <= q.block_number

\* namedb_get_name_preorder: expired preorders included, unless a name with
\* this preorder hash is there.
NamePreorders(hash) ==
    {r \in preorders : /\ r.op = "NAME_PREORDER"
                       /\ r.preorder_hash = hash
                       /\ r.block_number < lastblock + NamePreorderExpire
                       /\ \A n \in DOMAIN name_records :
                            name_records[n].preorder_hash = hash => ~ get_name(n)}

\* namedb_get_namespace_preorder: not if a namespace has this preorder hash.
\* A revealed one counts while reveal_block < current_block + expiry.
NamespacePreorders(hash) ==
    {r \in preorders : /\ r.op = "NAMESPACE_PREORDER"
                       /\ r.preorder_hash = hash
                       /\ r.block_number < lastblock + NamespacePreorderExpire
                       /\ \A ns \in DOMAIN namespaces :
                            namespaces[ns].preorder_hash = hash =>
                              /\ namespaces[ns].op = "NAMESPACE_REVEAL"
                              /\ namespaces[ns].reveal_block
                                    >= lastblock + NamespaceRevealExpire}

\* With a defect: what was spent before is forgotten.
EverCredited(p, amount) == p \in DOMAIN accounts /\ accounts[p].credit_value >= amount

Balance(p) == accounts[p].credit_value - accounts[p].debit_value
CanAfford(p, amount) == p \in DOMAIN accounts /\ Balance(p) >= amount

----------------------------------------------------------------------------
\* Payments (check_payment).  pay has the fields op_fee (BTC), burn_address,
\* token_units and token_fee of the preorder or of the renewal.

PaidStacks(namespace, pay) ==
    pay.token_units = "STACKS" /\ pay.token_fee >= NameTokens[namespace.pricing]
PaidEither(namespace, pay) ==
    IF pay.token_units = "STACKS" THEN PaidStacks(namespace, pay)
    ELSE pay.op_fee >= NameFee[namespace.pricing]

\* Version 1 burns BTC or Stacks.  Version 2 pays its creator in BTC for a
\* while, and then is like version 1.  Version 3 burns Stacks.
check_payment(namespace, pay) ==
    CASE namespace.version = 1 ->
            pay.burn_address = BurnAddress /\ PaidEither(namespace, pay)
      [] namespace.version = 2 ->
            IF namespace.reveal_block + ReceiveFeesPeriod >= block_id
            THEN /\ pay.burn_address = namespace.address
                 /\ pay.token_units = "BTC"
                 /\ PaidEither(namespace, pay)
            ELSE pay.burn_address = BurnAddress /\ PaidEither(namespace, pay)
      [] namespace.version = 3 ->
            pay.burn_address = BurnAddress /\ PaidStacks(namespace, pay)
      [] OTHER -> FALSE

\* What an import records in token_fee: the price, where names cost Stacks.
ImportFee(ns) ==
    IF namespaces[ns].version = 3 THEN NameTokens[namespaces[ns].pricing] ELSE 0

\* The payment a renewal carries: no tokens, or zero, means BTC.
RenewalPayment(op) ==
    [op_fee |-> op.op_fee, burn_address |-> op.burn_address,
     token_units |-> IF op.token_fee = 0 THEN "BTC" ELSE "STACKS",
     token_fee |-> op.token_fee]

----------------------------------------------------------------------------
\* The check of each operation, without the collision check of its decorator.

check_preorder(op) ==
    /\ NamePreorders(hash_name(op)) = {}
    /\ NumNamesOwned(op.sender) < MaxNamesPerSender
    /\ op.token_units = "STACKS" =>
        CanAfford(op.sender, op.token_fee) /\ op.burn_address = BurnAddress

\* With a defect: a revoked name can be registered again at once.
RegisterRevoked(op, num_names) ==
    LET ns == NamespaceOf[op.name]
        rows == NamePreorders(hash_name(op))
        preorder == FetchOne(rows)
    IN  /\ is_namespace_ready(ns)
        /\ num_names < MaxNamesPerSender
        /\ ~ is_name_registered(op.name)
        /\ rows # {}
        /\ preorder.block_number + NamePreorderExpire >= block_id
        /\ preorder.block_number >= namespaces[ns].ready_block
        /\ preorder.sender = op.sender
        /\ check_payment(namespaces[ns], preorder)

\* num_names is get_num_names_owned of the recipient.
check_register(op, num_names) ==
    LET ns == NamespaceOf[op.name]
        rows == NamePreorders(hash_name(op))
        preorder == FetchOne(rows)
    IN  /\ is_namespace_ready(ns)
        /\ num_names < MaxNamesPerSender
        /\ ~ get_name(op.name)
        /\ rows # {}
        /\ preorder.block_number + Lifetime > lastblock
        /\ preorder.block_number + NamePreorderExpire >= block_id
        /\ preorder.block_number >= namespaces[ns].ready_block
        /\ preorder.sender = op.sender
        /\ check_payment(namespaces[ns], preorder)

check_renewal(op) ==
    LET pay == RenewalPayment(op)
    IN  /\ is_namespace_ready(NamespaceOf[op.name])
        /\ NumNamesOwned(op.recipient) < MaxNamesPerSender
        /\ is_name_owner(op.name, op.sender)
        /\ check_payment(namespaces[NamespaceOf[op.name]], pay)
        /\ pay.token_units = "STACKS" => CanAfford(op.sender, op.token_fee)

\* With a defect: the grace period is looked up at the block before.
UpdateInGracePeriod(op) ==
    /\ Cardinality(NamesOwned(op.sender)) <= MaxNamesPerSender
    /\ op.name \in NamesOwned(op.sender)
    /\ is_namespace_ready(NamespaceOf[op.name])
    /\ ~ is_name_in_grace_period(op.name, lastblock)

\* The name is found among the names of the sender.
check_update(op) ==
    /\ Cardinality(NamesOwned(op.sender)) <= MaxNamesPerSender
    /\ op.name \in NamesOwned(op.sender)
    /\ is_namespace_ready(NamespaceOf[op.name])
    /\ Unexpired(op.name, lastblock)
    /\ ~ is_name_in_grace_period(op.name, block_id)

check_transfer(op) ==
    /\ is_namespace_ready(NamespaceOf[op.name])
    /\ Unexpired(op.name, lastblock)
    /\ ~ is_name_in_grace_period(op.name, block_id)
    /\ op.sender # op.recipient
    /\ is_name_owner(op.name, op.sender)
    /\ Cardinality(NamesOwned(op.recipient)) < MaxNamesPerSender

\* Unlike an update and a transfer, a revocation asks about this block.
check_revoke(op) ==
    /\ is_namespace_ready(NamespaceOf[op.name])
    /\ Unexpired(op.name, block_id)
    /\ ~ is_name_in_grace_period(op.name, block_id)
    /\ is_name_owner(op.name, op.sender)

\* load_import_keychain and build_import_keychain: the first import must come
\* from the address the namespace was revealed to, and stores the keychain.
BuildsKeychain(op) ==
    LET ns == NamespaceOf[op.name]
    IN  /\ is_namespace_revealed(ns)
        /\ ns \notin DOMAIN keychain
        /\ op.sender = namespaces[ns].recipient

check_import(op) ==
    LET ns == NamespaceOf[op.name]
    IN  /\ is_namespace_revealed(ns)
        /\ \/ BuildsKeychain(op)
           \/ ns \in DOMAIN keychain /\ op.sender \in keychain[ns]

check_namespace_preorder(op) ==
    /\ NamespacePreorders(hash_namespace(op)) = {}
    /\ op.burn_address = BurnAddress
    /\ CanAfford(op.sender, op.token_fee)

check_namespace_reveal(op) ==
    LET rows == NamespacePreorders(hash_namespace(op))
        preorder == FetchOne(rows)
    IN  /\ ~ is_namespace_revealed(op.namespace_id)
        /\ ~ is_namespace_ready(op.namespace_id)
        /\ rows # {}
        /\ preorder.sender = op.sender
        /\ op.version \in {1, 2, 3}
        /\ preorder.token_fee >= NamespaceTokens

check_namespace_ready(op) ==
    /\ is_namespace_revealed(op.namespace_id)
    /\ namespaces[op.namespace_id].recipient = op.sender

check_token_transfer(op) ==
    /\ op.token_fee > 0
    /\ op.sender # op.recipient
    /\ CanAfford(op.sender, op.token_fee)
    /\ block_id >= accounts[op.sender].lock_transfer_block_id
    /\ op.recipient \in DOMAIN accounts => accounts[op.recipient].receive_whitelisted

\* check_preorder_collision, check_name_collision, check_namespace_collision.
\* An import is never taken to collide (check_noop_collision).
CollisionKey(op) ==
    CASE op.opcode = "NAME_PREORDER" -> {<<"preorder_hash", hash_name(op)>>}
      [] op.opcode = "NAMESPACE_PREORDER" ->
            {<<"preorder_hash", hash_namespace(op)>>}
      [] op.opcode = "NAME_REGISTRATION" -> {<<"name", op.name>>}
      [] op.opcode = "NAMESPACE_REVEAL" ->
            {<<"namespace_id", op.namespace_id>>}
      [] OTHER -> {}

\* The check method of the operation.
check(op) ==
    CASE op.opcode = "NAME_PREORDER" -> check_preorder(op)
      [] op.opcode = "NAME_REGISTRATION" ->
            check_register(op, NumNamesOwned(op.recipient))
      [] op.opcode = "NAME_RENEWAL" -> check_renewal(op)
      [] op.opcode = "NAME_UPDATE" -> check_update(op)
      [] op.opcode = "NAME_TRANSFER" -> check_transfer(op)
      [] op.opcode = "NAME_REVOKE" -> check_revoke(op)
      [] op.opcode = "NAME_IMPORT" -> check_import(op)
      [] op.opcode = "NAMESPACE_PREORDER" -> check_namespace_preorder(op)
      [] op.opcode = "NAMESPACE_REVEAL" -> check_namespace_reveal(op)
      [] op.opcode = "NAMESPACE_READY" -> check_namespace_ready(op)
      [] op.opcode = "TOKEN_TRANSFER" -> check_token_transfer(op)

\* With a defect: a registration that collides is not refused.
RegisterCollided(op) ==
    check(op) /\ (op.opcode = "NAME_REGISTRATION" \/ CollisionKey(op) \cap collisions = {})

\* With a defect: a reveal that collides is not refused.
RevealCollided(op) ==
    check(op) /\ (op.opcode = "NAMESPACE_REVEAL" \/ CollisionKey(op) \cap collisions = {})

\* op_check in the check pass, with the decorator of the method.
op_check(op) == check(op) /\ CollisionKey(op) \cap collisions = {}

----------------------------------------------------------------------------
\* db_scan_block.

\* What the scan keeps: the senders of the registrations seen, the names and
\* namespaces that some operation may create, and those that two may.  A
\* registration found good has been given its new owner as sender.
ScanOp(scan, op) ==
    LET counted == Cardinality({i \in DOMAIN scan.senders :
                                    scan.senders[i] = op.recipient})
                   + Cardinality(NamesOwned(op.recipient))
        good == \/ op.opcode = "NAME_REGISTRATION" /\ check_register(op, counted)
                \/ op.opcode = "NAMESPACE_REVEAL" /\ check_namespace_reveal(op)
        key == CollisionKey(op)
    IN  IF op.opcode \notin {"NAME_REGISTRATION", "NAMESPACE_REVEAL"} THEN scan
        ELSE [senders |-> IF op.opcode # "NAME_REGISTRATION" THEN scan.senders
                          ELSE Append(scan.senders,
                                      IF good /\ key \cap scan.seen = {}
                                      THEN op.recipient ELSE op.sender),
              seen |-> IF good THEN scan.seen \cup key ELSE scan.seen,
              collided |-> IF good THEN scan.collided \cup (key \cap scan.seen)
                           ELSE scan.collided]

FindCollisions(block) ==
    LET scanned[i \in 0..Len(block)] ==
            IF i = 0 THEN [senders |-> <<>>, seen |-> {}, collided |-> {}]
            ELSE ScanOp(scanned[i - 1], block[i])
    IN  scanned[Len(block)].collided

\* Checking an import stores the keychain, in the scan already.
KeychainsBuilt(operations) ==
    LET built == {NamespaceOf[op.name] :
                    op \in {o \in operations : /\ o.opcode = "NAME_IMPORT"
                                               /\ BuildsKeychain(o)}}
    IN  [ns \in DOMAIN keychain \cup built |->
            IF ns \in DOMAIN keychain THEN keychain[ns]
            ELSE ImportKeys[namespaces[ns].recipient]]

db_scan_block ==
    /\ ~ aborted /\ ~ indexing
    /\ block_id \in DOMAIN Chains[chain]
    /\ \E block \in Chains[chain][block_id] :
        /\ ops' = block
        /\ collisions' = FindCollisions(block)
        /\ keychain' = KeychainsBuilt({block[i] : i \in DOMAIN block})
    /\ indexing' = TRUE
    /\ UNCHANGED <<chain, lastblock, preorders, namespaces, name_records,
                   accounts, aborted>>

----------------------------------------------------------------------------
\* The commits.

\* OPCODE_SEQUENCE_GRAPH, for the operations on a registered name.
ChangesLiveName == {"NAME_UPDATE", "NAME_TRANSFER", "NAME_RENEWAL", "NAME_REVOKE"}
OpcodeSequence(opcode) ==
    CASE opcode = "NAME_IMPORT" -> ChangesLiveName \cup {"NAME_IMPORT"}
      [] opcode = "NAME_REVOKE" -> {"NAME_REGISTRATION"}
      [] OTHER -> ChangesLiveName

\* namedb_account_debit: the account exists and is not overdrawn.
CanDebit(p, amount) ==
    /\ p \in DOMAIN accounts
    /\ accounts[p].debit_value + amount <= accounts[p].credit_value

Debit(p, amount) == Put(accounts, p, [accounts[p] EXCEPT !.debit_value = @ + amount])

\* namedb_account_credit.  A new account is unlocked and whitelisted.
Credit(table, p, amount) ==
    IF p \in DOMAIN table
    THEN Put(table, p, [table[p] EXCEPT !.credit_value = @ + amount])
    ELSE Put(table, p, [credit_value |-> amount, debit_value |-> 0,
                        lock_transfer_block_id |-> 0, receive_whitelisted |-> TRUE])

\* namedb_name_update for an import: the row that is overwritten has the block
\* number the check found, and the token_fee the import records.
ImportUpdates(op) ==
    LET rec == name_records[op.name]
    IN  /\ rec.block_number = block_id \/ get_name(op.name)
        /\ rec.token_fee = ImportFee(NamespaceOf[op.name])

\* namedb_namespace_update for a second reveal: the row has the op_fee of the new
\* preorder, and is not ready.
RevealUpdates(op) ==
    /\ namespaces[op.namespace_id].op_fee
            = FetchOne(NamespacePreorders(hash_namespace(op))).op_fee
    /\ namespaces[op.namespace_id].ready_block = 0

\* The assertions of the commits: namedb_account_debit, namedb_op_sanity_check,
\* the columns namedb_name_update and namedb_namespace_update do not let change,
\* and namedb_name_import_sanity_check, which looks the name up at this block.
CommitAssertions(op) ==
    CASE op.opcode = "NAME_PREORDER" ->
            op.token_units = "STACKS" => CanDebit(op.sender, op.token_fee)
      [] op.opcode \in {"NAMESPACE_PREORDER", "TOKEN_TRANSFER"} ->
            CanDebit(op.sender, op.token_fee)
      [] op.opcode = "NAME_RENEWAL" ->
            /\ op.opcode \in OpcodeSequence(name_records[op.name].op)
            /\ op.token_fee # 0 => CanDebit(op.sender, op.token_fee)
      [] op.opcode = "NAME_TRANSFER" ->
            op.opcode \in OpcodeSequence(name_records[op.name].op)
      [] op.opcode \in {"NAME_UPDATE", "NAME_REVOKE"} ->
            /\ op.opcode \in OpcodeSequence(name_records[op.name].op)
            /\ op.sender = name_records[op.name].sender
      [] op.opcode = "NAME_IMPORT" ->
            /\ op.name \in DOMAIN name_records <=> Unexpired(op.name, block_id)
            /\ op.name \in DOMAIN name_records => ImportUpdates(op)
      [] op.opcode = "NAMESPACE_REVEAL" ->
            op.namespace_id \in DOMAIN namespaces => RevealUpdates(op)
      [] op.opcode = "NAMESPACE_READY" ->
            namespaces[op.namespace_id].op = "NAMESPACE_REVEAL"
      [] OTHER -> TRUE

\* The operation db_check and db_commit are at.
nameop == Head(ops)

\* With a defect: what the operation takes is not marked as taken.
CommittedUnmarked(opcode) ==
    /\ indexing /\ ~ aborted
    /\ ops # <<>>
    /\ nameop.opcode = opcode
    /\ op_check(nameop)
    /\ CommitAssertions(nameop)
    /\ ops' = Tail(ops)
    /\ UNCHANGED <<chain, lastblock, indexing, collisions, aborted>>

\* It is an opcode operation, it is accepted, and committing it succeeds.
Committed(opcode) ==
    /\ indexing /\ ~ aborted
    /\ ops # <<>>
    /\ nameop.opcode = opcode
    /\ op_check(nameop)
    /\ CommitAssertions(nameop)
    /\ ops' = Tail(ops)
    /\ collisions' = collisions \cup CollisionKey(nameop)
    /\ UNCHANGED <<chain, lastblock, indexing, aborted>>

PreorderRow(op, hash, units) ==
    [op |-> op.opcode, preorder_hash |-> hash, block_number |-> block_id,
     sender |-> op.sender, token_units |-> units, token_fee |-> op.token_fee,
     op_fee |-> op.op_fee, burn_address |-> op.burn_address]

\* With a defect: the preorder stays.
KeepPreorder(hash) == preorders

\* namedb_preorder_remove.
ClearPreorder(hash) == {r \in preorders : r.preorder_hash # hash}

\* commit_state_preorder.
NAME_PREORDER ==
    /\ Committed("NAME_PREORDER")
    /\ preorders' = preorders \cup
            {PreorderRow(nameop, hash_name(nameop), nameop.token_units)}
    /\ accounts' = IF nameop.token_units = "STACKS"
                   THEN Debit(nameop.sender, nameop.token_fee) ELSE accounts
    /\ UNCHANGED <<namespaces, name_records, keychain>>

\* commit_state_create: the preorder is cleared, by its hash.  A name that is
\* registered again keeps its block number.
NAME_REGISTRATION ==
    LET hash == hash_name(nameop)
        preorder == FetchOne(NamePreorders(hash))
        n == nameop.name
    IN  /\ Committed("NAME_REGISTRATION")
        /\ name_records' = Put(name_records, n,
                [op |-> "NAME_REGISTRATION", last_creation_op |-> "NAME_PREORDER",
                 block_number |-> IF n \in DOMAIN name_records
                                  THEN name_records[n].block_number
                                  ELSE preorder.block_number,
                 preorder_block_number |-> preorder.block_number,
                 preorder_hash |-> hash,
                 first_registered |-> block_id, last_renewed |-> block_id,
                 sender |-> nameop.recipient, value_hash |-> nameop.value_hash,
                 token_fee |-> IF preorder.token_units = "STACKS"
                               THEN preorder.token_fee ELSE 0,
                 revoked |-> FALSE])
        /\ preorders' = ClearPreorder(hash)
        /\ UNCHANGED <<namespaces, keychain, accounts>>

\* namedb_state_transition on a name, from here to NAME_REVOKE.  A renewal may
\* hand the name over and give it a value.
NAME_RENEWAL ==
    /\ Committed("NAME_RENEWAL")
    /\ name_records' = Put(name_records, nameop.name,
            [name_records[nameop.name] EXCEPT
                !.op = "NAME_RENEWAL", !.last_renewed = block_id,
                !.sender = nameop.recipient, !.token_fee = nameop.token_fee,
                !.value_hash = IF nameop.value_hash = NoValue THEN @
                               ELSE nameop.value_hash])
    /\ accounts' = IF nameop.token_fee # 0
                   THEN Debit(nameop.sender, nameop.token_fee) ELSE accounts
    /\ UNCHANGED <<preorders, namespaces, keychain>>

NAME_UPDATE ==
    /\ Committed("NAME_UPDATE")
    /\ name_records' = Put(name_records, nameop.name,
            [name_records[nameop.name] EXCEPT
                !.op = "NAME_UPDATE", !.value_hash = nameop.value_hash])
    /\ UNCHANGED <<preorders, namespaces, keychain, accounts>>

NAME_TRANSFER ==
    /\ Committed("NAME_TRANSFER")
    /\ name_records' = Put(name_records, nameop.name,
            [name_records[nameop.name] EXCEPT
                !.op = "NAME_TRANSFER", !.sender = nameop.recipient,
                !.value_hash = IF nameop.keep_data THEN @ ELSE NoValue])
    /\ UNCHANGED <<preorders, namespaces, keychain, accounts>>

NAME_REVOKE ==
    /\ Committed("NAME_REVOKE")
    /\ name_records' = Put(name_records, nameop.name,
            [name_records[nameop.name] EXCEPT
                !.op = "NAME_REVOKE", !.revoked = TRUE, !.value_hash = NoValue])
    /\ UNCHANGED <<preorders, namespaces, keychain, accounts>>

\* namedb_state_create_as_import.  An import of a name that get_name finds
\* keeps its dates and its preorder hash.
NAME_IMPORT ==
    LET n == nameop.name
        old == get_name(n)
    IN  /\ Committed("NAME_IMPORT")
        /\ name_records' = Put(name_records, n,
                [op |-> "NAME_IMPORT", last_creation_op |-> "NAME_IMPORT",
                 block_number |-> IF old THEN name_records[n].block_number
                                  ELSE block_id,
                 preorder_block_number |-> IF old THEN name_records[n].preorder_block_number
                                           ELSE block_id,
                 preorder_hash |-> IF old THEN name_records[n].preorder_hash
                                   ELSE hash_name(nameop),
                 first_registered |-> IF old THEN name_records[n].first_registered
                                      ELSE block_id,
                 last_renewed |-> IF old THEN name_records[n].last_renewed
                                  ELSE block_id,
                 sender |-> nameop.recipient, value_hash |-> nameop.value_hash,
                 token_fee |-> ImportFee(NamespaceOf[n]), revoked |-> FALSE])
        /\ keychain' = KeychainsBuilt({nameop})
        /\ UNCHANGED <<preorders, namespaces, accounts>>

NAMESPACE_PREORDER ==
    /\ Committed("NAMESPACE_PREORDER")
    /\ preorders' = preorders \cup
            {PreorderRow(nameop, hash_namespace(nameop), "STACKS")}
    /\ accounts' = Debit(nameop.sender, nameop.token_fee)
    /\ UNCHANGED <<namespaces, name_records, keychain>>

\* A namespace that is revealed again keeps its block number.
NAMESPACE_REVEAL ==
    LET hash == hash_namespace(nameop)
        preorder == FetchOne(NamespacePreorders(hash))
        ns == nameop.namespace_id
    IN  /\ Committed("NAMESPACE_REVEAL")
        /\ namespaces' = Put(namespaces, ns,
                [op |-> "NAMESPACE_REVEAL", preorder_hash |-> hash,
                 block_number |-> IF ns \in DOMAIN namespaces
                                  THEN namespaces[ns].block_number
                                  ELSE preorder.block_number,
                 reveal_block |-> block_id, ready_block |-> 0,
                 address |-> nameop.sender, recipient |-> nameop.recipient,
                 version |-> nameop.version, pricing |-> nameop.pricing,
                 op_fee |-> preorder.op_fee])
        /\ preorders' = ClearPreorder(hash)
        /\ UNCHANGED <<name_records, keychain, accounts>>

NAMESPACE_READY ==
    /\ Committed("NAMESPACE_READY")
    /\ namespaces' = Put(namespaces, nameop.namespace_id,
            [namespaces[nameop.namespace_id] EXCEPT
                !.op = "NAMESPACE_READY", !.ready_block = block_id])
    /\ UNCHANGED <<preorders, name_records, keychain, accounts>>

\* commit_token_operation.
TOKEN_TRANSFER ==
    /\ Committed("TOKEN_TRANSFER")
    /\ accounts' = Credit(Debit(nameop.sender, nameop.token_fee),
                          nameop.recipient, nameop.token_fee)
    /\ UNCHANGED <<preorders, namespaces, name_records, keychain>>

\* db_check refuses the operation.
log_reject ==
    /\ indexing /\ ~ aborted
    /\ ops # <<>>
    /\ ~ op_check(nameop)
    /\ ops' = Tail(ops)
    /\ UNCHANGED <<chain, lastblock, indexing, collisions, tables, aborted>>

\* An assertion of the commit fails: os.abort(), the block unfinished.
abort ==
    /\ indexing /\ ~ aborted
    /\ ops # <<>>
    /\ op_check(nameop)
    /\ ~ CommitAssertions(nameop)
    /\ aborted' = TRUE
    /\ UNCHANGED <<chain, lastblock, indexing, ops, collisions, tables>>

\* db_save: commit_account_vesting for the next block, commit_finished.
db_save ==
    LET vests == IF block_id + 1 \in DOMAIN Vesting THEN Vesting[block_id + 1]
                 ELSE [p \in {} |-> 0]
        credited(p) == Credit(accounts, p, vests[p])[p]
    IN  /\ indexing /\ ~ aborted
        /\ ops = <<>>
        /\ indexing' = FALSE
        /\ lastblock' = block_id
        /\ collisions' = {}
        /\ accounts' = [p \in DOMAIN accounts \cup DOMAIN vests |->
                            IF p \in DOMAIN vests THEN credited(p) ELSE accounts[p]]
        /\ UNCHANGED <<chain, ops, preorders, namespaces, name_records, keychain,
                       aborted>>

----------------------------------------------------------------------------
Init ==
    /\ chain \in DOMAIN Chains
    /\ lastblock = 0
    /\ indexing = FALSE
    /\ ops = <<>>
    /\ collisions = {}
    /\ preorders = {}
    /\ namespaces = [ns \in {} |-> ns]
    /\ name_records = [n \in {} |-> n]
    /\ keychain = [ns \in {} |-> ns]
    /\ accounts = Genesis
    /\ aborted = FALSE

Next ==
    \/ db_scan_block
    \/ NAME_PREORDER \/ NAME_REGISTRATION \/ NAME_RENEWAL \/ NAME_UPDATE
    \/ NAME_TRANSFER \/ NAME_REVOKE \/ NAME_IMPORT
    \/ NAMESPACE_PREORDER \/ NAMESPACE_REVEAL \/ NAMESPACE_READY
    \/ TOKEN_TRANSFER
    \/ log_reject \/ abort
    \/ db_save

Spec == Init /\ [][Next]_vars

----------------------------------------------------------------------------
\* Properties.

PreorderHash == (Names \cup Namespaces) \X Principals \X Principals

NameRecord ==
    [op : ChangesLiveName \cup {"NAME_REGISTRATION", "NAME_IMPORT"},
     last_creation_op : {"NAME_PREORDER", "NAME_IMPORT"},
     block_number : Nat, preorder_block_number : Nat, preorder_hash : PreorderHash,
     first_registered : Nat, last_renewed : Nat,
     sender : Principals, value_hash : Values, token_fee : Nat, revoked : BOOLEAN]

NamespaceRecord ==
    [op : {"NAMESPACE_REVEAL", "NAMESPACE_READY"}, preorder_hash : PreorderHash,
     block_number : Nat, reveal_block : Nat, ready_block : Nat,
     address : Principals, recipient : Principals, version : {1, 2, 3},
     pricing : Pricing, op_fee : Nat]

Preorder ==
    [op : {"NAME_PREORDER", "NAMESPACE_PREORDER"}, preorder_hash : PreorderHash,
     block_number : Nat, sender : Principals, token_units : {"BTC", "STACKS"},
     token_fee : Nat, op_fee : Nat, burn_address : Principals \cup {BurnAddress}]

\* The tables have the columns and the values of their schemas (db.py).
TypeOK ==
    /\ chain \in DOMAIN Chains
    /\ lastblock \in Nat
    /\ indexing \in BOOLEAN /\ aborted \in BOOLEAN
    /\ preorders \subseteq Preorder
    /\ DOMAIN namespaces \subseteq Namespaces
    /\ \A ns \in DOMAIN namespaces : namespaces[ns] \in NamespaceRecord
    /\ DOMAIN name_records \subseteq Names
    /\ \A n \in DOMAIN name_records : name_records[n] \in NameRecord
    /\ DOMAIN keychain \subseteq Namespaces
    /\ \A ns \in DOMAIN keychain : keychain[ns] \subseteq Principals
    /\ DOMAIN accounts \subseteq Principals
    /\ \A p \in DOMAIN accounts : accounts[p] \in Account

\* The operation the step from this state to the next processes is by p.
By(p, opcodes) == ops # <<>> /\ nameop.opcode \in opcodes /\ nameop.sender = p

\* The name is somebody's: get_name finds it, or it was taken in this block.
Held(n) ==
    /\ n \in DOMAIN name_records
    /\ get_name(n) \/ name_records[n].first_registered = block_id

\* A name that somebody holds passes to somebody else by an operation its owner
\* sent, or while its namespace is still being imported.  In particular nobody
\* registers a name that was registered earlier in the block, which get_name
\* does not show to the check of a registration.  A name that was imported
\* earlier in the block, before its namespace was made ready in the same block,
\* is not protected: an import leaves no collision key.
OwnerStep ==
    \A n \in DOMAIN name_records :
        Held(n) =>
            /\ n \in DOMAIN name_records'
            /\ \/ name_records'[n].sender = name_records[n].sender
               \/ By(name_records[n].sender, {"NAME_TRANSFER", "NAME_RENEWAL"})
               \/ ~ is_namespace_ready(NamespaceOf[n])
               \/ /\ name_records[n].last_creation_op = "NAME_IMPORT"
                  /\ name_records[n].first_registered = block_id
OwnerKeepsName == [][OwnerStep]_vars

\* A revoked name has no value, and no operation changes it before it lapses.
RevokedStep ==
    \A n \in DOMAIN name_records :
        is_name_revoked(n) =>
            /\ name_records[n].value_hash = NoValue
            /\ name_records'[n] = name_records[n]
RevokedUntilLapsed == [][RevokedStep]_vars

\* In the grace period of a name, from the block in which it expires to the
\* renewal deadline, its owner can renew it and nothing else changes it.
FrozenStep ==
    \A n \in DOMAIN name_records :
        is_name_in_grace_period(n, block_id) =>
            \/ name_records'[n] = name_records[n]
            \/ By(name_records[n].sender, {"NAME_RENEWAL"})
FrozenInGracePeriod == [][FrozenStep]_vars

\* Whoever revealed a namespace keeps it as long as the reveal has not expired,
\* and for good once it is ready: the only change is that they make it ready.
\* A second reveal in the same block, which get_namespace_reveal does not show,
\* is refused as well.
RevealerStep ==
    \A ns \in DOMAIN namespaces :
        (\/ is_namespace_ready(ns)
         \/ is_namespace_revealed(ns)
         \/ namespaces[ns].reveal_block = block_id) =>
            \/ namespaces'[ns] = namespaces[ns]
            \/ /\ ~ is_namespace_ready(ns)
               /\ By(namespaces[ns].recipient, {"NAMESPACE_READY"})
               /\ namespaces'[ns].recipient = namespaces[ns].recipient
RevealerKeepsNamespace == [][RevealerStep]_vars

\* A preorder pays for one registration: a preorder with the hash of a
\* registered name is younger than the one the registration used up.
PreorderUsedOnce ==
    \A n \in DOMAIN name_records, r \in preorders :
        /\ name_records[n].last_creation_op = "NAME_PREORDER"
        /\ name_records[n].preorder_hash = r.preorder_hash
        => r.block_number > name_records[n].preorder_block_number

\* A name of a namespace that has been revealed again: it was imported under an
\* earlier reveal, in which names had another price in Stacks.
ImportedAtOtherPrice(n) ==
    LET ns == NamespaceOf[n]
    IN  /\ name_records[n].first_registered < namespaces[ns].reveal_block
        /\ name_records[n].token_fee # ImportFee(ns)

\* What a check accepts, the commit does not choke on: no account is overdrawn
\* and no assertion of the commit fails, but in three cases, all after a reveal
\* that was not made ready.  A name is imported again in the very block in which
\* the reveal expires; or it is imported again under a second reveal at another
\* price in Stacks; or the preorder of a second reveal burned another amount of
\* BTC than that of the first.
CommitFollowsCheck ==
    aborted =>
        \/ /\ nameop.opcode = "NAME_IMPORT"
           /\ nameop.name \in DOMAIN name_records
           /\ \/ namespaces[NamespaceOf[nameop.name]].reveal_block + NamespaceRevealExpire
                    = block_id
              \/ ImportedAtOtherPrice(nameop.name)
        \/ /\ nameop.opcode = "NAMESPACE_REVEAL"
           /\ nameop.namespace_id \in DOMAIN namespaces
           /\ namespaces[nameop.namespace_id].reveal_block + NamespaceRevealExpire
                    <= lastblock
           /\ namespaces[nameop.namespace_id].op_fee
                    # FetchOne(NamespacePreorders(hash_namespace(nameop))).op_fee

----------------------------------------------------------------------------
(***************************************************************************)
(* The invariant of the proofs.                                            *)
(***************************************************************************)

\* A date in the tables: of a saved block, or of the block being indexed.
Past(h) == h <= lastblock \/ (indexing /\ h = block_id)

\* The lookups dated lastblock do not show the rows of the block being indexed;
\* those a registration, a preorder or a reveal wrote are known by their key.
NamesMarked ==
    \A n \in DOMAIN name_records :
        LET rec == name_records[n]
        IN  /\ Past(rec.first_registered) /\ Past(rec.preorder_block_number)
            /\ rec.first_registered <= rec.last_renewed
            /\ rec.last_creation_op = "NAME_PREORDER" =>
                /\ rec.first_registered = block_id => <<"name", n>> \in collisions
                /\ rec.preorder_block_number = block_id =>
                        <<"preorder_hash", rec.preorder_hash>> \in collisions

NamespacesMarked ==
    \A ns \in DOMAIN namespaces :
        /\ Past(namespaces[ns].reveal_block)
        /\ namespaces[ns].reveal_block = block_id => <<"namespace_id", ns>> \in collisions

PreordersMarked ==
    \A r \in preorders :
        /\ Past(r.block_number)
        /\ r.block_number = block_id => <<"preorder_hash", r.preorder_hash>> \in collisions

\* A revoked name is recognised by its last operation; it has no value, and its
\* namespace is past the imports that could overwrite it.
RevokedForGood ==
    \A n \in DOMAIN name_records :
        LET rec == name_records[n]
        IN  /\ rec.revoked <=> rec.op = "NAME_REVOKE"
            /\ rec.revoked => rec.value_hash = NoValue /\ is_namespace_ready(NamespaceOf[n])

\* The names of a namespace that is not ready were imported, and have the block
\* number and, unless they are from an earlier reveal, the token_fee that another
\* import finds.  One imported in this block was imported under a reveal that the
\* lookups show.
ImportsMatch ==
    \A n \in DOMAIN name_records :
        LET rec == name_records[n]
            ns == NamespaceOf[n]
        IN  is_namespace_ready(ns) \/
            /\ ns \in DOMAIN namespaces
            /\ rec.last_creation_op = "NAME_IMPORT"
            /\ rec.block_number = rec.first_registered
            /\ rec.token_fee = ImportFee(ns) \/ ImportedAtOtherPrice(n)
            /\ rec.first_registered = block_id => is_namespace_revealed(ns)

\* A namespace has a ready block once it is ready.
RevealsNotReady ==
    \A ns \in DOMAIN namespaces :
        namespaces[ns].op = "NAMESPACE_REVEAL" => namespaces[ns].ready_block = 0

\* What every step of the indexer keeps: the tables are well-formed, the rows of
\* the block being indexed are marked, preorders are used once, revoked names
\* are out of reach, imported names match, and the node stops only as
\* CommitFollowsCheck says.
IndInv ==
    /\ TypeOK /\ ops \in Seq(Operation)
    /\ NamesMarked /\ NamespacesMarked /\ PreordersMarked
    /\ RevokedForGood /\ PreorderUsedOnce
    /\ ImportsMatch /\ RevealsNotReady /\ CommitFollowsCheck

=============================================================================
