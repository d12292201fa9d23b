--------------------------- MODULE AtlasZonefiles ---------------------------
(***************************************************************************)
(* How the Python node finds out about zone files and hands them to the    *)
(* subdomain indexer (legacy/blockstack: lib/atlas.py, lib/queue.py,       *)
(* lib/subdomains.py, lib/nameset/virtualchain_hooks.py, blockstackd.py).  *)
(*                                                                         *)
(* Three threads share five stores.  The indexer takes one block at a time:*)
(* it adds the zone file hashes announced there to the Atlas table, rebuilds*)
(* the inventory in RAM, and works off the queue of discovered zone files. *)
(* The crawler fetches missing zone files from peers; an RPC client may    *)
(* push one.  Each of them writes the file, marks its rows present and then*)
(* appends to the queue, as three separate steps.  The Atlas table and the *)
(* inventory change under one lock; nothing else is locked across stores.  *)
(*                                                                         *)
(* A node that did not shut down properly moves its databases away and     *)
(* starts from its last backup.  The zone files are kept.                  *)
(***************************************************************************)
EXTENDS Subdomains

CONSTANTS
    Chains,         \* the sequences of announcements to consider
    QueueBatch,     \* queue entries taken in one block (1000)
    MaxFaults(_)    \* bound, for one chain of announcements, on the RPC calls,
                    \* crashes and orderly restarts of a behaviour together

ASSUME AnnouncementAssumption ==
    \A c \in Chains : \A i \in DOMAIN c :
        /\ c[i].hash \in Hash
        /\ c[i].name \in Name
        /\ c[i].block \in Nat \ {0}
        /\ i > 1 => c[i - 1].block <= c[i].block

ASSUME BoundAssumption ==
    /\ QueueBatch \in Nat \ {0}
    /\ \A c \in Chains : MaxFaults(c) \in Nat

VARIABLES
    height,         \* the last block committed by the name database
    present,        \* the Atlas table: the present flag of row i, announced i-th
    inventory,      \* ZONEFILE_INV: the bits set in RAM
    disk,           \* the zone files stored
    queue,          \* the queue of discovered zone files, oldest first
    table,          \* the subdomain table
    indexer,        \* the indexing thread
    crawler,        \* the zone file crawler thread
    client,         \* the thread that serves rpc_put_zonefiles
    backup,         \* the last backup of the databases
    recovery_end,   \* the end of the recovery range, 0 when there is none
    puts,           \* RPC calls made
    crashes,        \* crashes so far
    restarts        \* orderly restarts so far

dbs == <<present, queue, table>>
faults == <<puts, crashes, restarts>>
vars == <<chain, height, dbs, inventory, disk, indexer, crawler, client,
          backup, recovery_end, faults>>

----------------------------------------------------------------------------
Rows == DOMAIN present

\* The rows that announce a zone file: atlasdb_get_zonefile_bits.
RowsFor(hash) == {i \in Rows : chain[i].hash = hash}

\* The last block that announces a zone file; later ones are all alike.
LastBlock == Last(chain).block

MoreFaults == puts + crashes + restarts < MaxFaults(chain)

MinBlock(rows) == Min({chain[i].block : i \in rows})

Entry(hash, block) == [hash |-> hash, block |-> block]

IdleIndexer == [pc |-> "idle", cached |-> FALSE, found |-> <<>>, batch |-> <<>>]
IdleCrawler == [pc |-> "idle", todo |-> {}, fetch |-> {}, entry |-> {}]
IdleClient == [pc |-> "idle", entry |-> {}]

Init ==
    /\ chain \in Chains
    /\ height = 0
    /\ present = <<>> /\ inventory = {}
    /\ disk = {} /\ queue = <<>> /\ table = <<>>
    /\ indexer = IdleIndexer /\ crawler = IdleCrawler /\ client = IdleClient
    /\ backup = [height |-> 0, present |-> <<>>, queue |-> <<>>, table |-> <<>>]
    /\ recovery_end = 0 /\ puts = 0 /\ crashes = 0 /\ restarts = 0

----------------------------------------------------------------------------
(***************************************************************************)
(* The indexing thread: db_save for one block.                             *)
(***************************************************************************)

Step(pc) == indexer' = [indexer EXCEPT !.pc = pc]

\* The next announcement to add to the Atlas table is in this block.
MoreToAdd == Len(present) < Len(chain) /\ chain[Len(present) + 1].block = height

NextAnnounced == chain[Len(present) + 1].hash

\* The state engine commits the next block.  Blocks past LastBlock announce
\* nothing; they still work off the queue.
NewBlock ==
    /\ indexer.pc = "idle"
    /\ height' = IF height < LastBlock THEN height + 1 ELSE height
    /\ indexer' = [IdleIndexer EXCEPT !.pc = "check"]
    /\ UNCHANGED <<chain, dbs, inventory, disk, crawler, client, backup,
                   recovery_end, faults>>

\* atlasdb_queue_zonefiles looks for the file of the next announcement ...
CheckCached ==
    /\ indexer.pc = "check"
    /\ MoreToAdd
    /\ indexer' = [indexer EXCEPT !.pc = "add", !.cached = NextAnnounced \in disk]
    /\ UNCHANGED <<chain, height, dbs, inventory, disk, crawler, client, backup,
                   recovery_end, faults>>

\* ... and atlasdb_add_zonefile_info adds the row, and sets every bit of the
\* hash to the new row's flag.
AddZonefileInfo ==
    /\ indexer.pc = "add"
    /\ LET hash == NextAnnounced
           bits == RowsFor(hash) \cup {Len(present) + 1}
       IN /\ present' = Append(present, indexer.cached)
          /\ inventory' = IF indexer.cached THEN inventory \cup bits ELSE inventory \ bits
          /\ indexer' = [indexer EXCEPT !.pc = "check",
                            !.found = IF indexer.cached
                                      THEN Append(@, Entry(hash, height)) ELSE @]
    /\ UNCHANGED <<chain, height, queue, table, disk, crawler, client, backup,
                   recovery_end, faults>>

\* With a defect: the inventory is left as the additions made it.
KeepInventory ==
    /\ indexer.pc = "check"
    /\ ~MoreToAdd
    /\ Step("tell")
    /\ UNCHANGED <<chain, height, dbs, inventory, disk, crawler, client, backup,
                   recovery_end, faults>>

\* atlasdb_cache_zonefile_info rebuilds the inventory from the table.
CacheInventory ==
    /\ indexer.pc = "check"
    /\ ~MoreToAdd
    /\ inventory' = {i \in Rows : present[i]}
    /\ Step("tell")
    /\ UNCHANGED <<chain, height, dbs, disk, crawler, client, backup,
                   recovery_end, faults>>

\* atlasdb_sync_zonefiles queues the zone files it already had.
TellFound ==
    /\ indexer.pc = "tell"
    /\ indexer.found # <<>>
    /\ queue' = Append(queue, Head(indexer.found))
    /\ indexer' = [indexer EXCEPT !.found = Tail(@)]
    /\ UNCHANGED <<chain, height, present, table, inventory, disk, crawler, client,
                   backup, recovery_end, faults>>

\* With a defect: the queue is left alone until it holds a full batch.
WaitForBatch ==
    /\ indexer.pc = "tell"
    /\ indexer.found = <<>>
    /\ indexer' = [indexer EXCEPT !.pc = IF Len(queue) < QueueBatch THEN "idle" ELSE "index",
                                  !.batch = SubSeq(queue, 1, Min({QueueBatch, Len(queue)}))]
    /\ UNCHANGED <<chain, height, dbs, inventory, disk, crawler, client, backup,
                   recovery_end, faults>>

\* index_discovered_zonefiles reads the queue ...
ReadQueue ==
    /\ indexer.pc = "tell"
    /\ indexer.found = <<>>
    /\ indexer' = [indexer EXCEPT !.pc = IF queue = <<>> THEN "idle" ELSE "index",
                                  !.batch = SubSeq(queue, 1, Min({QueueBatch, Len(queue)}))]
    /\ UNCHANGED <<chain, height, dbs, inventory, disk, crawler, client, backup,
                   recovery_end, faults>>

\* With a defect: the zone files of the batch, and not the later ones of their names.
DiscoveredRows(batch) ==
    {i \in Rows : \E e \in ToSet(batch) : chain[i].hash = e.hash /\ chain[i].block = e.block}

\* The rows of a name from the first block at which the batch discovered a zone
\* file of it, up to the current block.
RowsToIndex(batch) ==
    LET Sent(name) == {e \in ToSet(batch) :
                          \E i \in RowsFor(e.hash) : chain[i].name = name
                                                     /\ chain[i].block = e.block}
    IN {i \in Rows : /\ Sent(chain[i].name) # {}
                     /\ chain[i].block >= Min({e.block : e \in Sent(chain[i].name)})
                     /\ chain[i].block <= height}

\* One process_subdomains call per subdomain, over the zone files with records
\* for it that no earlier call took; by block, and within one by name.
IndexSubdomains(rows, fqns, names) ==
    LET At(i) == CHOOSE p \in DOMAIN names : names[p] = chain[i].name
        Earlier(i, j) == \/ chain[i].block < chain[j].block
                         \/ /\ chain[i].block = chain[j].block
                            /\ At(i) < At(j) \/ (At(i) = At(j) /\ i < j)
        Call(st, fqn) ==
            LET mine == {i \in rows : /\ <<fqn, i>> \in KeysAt(i)
                                      /\ chain[i].hash \notin st.processed}
            IN IF mine = {} THEN st
               ELSE [table |-> ProcessSubdomains(st.table, SetToSortSeq(mine, Earlier)),
                     processed |-> st.processed \cup {chain[i].hash : i \in mine}]
    IN FoldLeft(Call, [table |-> table, processed |-> {}], fqns).table

\* ... indexes the names it concerns, from the files then on disk (the
\* dictionaries of subdomains and of names are walked in any order) ...
IndexDiscovered ==
    /\ indexer.pc = "index"
    /\ LET rows == {i \in RowsToIndex(indexer.batch) : chain[i].hash \in disk}
       IN table' \in {IndexSubdomains(rows, fqns, names) :
                         fqns \in SetToSeqs(Subdomain),
                         names \in SetToSeqs({chain[i].name : i \in rows})}
    /\ Step("clear")
    /\ UNCHANGED <<chain, height, present, queue, inventory, disk, crawler, client,
                   backup, recovery_end, faults>>

\* With a defect: the whole queue is dropped.
DropQueue ==
    /\ indexer.pc = "clear"
    /\ queue' = <<>>
    /\ indexer' = IdleIndexer
    /\ UNCHANGED <<chain, height, present, table, inventory, disk, crawler, client,
                   backup, recovery_end, faults>>

\* ... and removes from the queue every entry with a hash it has read.
ClearQueue ==
    /\ indexer.pc = "clear"
    /\ LET hashes == {e.hash : e \in ToSet(indexer.batch)}
       IN queue' = SelectSeq(queue, LAMBDA e : e.hash \notin hashes)
    /\ indexer' = IdleIndexer
    /\ UNCHANGED <<chain, height, present, table, inventory, disk, crawler, client,
                   backup, recovery_end, faults>>

----------------------------------------------------------------------------
(***************************************************************************)
(* The crawler thread and the RPC client.                                  *)
(***************************************************************************)

\* atlasdb_set_zonefile_present: under the inventory lock, every row and every
\* bit of the hash is set; the answer is whether all bits were set before.
SetZonefilePresent(hash) ==
    /\ present' = [i \in Rows |-> present[i] \/ i \in RowsFor(hash)]
    /\ inventory' = inventory \cup RowsFor(hash)

WasPresent(hash) == RowsFor(hash) \subseteq inventory

\* A crawler step starts from the rows that are missing a zone file, and
\* remembers for each hash the lowest of their blocks.
FindMissing ==
    LET missing == {i \in Rows : ~present[i]}
        Missing(hash) == {i \in missing : chain[i].hash = hash}
    IN /\ crawler.pc = "idle"
       /\ missing # {}
       /\ crawler' = [IdleCrawler EXCEPT
              !.pc = "scan",
              !.todo = {Entry(chain[i].hash, MinBlock(Missing(chain[i].hash))) : i \in missing}]
       /\ UNCHANGED <<chain, height, dbs, inventory, disk, indexer, client, backup,
                      recovery_end, faults>>

\* First it goes through them for files that are already on disk ...
ScanZonefile ==
    /\ crawler.pc = "scan"
    /\ \E e \in crawler.todo :
          crawler' = IF e.hash \in disk
                     THEN [crawler EXCEPT !.pc = "mark", !.todo = @ \ {e}, !.entry = {e}]
                     ELSE [crawler EXCEPT !.todo = @ \ {e}, !.fetch = @ \cup {e}]
    /\ UNCHANGED <<chain, height, dbs, inventory, disk, indexer, client, backup,
                   recovery_end, faults>>

\* With a defect: a file that could not be stored is marked like one that was.
FetchUnstored ==
    /\ crawler.pc = "scan"
    /\ crawler.todo = {}
    /\ \E e \in crawler.fetch :
          /\ disk' \in {disk, disk \cup {e.hash}}
          /\ crawler' = [crawler EXCEPT !.pc = "mark", !.fetch = @ \ {e}, !.entry = {e}]
    /\ UNCHANGED <<chain, height, dbs, inventory, indexer, client, backup,
                   recovery_end, faults>>

\* ... then it asks peers for the others, and stores what one of them serves ...
FetchZonefile ==
    /\ crawler.pc = "scan"
    /\ crawler.todo = {}
    /\ \E e \in crawler.fetch :
          /\ disk' = disk \cup {e.hash}
          /\ crawler' = [crawler EXCEPT !.pc = "mark", !.fetch = @ \ {e}, !.entry = {e}]
    /\ UNCHANGED <<chain, height, dbs, inventory, indexer, client, backup,
                   recovery_end, faults>>

\* ... until it has them all, or no peer serves the rest.
EndOfStep ==
    /\ crawler.pc = "scan"
    /\ crawler.todo = {}
    /\ crawler' = IdleCrawler
    /\ UNCHANGED <<chain, height, dbs, inventory, disk, indexer, client, backup,
                   recovery_end, faults>>

\* AtlasZonefileCrawler.set_zonefile_present: only a file that was not present
\* before is passed to the subdomain indexer.
CrawlerMark ==
    /\ crawler.pc = "mark"
    /\ \E e \in crawler.entry :
          /\ SetZonefilePresent(e.hash)
          /\ crawler' = IF WasPresent(e.hash)
                        THEN [crawler EXCEPT !.pc = "scan", !.entry = {}]
                        ELSE [crawler EXCEPT !.pc = "tell"]
    /\ UNCHANGED <<chain, height, queue, table, disk, indexer, client, backup,
                   recovery_end, faults>>

\* SubdomainIndex.enqueue_zonefile.
CrawlerTell ==
    /\ crawler.pc = "tell"
    /\ \E e \in crawler.entry : queue' = Append(queue, e)
    /\ crawler' = [crawler EXCEPT !.pc = "scan", !.entry = {}]
    /\ UNCHANGED <<chain, height, present, table, inventory, disk, indexer, client,
                   backup, recovery_end, faults>>

\* rpc_put_zonefiles, for an announced hash: store the file ...
PutZonefile ==
    /\ client.pc = "idle"
    /\ MoreFaults
    /\ \E hash \in Hash :
          /\ RowsFor(hash) # {}
          /\ client' = [pc |-> "mark", entry |-> {Entry(hash, MinBlock(RowsFor(hash)))}]
          /\ disk' = disk \cup {hash}
    /\ puts' = puts + 1
    /\ UNCHANGED <<chain, height, dbs, inventory, indexer, crawler, backup,
                   recovery_end, crashes, restarts>>

\* ... mark it present, and go no further with a file that already was when the
\* node has left its recovery range ...
ClientMark ==
    /\ client.pc = "mark"
    /\ \E e \in client.entry :
          /\ SetZonefilePresent(e.hash)
          /\ client' = IF WasPresent(e.hash) /\ recovery_end # 0 /\ recovery_end < height
                       THEN IdleClient
                       ELSE [client EXCEPT !.pc = "tell"]
    /\ UNCHANGED <<chain, height, queue, table, disk, indexer, crawler, backup,
                   recovery_end, faults>>

\* ... and queue it.
ClientTell ==
    /\ client.pc = "tell"
    /\ \E e \in client.entry : queue' = Append(queue, e)
    /\ client' = IdleClient
    /\ UNCHANGED <<chain, height, present, table, inventory, disk, indexer, crawler,
                   backup, recovery_end, faults>>

----------------------------------------------------------------------------
(***************************************************************************)
(* Backups and restarts.                                                   *)
(***************************************************************************)

\* The state engine backs up its databases on the indexing thread, between two
\* blocks.  The other threads are not stopped for it.
Backup ==
    /\ indexer.pc = "idle"
    /\ MoreFaults
    /\ backup' = [height |-> height, present |-> present, queue |-> queue, table |-> table]
    /\ UNCHANGED <<chain, height, dbs, inventory, disk, indexer, crawler, client,
                   recovery_end, faults>>

\* atlasdb_init: the rows of the last block in the Atlas table are added again,
\* as absent when recovering and as what the disk says otherwise; then the
\* inventory is rebuilt.
AtlasInit(rows, recover) ==
    LET last == Max({chain[i].block : i \in DOMAIN rows})
    IN [i \in DOMAIN rows |-> IF chain[i].block < last THEN rows[i]
                              ELSE ~recover /\ chain[i].hash \in disk]

\* The process dies.  On the next start the databases come from the backup, and
\* the blocks up to the present one become the recovery range.
CrashAndRestore ==
    /\ MoreFaults
    /\ crashes' = crashes + 1
    /\ height' = backup.height
    /\ present' = AtlasInit(backup.present, TRUE)
    /\ inventory' = {i \in DOMAIN present' : present'[i]}
    /\ queue' = backup.queue
    /\ table' = backup.table
    /\ recovery_end' \in height..LastBlock
    /\ indexer' = IdleIndexer /\ crawler' = IdleCrawler /\ client' = IdleClient
    /\ UNCHANGED <<chain, disk, backup, puts, restarts>>

\* An orderly stop, each thread having finished what it was doing, and a start.
CleanRestart ==
    /\ indexer.pc = "idle" /\ crawler.pc = "idle" /\ client.pc = "idle"
    /\ MoreFaults
    /\ restarts' = restarts + 1
    /\ LET recover == recovery_end # 0 /\ height <= recovery_end
       IN /\ present' = AtlasInit(present, recover)
          /\ recovery_end' = IF recover THEN recovery_end ELSE 0
    /\ inventory' = {i \in Rows : present'[i]}
    /\ UNCHANGED <<chain, height, queue, table, disk, indexer, crawler, client,
                   backup, puts, crashes>>

----------------------------------------------------------------------------
IndexerNext ==
    \/ NewBlock \/ CheckCached \/ AddZonefileInfo \/ CacheInventory
    \/ TellFound \/ ReadQueue \/ ClearQueue

CrawlerNext ==
    \/ FindMissing \/ ScanZonefile \/ FetchZonefile \/ EndOfStep
    \/ CrawlerMark \/ CrawlerTell

ClientMore == ClientMark \/ ClientTell

Next ==
    \/ IndexerNext \/ IndexDiscovered \/ CrawlerNext \/ PutZonefile \/ ClientMore
    \/ Backup \/ CrashAndRestore \/ CleanRestart

\* What IndexDiscovered does to its own thread; no other step does it.
EndOfPass == indexer.pc = "index" /\ Step("clear")

\* Blocks keep coming, and each thread keeps running: the crawler and the
\* indexer loop for ever, and an RPC call that was started is finished.
Fairness ==
    /\ WF_vars(IndexerNext) /\ WF_indexer(EndOfPass)
    /\ WF_vars(CrawlerNext) /\ WF_vars(ClientMore)

Spec == Init /\ [][Next]_vars /\ Fairness

----------------------------------------------------------------------------
(***************************************************************************)
(* Properties.                                                             *)
(***************************************************************************)

\* A bit of the inventory, which peers fetch and act on, is set only for a zone
\* file that is on disk: with two threads setting bits and a third rebuilding
\* the vector, and across a restore that keeps the files but not the table.
InventoryHonest == \A i \in inventory : chain[i].hash \in disk

\* Outside atlasdb_sync_zonefiles the inventory is the present column, although
\* every addition flips the bits of other rows too.
InventoryCoherent ==
    indexer.pc \notin {"add", "check"} => inventory = {i \in Rows : present[i]}

\* What makes the two inductive: a row is marked present, in the table or in a
\* backup of it, only when the file is stored, and so a thread on its way to
\* mark one has stored it.
ThreadShapes ==
    /\ indexer = [pc |-> indexer.pc, cached |-> indexer.cached,
                  found |-> indexer.found, batch |-> indexer.batch]
    /\ crawler = [pc |-> crawler.pc, todo |-> crawler.todo,
                  fetch |-> crawler.fetch, entry |-> crawler.entry]
    /\ client = [pc |-> client.pc, entry |-> client.entry]

TypeOK ==
    /\ present \in Seq(BOOLEAN) /\ backup.present \in Seq(BOOLEAN)
    /\ inventory \subseteq Rows
    /\ ThreadShapes /\ indexer.cached \in BOOLEAN

StoredFirst ==
    /\ \A i \in Rows : present[i] => chain[i].hash \in disk
    /\ \A i \in DOMAIN backup.present : backup.present[i] => chain[i].hash \in disk
    /\ indexer.pc = "add" /\ indexer.cached => NextAnnounced \in disk
    /\ crawler.pc = "mark" => \A e \in crawler.entry : e.hash \in disk
    /\ client.pc = "mark" => \A e \in client.entry : e.hash \in disk

IndInv == TypeOK /\ StoredFirst /\ InventoryHonest /\ InventoryCoherent

\* The table SubdomainIndex.reindex would build from the given rows (it takes
\* them 100 blocks at a time; the instances are shorter than that).
Reindex(rows) == ProcessSubdomains(<<>>, SetToSortSeq(rows, <))

\* Every record of the subdomain is in a zone file of the name it ends in.  The
\* zone files of one name are indexed together, from the oldest that turned up to
\* the newest; those of another name are not.
AtHome(fqn) == \A i \in DOMAIN chain : <<fqn, i>> \in KeysAt(i) => ~Independent(<<fqn, i>>)

\* Whatever the order in which zone files arrive and are indexed, the records of
\* a subdomain at home that are accepted are the ones a fresh index of the same
\* zone files accepts: indexing the later zone files of its name again leaves no
\* stale flag behind, for all the short cuts of subdomain_try_insert.  With an
\* update in a zone file of another name one may be left: when the creation is
\* indexed again, without that file, it is not accepted again.
TableAgreesWithReindex ==
    indexer.pc = "clear" =>
        LET fresh == Reindex({k[2] : k \in DOMAIN table})
        IN /\ DOMAIN table = DOMAIN fresh
           /\ \A k \in DOMAIN table : AtHome(k[1]) => table[k] = fresh[k]

\* The accepted records of a subdomain, in order.
History(fqn) == InOrder({k \in DOMAIN table : k[1] = fqn /\ table[k]})

\* After every pass each accepted record of a subdomain is the legal successor of
\* the one before, so never two with one sequence number and never a gap, in
\* whatever zone files they are; and the first is a proper creation when the
\* subdomain is at home.
AcceptedSucceed ==
    indexer.pc = "clear" =>
        \A fqn \in Subdomain : \A i \in DOMAIN History(fqn) :
            IF i = 1 THEN AtHome(fqn) => CheckInitialSubdomain(History(fqn)[1])
            ELSE CheckSubdomainTransition(History(fqn)[i - 1], History(fqn)[i])

\* What the documentation says of every subdomain: its first accepted record is a
\* proper creation, and each later one the legal successor of the one before.
AcceptedIsAHistory ==
    indexer.pc = "clear" =>
        \A fqn \in Subdomain : \A i \in DOMAIN History(fqn) :
            IF i = 1 THEN CheckInitialSubdomain(History(fqn)[1])
            ELSE CheckSubdomainTransition(History(fqn)[i - 1], History(fqn)[i])

\* The records announced at row i are in the subdomain table.
Indexed(i) == KeysAt(i) \subseteq DOMAIN table

\* Once the node has every zone file its name announced up to a record of a
\* subdomain at home, the record, if accepted, stays accepted: only older zone
\* files that were still missing may unseat it.  (A crash goes back to an older
\* table.  A creation that is indexed again after an update in a zone file of
\* another name is unseated by it.)
FinalOnceComplete ==
    [][crashes' = crashes =>
          \A k \in DOMAIN table :
             /\ table[k] /\ AtHome(k[1])
             /\ \A i \in 1..k[2] : chain[i].name = chain[k[2]].name => Indexed(i)
             => k \in DOMAIN table' /\ table'[k]]_table

\* Somebody still has to index this zone file: it is queued, or a thread is
\* about to queue it or to index it.
Pending(hash) ==
    \/ \E e \in ToSet(queue) \cup ToSet(indexer.found) \cup ToSet(indexer.batch)
                 \cup crawler.entry \cup client.entry : e.hash = hash
    \/ indexer.pc = "add" /\ indexer.cached /\ NextAnnounced = hash

\* A zone file marked present, which nobody will fetch again, has been indexed
\* or is pending.
EveryZonefileAccountedFor ==
    \A i \in Rows : present[i] =>
        Pending(chain[i].hash) \/ \E j \in RowsFor(chain[i].hash) : Indexed(j)

\* No zone file slips between the crawler, the RPC client and the indexer: the
\* file, the row and the queue are written by separate steps, and the queue is
\* cleared by hash after the pass that read it.
NoZonefileLost == crashes = 0 => EveryZonefileAccountedFor

\* Every zone file on disk is indexed in the end, unless the node crashes.
EventuallyIndexed ==
    \A hash \in Hash : hash \in disk ~> (crashes > 0 \/ \E i \in RowsFor(hash) : Indexed(i))
=============================================================================
