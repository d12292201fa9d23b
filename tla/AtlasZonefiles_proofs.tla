------------------------ MODULE AtlasZonefiles_proofs ------------------------
(***************************************************************************)
(* The inventory that the Python node shows to its peers promises only     *)
(* zone files that it has, for every chain of announcements and with any   *)
(* number of RPC calls, crashes and restarts.                              *)
(***************************************************************************)
EXTENDS AtlasZonefiles, TLAPS

-----------------------------------------------------------------------------
(***************************************************************************)
(* The steps.                                                              *)
(***************************************************************************)

\* A node that has announced nothing and stored nothing.
LEMMA InitInv == Init => IndInv
<1> SUFFICES ASSUME Init
             PROVE  IndInv
    OBVIOUS
<1>1. present = <<>> /\ inventory = {} /\ backup.present = <<>> /\ Rows = {}
    BY DEF Init, Rows
<1>2. indexer.pc = "idle" /\ crawler.pc = "idle" /\ client.pc = "idle"
    BY DEF Init, IdleIndexer, IdleCrawler, IdleClient
<1>3. TypeOK
    BY <1>1 DEF Init, TypeOK, ThreadShapes, IdleIndexer, IdleCrawler, IdleClient
<1>4. StoredFirst
    BY <1>1, <1>2 DEF StoredFirst
<1>5. InventoryHonest /\ InventoryCoherent
    BY <1>1 DEF InventoryHonest, InventoryCoherent
<1>. QED BY <1>3, <1>4, <1>5 DEF IndInv

\* Storing a file, and any move of the threads that respects StoredFirst,
\* leaves the table and the inventory as they are.
LEMMA StoresFrame ==
    ASSUME IndInv, UNCHANGED <<chain, present, inventory, backup>>, disk \subseteq disk',
           ThreadShapes', indexer'.cached \in BOOLEAN,
           indexer'.pc \notin {"add", "check"} => indexer.pc \notin {"add", "check"},
           indexer'.pc = "add" /\ indexer'.cached => NextAnnounced \in disk',
           crawler'.pc = "mark" => \A e \in crawler'.entry : e.hash \in disk',
           client'.pc = "mark" => \A e \in client'.entry : e.hash \in disk'
    PROVE  IndInv'
<1>1. TypeOK'
    BY DEF IndInv, TypeOK, Rows
<1>2. StoredFirst'
    BY DEF IndInv, StoredFirst, Rows, NextAnnounced
<1>3. InventoryHonest' /\ InventoryCoherent'
    BY DEF IndInv, InventoryHonest, InventoryCoherent, Rows
<1>. QED BY <1>1, <1>2, <1>3 DEF IndInv

\* atlasdb_set_zonefile_present, for a file that is stored.
LEMMA MarkKeeps ==
    ASSUME IndInv, NEW hash \in disk, SetZonefilePresent(hash), UNCHANGED <<chain, disk>>
    PROVE  /\ present' \in Seq(BOOLEAN) /\ Len(present') = Len(present) /\ Rows' = Rows
           /\ inventory' \subseteq Rows
           /\ \A i \in Rows : present'[i] => chain[i].hash \in disk
           /\ \A i \in inventory' : chain[i].hash \in disk
           /\ inventory = {i \in Rows : present[i]} => inventory' = {i \in Rows : present'[i]}
<1>1. /\ present \in Seq(BOOLEAN) /\ Rows = 1..Len(present) /\ Len(present) \in Nat
      /\ \A i \in Rows : present[i] \in BOOLEAN
    BY DEF IndInv, TypeOK, Rows
<1>2. /\ present' = [i \in Rows |-> present[i] \/ i \in RowsFor(hash)]
      /\ inventory' = inventory \cup RowsFor(hash)
    BY DEF SetZonefilePresent
<1>3. \A i : i \in RowsFor(hash) <=> i \in Rows /\ chain[i].hash = hash
    BY DEF RowsFor
<1>4. present' \in Seq(BOOLEAN) /\ Len(present') = Len(present) /\ Rows' = Rows
    BY <1>1, <1>2 DEF Rows
<1>5. inventory' \subseteq Rows
    BY <1>2, <1>3 DEF IndInv, TypeOK
<1>6. /\ \A i \in Rows : present'[i] => chain[i].hash \in disk
      /\ \A i \in inventory' : chain[i].hash \in disk
    BY <1>2, <1>3, Zenon DEF IndInv, StoredFirst, InventoryHonest
<1>7. ASSUME inventory = {i \in Rows : present[i]}
      PROVE  inventory' = {i \in Rows : present'[i]}
    BY <1>2, <1>3, <1>7, Zenon
<1>. QED BY <1>4, <1>5, <1>6, <1>7

\* The crawler and the RPC client mark a file that they have stored.
LEMMA MarkInv ==
    ASSUME IndInv, CrawlerMark \/ ClientMark
    PROVE  IndInv'
<1>1. UNCHANGED <<chain, disk, indexer, backup>> /\ \E hash \in disk : SetZonefilePresent(hash)
  <2>1. CASE CrawlerMark
    <3>1. PICK e \in crawler.entry : SetZonefilePresent(e.hash)
        BY <2>1 DEF CrawlerMark
    <3>2. e.hash \in disk
        BY <2>1 DEF CrawlerMark, IndInv, StoredFirst
    <3>. QED BY <2>1, <3>1, <3>2 DEF CrawlerMark
  <2>2. CASE ClientMark
    <3>1. PICK e \in client.entry : SetZonefilePresent(e.hash)
        BY <2>2 DEF ClientMark
    <3>2. e.hash \in disk
        BY <2>2 DEF ClientMark, IndInv, StoredFirst
    <3>. QED BY <2>2, <3>1, <3>2 DEF ClientMark
  <2>. QED BY <2>1, <2>2
<1>2. ThreadShapes' /\ (crawler'.pc = "mark" => crawler' = crawler) /\ (client'.pc = "mark" => client' = client)
  <2>1. CASE CrawlerMark
    BY <2>1, Zenon DEF CrawlerMark, IndInv, TypeOK, ThreadShapes
  <2>2. CASE ClientMark
    <3>1. /\ UNCHANGED <<indexer, crawler>>
          /\ client' = IdleClient \/ client' = [client EXCEPT !.pc = "tell"]
        BY <2>2, Zenon DEF ClientMark
    <3>. QED BY <3>1 DEF IndInv, TypeOK, ThreadShapes, IdleClient
  <2>. QED BY <2>1, <2>2
<1>3. PICK hash \in disk : SetZonefilePresent(hash)
    BY <1>1
<1>4. /\ present' \in Seq(BOOLEAN) /\ Len(present') = Len(present) /\ Rows' = Rows
      /\ inventory' \subseteq Rows
      /\ \A i \in Rows : present'[i] => chain[i].hash \in disk
      /\ \A i \in inventory' : chain[i].hash \in disk
      /\ inventory = {i \in Rows : present[i]} => inventory' = {i \in Rows : present'[i]}
    BY <1>1, <1>3, MarkKeeps
<1>5. TypeOK'
    BY <1>1, <1>2, <1>4 DEF IndInv, TypeOK
<1>6. StoredFirst'
    BY <1>1, <1>2, <1>4 DEF IndInv, StoredFirst, NextAnnounced
<1>7. InventoryHonest' /\ InventoryCoherent'
    BY <1>1, <1>4 DEF IndInv, InventoryHonest, InventoryCoherent
<1>. QED BY <1>5, <1>6, <1>7 DEF IndInv

\* atlasdb_add_zonefile_info: the row of the next announcement, and the bits
\* of all rows of its hash.
LEMMA AddInv ==
    ASSUME IndInv, AddZonefileInfo
    PROVE  IndInv'
<1> DEFINE new == Len(present) + 1
           bits == RowsFor(NextAnnounced) \cup {new}
<1>1. /\ indexer.pc = "add" /\ present' = Append(present, indexer.cached)
      /\ inventory' = IF indexer.cached THEN inventory \cup bits ELSE inventory \ bits
      /\ UNCHANGED <<chain, disk, crawler, client, backup>>
    BY DEF AddZonefileInfo
<1>2. ThreadShapes' /\ indexer'.pc = "check" /\ indexer'.cached \in BOOLEAN
    BY Zenon DEF AddZonefileInfo, IndInv, TypeOK, ThreadShapes
<1>3. /\ present' \in Seq(BOOLEAN) /\ Len(present') = new /\ Len(present) \in Nat
      /\ Rows' = Rows \cup {new} /\ present'[new] = indexer.cached
      /\ \A i \in Rows : present'[i] = present[i]
    BY <1>1 DEF IndInv, TypeOK, Rows
<1>4. \A i \in bits : i \in Rows' /\ chain[i].hash = NextAnnounced
    BY <1>3 DEF RowsFor, NextAnnounced
<1>5. indexer.cached => NextAnnounced \in disk
    BY <1>1 DEF IndInv, StoredFirst
<1> HIDE DEF bits
<1>6. inventory' \subseteq Rows' /\ \A i \in inventory' : chain[i].hash \in disk
    BY <1>1, <1>3, <1>4, <1>5 DEF IndInv, TypeOK, InventoryHonest
<1>7. chain[new].hash = NextAnnounced
    BY DEF NextAnnounced
<1> HIDE DEF new
<1>8. \A i \in Rows' : present'[i] => chain[i].hash \in disk
    BY <1>3, <1>5, <1>7 DEF IndInv, StoredFirst
<1>9. TypeOK'
    BY <1>1, <1>2, <1>3, <1>6, SMTT(30) DEF IndInv, TypeOK
<1>10. StoredFirst'
    BY <1>1, <1>2, <1>8, Zenon DEF IndInv, StoredFirst
<1>11. InventoryHonest' /\ InventoryCoherent'
    BY <1>1, <1>2, <1>6 DEF InventoryHonest, InventoryCoherent
<1>. QED BY <1>9, <1>10, <1>11 DEF IndInv

\* atlasdb_cache_zonefile_info, and the backup of the table.
LEMMA CopyInv ==
    ASSUME IndInv, CacheInventory \/ Backup
    PROVE  IndInv'
<1>1. CASE CacheInventory
  <2>1. /\ inventory' = {i \in Rows : present[i]} /\ Step("tell")
        /\ UNCHANGED <<chain, present, disk, crawler, client, backup>>
    BY <1>1 DEF CacheInventory, dbs
  <2>2. ThreadShapes' /\ indexer'.pc = "tell" /\ indexer'.cached \in BOOLEAN
    BY <2>1 DEF Step, IndInv, TypeOK, ThreadShapes
  <2>3. TypeOK'
    BY <2>1, <2>2 DEF IndInv, TypeOK, Rows
  <2>4. StoredFirst'
    BY <2>1, <2>2, SMTT(30) DEF IndInv, StoredFirst, Rows
  <2>5. InventoryHonest' /\ InventoryCoherent'
    BY <2>1 DEF IndInv, StoredFirst, InventoryHonest, InventoryCoherent, Rows
  <2>. QED BY <2>3, <2>4, <2>5 DEF IndInv
<1>2. CASE Backup
  <2>1. /\ backup'.present = present
        /\ UNCHANGED <<chain, present, inventory, disk, indexer, crawler, client>>
    BY <1>2 DEF Backup, dbs
  <2>2. TypeOK'
    BY <2>1 DEF IndInv, TypeOK, Rows, ThreadShapes
  <2>3. StoredFirst'
    BY <2>1 DEF IndInv, StoredFirst, Rows, NextAnnounced
  <2>4. InventoryHonest' /\ InventoryCoherent'
    BY <2>1 DEF IndInv, InventoryHonest, InventoryCoherent, Rows
  <2>. QED BY <2>2, <2>3, <2>4 DEF IndInv
<1>. QED BY <1>1, <1>2

\* atlasdb_init sets the flag of a row only for a file on disk.
LEMMA AtlasInitKeeps ==
    ASSUME NEW rows \in Seq(BOOLEAN), NEW recover \in BOOLEAN,
           \A i \in DOMAIN rows : rows[i] => chain[i].hash \in disk
    PROVE  /\ AtlasInit(rows, recover) \in Seq(BOOLEAN)
           /\ DOMAIN AtlasInit(rows, recover) = DOMAIN rows
           /\ \A i \in DOMAIN rows : AtlasInit(rows, recover)[i] => chain[i].hash \in disk
<1> DEFINE last == Max({chain[i].block : i \in DOMAIN rows})
           Flag(i) == IF chain[i].block < last THEN rows[i] ELSE ~recover /\ chain[i].hash \in disk
<1>1. AtlasInit(rows, recover) = [i \in DOMAIN rows |-> Flag(i)]
    BY DEF AtlasInit
<1>2. \A i \in DOMAIN rows : Flag(i) \in BOOLEAN /\ (Flag(i) => chain[i].hash \in disk)
  <2>1. \A i \in DOMAIN rows : rows[i] \in BOOLEAN
    OBVIOUS
  <2> SUFFICES ASSUME NEW i \in DOMAIN rows
               PROVE  Flag(i) \in BOOLEAN /\ (Flag(i) => chain[i].hash \in disk)
    OBVIOUS
  <2>2. Flag(i) = rows[i] \/ Flag(i) = (~recover /\ chain[i].hash \in disk)
    BY ZenonT(30)
  <2> HIDE DEF Flag
  <2>. QED BY <2>1, <2>2, Zenon
<1> HIDE DEF Flag
<1>. QED BY <1>1, <1>2

\* A start of the node, from the backup or from its own databases.
LEMMA StartInv ==
    ASSUME IndInv, CrashAndRestore \/ CleanRestart
    PROVE  IndInv'
<1>1. /\ UNCHANGED <<chain, disk, backup>> /\ ThreadShapes' /\ indexer'.cached \in BOOLEAN
      /\ indexer'.pc = "idle" /\ crawler'.pc = "idle" /\ client'.pc = "idle"
  <2>1. CASE CrashAndRestore
    <3>1. /\ UNCHANGED <<chain, disk, backup>>
          /\ indexer' = IdleIndexer /\ crawler' = IdleCrawler /\ client' = IdleClient
        BY <2>1, Zenon DEF CrashAndRestore
    <3>. QED BY <3>1 DEF IdleIndexer, IdleCrawler, IdleClient, ThreadShapes
  <2>2. CASE CleanRestart
    <3>1. /\ UNCHANGED <<chain, disk, backup, indexer, crawler, client>>
          /\ indexer.pc = "idle" /\ crawler.pc = "idle" /\ client.pc = "idle"
        BY <2>2, Zenon DEF CleanRestart
    <3>. QED BY <3>1 DEF IndInv, TypeOK, ThreadShapes
  <2>. QED BY <2>1, <2>2
<1>2. \E rows \in {present, backup.present}, recover \in BOOLEAN : present' = AtlasInit(rows, recover)
    BY Zenon DEF CrashAndRestore, CleanRestart
<1>3. inventory' = {i \in DOMAIN present' : present'[i]}
  <2>1. CASE CrashAndRestore
    BY <2>1 DEF CrashAndRestore
  <2>2. CASE CleanRestart
    BY <2>2, <1>1 DEF CleanRestart, AtlasInit, Rows
  <2>. QED BY <2>1, <2>2
<1>4. present' \in Seq(BOOLEAN) /\ \A i \in DOMAIN present' : present'[i] => chain[i].hash \in disk
  <2>1. PICK rows \in {present, backup.present}, recover \in BOOLEAN : present' = AtlasInit(rows, recover)
    BY <1>2
  <2>2. rows \in Seq(BOOLEAN) /\ \A i \in DOMAIN rows : rows[i] => chain[i].hash \in disk
    BY DEF IndInv, TypeOK, StoredFirst, Rows
  <2>. QED BY <2>1, <2>2, AtlasInitKeeps, ZenonT(30)
<1>5. TypeOK'
    BY <1>1, <1>3, <1>4, SMTT(30) DEF IndInv, TypeOK, Rows
<1>6. StoredFirst'
    BY <1>1, <1>4 DEF IndInv, StoredFirst, Rows
<1>7. InventoryHonest' /\ InventoryCoherent'
    BY <1>1, <1>3, <1>4, SMTT(30) DEF InventoryHonest, InventoryCoherent, Rows
<1>. QED BY <1>5, <1>6, <1>7 DEF IndInv

\* The other steps of the indexing thread write no flag and no bit.
LEMMA IndexerInv ==
    ASSUME IndInv,
           NewBlock \/ CheckCached \/ TellFound \/ ReadQueue \/ IndexDiscovered \/ ClearQueue
    PROVE  IndInv'
<1> USE DEF IndInv, TypeOK, ThreadShapes
<1>1. CASE NewBlock
  <2>1. /\ UNCHANGED <<chain, present, inventory, backup, disk, crawler, client>>
        /\ ThreadShapes' /\ indexer'.cached \in BOOLEAN /\ indexer'.pc = "check"
    BY <1>1, ZenonT(30) DEF NewBlock, dbs, IdleIndexer
  <2>. QED BY <2>1, StoresFrame DEF StoredFirst
<1>2. CASE CheckCached
  <2>1. UNCHANGED <<chain, present, inventory, backup, disk, crawler, client>>
    BY <1>2 DEF CheckCached, dbs
  <2> DEFINE c == NextAnnounced \in disk
  <2>2. ThreadShapes' /\ indexer'.cached = c /\ indexer'.pc = "add"
    BY <1>2, <2>1, ZenonT(30) DEF CheckCached
  <2>3. c \in BOOLEAN /\ (c => NextAnnounced \in disk')
    BY <2>1
  <2> HIDE DEF c
  <2>. QED BY <2>1, <2>2, <2>3, StoresFrame DEF StoredFirst
<1>3. CASE TellFound
  <2>1. /\ UNCHANGED <<chain, present, inventory, backup, disk, crawler, client>>
        /\ ThreadShapes' /\ indexer'.cached = indexer.cached /\ indexer'.pc = "tell" /\ indexer.pc = "tell"
    BY <1>3, Zenon DEF TellFound
  <2>. QED BY <2>1, StoresFrame DEF StoredFirst
<1>4. CASE ReadQueue
  <2>1. /\ UNCHANGED <<chain, present, inventory, backup, disk, crawler, client>>
        /\ ThreadShapes' /\ indexer'.cached = indexer.cached /\ indexer'.pc \in {"idle", "index"}
        /\ indexer.pc = "tell"
    BY <1>4, ZenonT(30) DEF ReadQueue, dbs
  <2>. QED BY <2>1, StoresFrame, ZenonT(30) DEF StoredFirst
<1>5. CASE IndexDiscovered
  <2>1. UNCHANGED <<chain, present, inventory, backup, disk, crawler, client>>
    BY <1>5, ZenonT(30) DEF IndexDiscovered
  <2>2. indexer.pc = "index" /\ indexer' = [indexer EXCEPT !.pc = "clear"]
    BY <1>5, Zenon DEF IndexDiscovered, Step
  <2>3. ThreadShapes' /\ indexer'.cached = indexer.cached /\ indexer'.pc = "clear"
    BY <2>1, <2>2, SMTT(30)
  <2>. QED BY <2>1, <2>2, <2>3, StoresFrame DEF StoredFirst
<1>6. CASE ClearQueue
  <2>1. /\ UNCHANGED <<chain, present, inventory, backup, disk, crawler, client>>
        /\ indexer.pc = "clear" /\ indexer' = IdleIndexer
    BY <1>6, ZenonT(30) DEF ClearQueue
  <2>2. ThreadShapes' /\ indexer'.cached \in BOOLEAN /\ indexer'.pc = "idle"
    BY <2>1, SMTT(30) DEF IdleIndexer
  <2>. QED BY <2>1, <2>2, StoresFrame DEF StoredFirst
<1>. QED BY <1>1, <1>2, <1>3, <1>4, <1>5, <1>6

\* The other steps of the crawler and of the RPC client: a thread that is about
\* to mark a file has seen it on disk or stored it.
LEMMA FetchInv ==
    ASSUME IndInv,
           FindMissing \/ ScanZonefile \/ FetchZonefile \/ EndOfStep \/ CrawlerTell
             \/ PutZonefile \/ ClientTell
    PROVE  IndInv'
<1> USE DEF IndInv, TypeOK, ThreadShapes
<1>1. CASE FindMissing
  <2>1. /\ UNCHANGED <<chain, present, inventory, backup, disk, indexer, client>>
        /\ ThreadShapes' /\ crawler'.pc = "scan"
    BY <1>1, Zenon DEF FindMissing, dbs, IdleCrawler
  <2>. QED BY <2>1, StoresFrame, SMTT(30) DEF StoredFirst
<1>2. CASE ScanZonefile
  <2>1. PICK e \in crawler.todo :
           crawler' = IF e.hash \in disk
                      THEN [crawler EXCEPT !.pc = "mark", !.todo = @ \ {e}, !.entry = {e}]
                      ELSE [crawler EXCEPT !.todo = @ \ {e}, !.fetch = @ \cup {e}]
    BY <1>2, ZenonT(30) DEF ScanZonefile
  <2>2. /\ UNCHANGED <<chain, present, inventory, backup, disk, indexer, client>>
        /\ crawler.pc = "scan"
    BY <1>2, Zenon DEF ScanZonefile, dbs
  <2>3. ThreadShapes' /\ (crawler'.pc = "mark" => e.hash \in disk /\ crawler'.entry = {e})
    BY <2>1, <2>2, ZenonT(30)
  <2>. QED BY <2>2, <2>3, StoresFrame, ZenonT(30) DEF StoredFirst
<1>3. CASE FetchZonefile
  <2>1. PICK e \in crawler.fetch :
           /\ disk' = disk \cup {e.hash}
           /\ crawler' = [crawler EXCEPT !.pc = "mark", !.fetch = @ \ {e}, !.entry = {e}]
    BY <1>3, ZenonT(30) DEF FetchZonefile
  <2>2. UNCHANGED <<chain, present, inventory, backup, indexer, client>>
    BY <1>3, Zenon DEF FetchZonefile, dbs
  <2>3. ThreadShapes' /\ crawler'.entry = {e}
    BY <2>1, <2>2, ZenonT(30)
  <2>. QED BY <2>1, <2>2, <2>3, StoresFrame DEF StoredFirst
<1>4. CASE EndOfStep \/ CrawlerTell
  <2>1. UNCHANGED <<chain, present, inventory, backup, disk, indexer, client>>
    BY <1>4, SMTT(30) DEF EndOfStep, CrawlerTell, dbs
  <2>2. CASE EndOfStep
    <3>1. ThreadShapes' /\ crawler'.pc = "idle"
        BY <2>1, <2>2, SMTT(30) DEF EndOfStep, IdleCrawler
    <3>. QED BY <2>1, <3>1, StoresFrame, SMTT(30) DEF StoredFirst
  <2>3. CASE CrawlerTell
    <3>1. ThreadShapes' /\ crawler'.pc = "scan"
        BY <2>1, <2>3, Zenon DEF CrawlerTell
    <3>. QED BY <2>1, <3>1, StoresFrame, SMTT(30) DEF StoredFirst
  <2>. QED BY <1>4, <2>2, <2>3
<1>5. CASE PutZonefile
  <2>1. PICK hash \in Hash :
           /\ client' = [pc |-> "mark", entry |-> {Entry(hash, MinBlock(RowsFor(hash)))}]
           /\ disk' = disk \cup {hash}
    BY <1>5, ZenonT(30) DEF PutZonefile
  <2>2. UNCHANGED <<chain, present, inventory, backup, indexer, crawler>>
    BY <1>5 DEF PutZonefile, dbs
  <2>3. ThreadShapes' /\ \A e \in client'.entry : e.hash = hash
    BY <2>1, <2>2, SMTT(30) DEF Entry
  <2>. QED BY <2>1, <2>2, <2>3, StoresFrame, ZenonT(30) DEF StoredFirst
<1>6. CASE ClientTell
  <2>1. /\ UNCHANGED <<chain, present, inventory, backup, disk, indexer, crawler>>
        /\ ThreadShapes' /\ client'.pc = "idle"
    BY <1>6 DEF ClientTell, IdleClient
  <2>. QED BY <2>1, StoresFrame, SMTT(30) DEF StoredFirst
<1>. QED BY <1>1, <1>2, <1>3, <1>4, <1>5, <1>6, ZenonT(30)

\* Every step of the node preserves the inductive invariant.
LEMMA NextInv == IndInv /\ [Next]_vars => IndInv'
<1> SUFFICES ASSUME IndInv, [Next]_vars
             PROVE  IndInv'
    OBVIOUS
<1>1. CASE IndexerNext \/ IndexDiscovered
    BY <1>1, IndexerInv, AddInv, CopyInv, SMTT(30) DEF IndexerNext
<1>2. CASE CrawlerNext \/ PutZonefile \/ ClientMore
    BY <1>2, FetchInv, MarkInv DEF CrawlerNext, ClientMore
<1>3. CASE Backup \/ CrashAndRestore \/ CleanRestart
    BY <1>3, CopyInv, StartInv, SMTT(30)
<1>4. CASE UNCHANGED vars
  <2>1. UNCHANGED <<chain, present, inventory, disk, backup, indexer, crawler, client>>
    BY <1>4 DEF vars, dbs
  <2>. QED BY <2>1, StoresFrame DEF IndInv, TypeOK, ThreadShapes, StoredFirst
<1>. QED BY <1>1, <1>2, <1>3, <1>4, SMTT(30) DEF Next

-----------------------------------------------------------------------------
(***************************************************************************)
(* The results.                                                            *)
(***************************************************************************)

\* Files are stored before they are marked, and marked before they are told.
THEOREM Invariance == Spec => []IndInv
<1>1. Init /\ [][Next]_vars => []IndInv
    BY InitInv, NextInv, PTL
<1>. QED BY <1>1, PTL DEF Spec

\* A bit of the inventory is set only for a zone file that is on disk.
THEOREM InventoryIsHonest == Spec => []InventoryHonest
<1>1. IndInv => InventoryHonest
    BY SMTT(30) DEF IndInv
<1>. QED BY <1>1, Invariance, PTL

\* Outside atlasdb_sync_zonefiles the inventory is the present column.
THEOREM InventoryIsCoherent == Spec => []InventoryCoherent
<1>1. IndInv => InventoryCoherent
    BY DEF IndInv
<1>. QED BY <1>1, Invariance, PTL
=============================================================================
