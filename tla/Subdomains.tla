----------------------------- MODULE Subdomains -----------------------------
(***************************************************************************)
(* How the Python node decides which subdomain records are accepted        *)
(* (legacy/blockstack/lib/subdomains.py, SubdomainIndex and SubdomainDB).  *)
(*                                                                         *)
(* A zone file is announced on the chain by its hash, and its contents     *)
(* arrive later, in any order.  Each one holds subdomain records; a record *)
(* names a subdomain, a sequence number, an owner address and the address  *)
(* whose key signed it.  The node stores every record it sees, and decides *)
(* again which of them to accept each time older zone files turn up.       *)
(*                                                                         *)
(* This module is the algorithm, as operators on the subdomain table.  The *)
(* table is a function: the primary key <<subdomain, zone file index>>     *)
(* mapped to the accepted flag.  Everything else in a row is fixed by the  *)
(* announcement at that index and by the zone file it names.               *)
(***************************************************************************)
EXTENDS Integers, SequencesExt

CONSTANTS
    Subdomain,      \* fully-qualified subdomain names
    DomainOf,       \* [Subdomain -> Name]: the name a subdomain ends in
    Hash,           \* zone file hashes
    Origin,         \* [Hash -> Name]: the $ORIGIN of the zone file
    Records         \* [Hash -> Seq(records)]: its subdomain records, in order

VARIABLE chain      \* the announcements, in chain order: the i-th has index i

\* The names that own zone files.
Name == {DomainOf[s] : s \in Subdomain} \cup {Origin[h] : h \in Hash}

ASSUME ZonefileAssumption ==
    /\ DomainOf \in [Subdomain -> Name]
    /\ Origin \in [Hash -> Name]
    /\ \A h \in Hash : \A i \in DOMAIN Records[h] :
          Records[h][i].fqn \in Subdomain /\ Records[h][i].n \in Nat

----------------------------------------------------------------------------
\* The records of one announced zone file (decode_zonefile_subdomains): none
\* when its $ORIGIN is not the announcing name, and of several records for one
\* subdomain the one with the lowest sequence number, the first of equal ones.
Decode ==
    LET Beaten(recs, i) == \E j \in DOMAIN recs :
                              /\ recs[j].fqn = recs[i].fqn
                              /\ \/ recs[j].n < recs[i].n
                                 \/ recs[j].n = recs[i].n /\ j < i
    IN [name \in Name, hash \in Hash |->
           IF Origin[hash] # name THEN {}
           ELSE {Records[hash][i] :
                    i \in {i \in DOMAIN Records[hash] : ~Beaten(Records[hash], i)}}]

\* The rows a zone file announced at index i contributes to the table.
KeysAt(i) == {<<r.fqn, i>> : r \in Decode[chain[i].name, chain[i].hash]}

\* The record behind a row of the table.
RecordOf(k) ==
    CHOOSE r \in Decode[chain[k[2]].name, chain[k[2]].hash] : r.fqn = k[1]

SequenceOf(k) == RecordOf(k).n

\* Subdomain.independent: the zone file belongs to a name other than the one
\* the subdomain ends in.
Independent(k) == chain[k[2]].name # DomainOf[k[1]]

Less(p, q) == p[1] < q[1] \/ (p[1] = q[1] /\ p[2] < q[2])

\* With a defect: of two records with one sequence number the later comes first.
LaterWins(k1, k2) == Less(<<SequenceOf(k1), k2[2]>>, <<SequenceOf(k2), k1[2]>>)

\* The ORDER BY of every query and sort: sequence number, then zone file index.
Before(k1, k2) == Less(<<SequenceOf(k1), k1[2]>>, <<SequenceOf(k2), k2[2]>>)

InOrder(keys) ==
    SetToSortSeq(keys, LAMBDA k1, k2 : Before(k1, k2))

----------------------------------------------------------------------------
CheckInitialSubdomain(k) ==
    SequenceOf(k) = 0 /\ ~Independent(k)

Succeeds(rec, old, independent) ==
    /\ rec.n = old.n + 1
    /\ rec.signer = old.owner
    /\ rec.owner # old.owner => ~independent

CheckSubdomainTransition(existing, new) ==
    /\ existing[1] = new[1]
    /\ Succeeds(RecordOf(new), RecordOf(existing), Independent(new))

\* The loop all three callers run: from an accepted record, accept each later
\* one that is a legal transition from the last one accepted.
Walk(first, later) ==
    FoldLeft(LAMBDA st, k :
                IF CheckSubdomainTransition(st.last, k)
                THEN [last |-> k, accepted |-> st.accepted \cup {k}]
                ELSE st,
             [last |-> first, accepted |-> {first}], later)

\* Write the flags of the given rows.
Rewrite(table, keys, accepted) ==
    [k \in DOMAIN table |-> IF k \in keys THEN k \in accepted ELSE table[k]]

\* The rows of get_subdomain_history, unaccepted ones included: sequence
\* numbers lo..hi.
RowsOf(table, fqn, lo, hi) ==
    {k \in DOMAIN table : k[1] = fqn /\ SequenceOf(k) \in lo..hi}

----------------------------------------------------------------------------
\* The outcome of a walk over the rows of hist.
Decided(table, hist, walk) ==
    [table |-> Rewrite(table, ToSet(hist), walk.accepted),
     accepted |-> walk.accepted, last |-> walk.last]

\* With a defect: the first record need not be a creation.
AnyFirst(table, hist) == Decided(table, hist, Walk(hist[1], Tail(hist)))

\* make_new_subdomain_history, over the rows up to a record: decided afresh from
\* the first one.
DecideHistory(table, hist) ==
    Decided(table, hist,
            IF CheckInitialSubdomain(hist[1]) THEN Walk(hist[1], Tail(hist))
            ELSE [last |-> hist[1], accepted |-> {}])

\* Everything up to the record, in sequence and in chain order.
NewHistory(table, k) ==
    DecideHistory(table, InOrder({h \in RowsOf(table, k[1], 0, SequenceOf(k)) : h[2] <= k[2]}))

\* make_new_subdomain_future: everything after an accepted record, in sequence
\* and in chain order, decided afresh from it.
NewFuture(table, k) ==
    LET Decide(fut) == Rewrite(table, fut, Walk(k, InOrder(fut)).accepted)
    IN Decide({f \in DOMAIN table : /\ f[1] = k[1] /\ f # k
                                    /\ f[2] >= k[2]
                                    /\ SequenceOf(f) >= SequenceOf(k)})

\* subdomain_try_insert over get_subdomain_history_neighbors: the records one
\* sequence number below, level with and above this one, decided from the first
\* accepted of them; given up when none is accepted early enough, or when the
\* last successor's flag would change.
TipChanges(table, tip, walk, n) ==
    table[tip] # (tip \in walk.accepted) /\ SequenceOf(tip) = n

DecideLater(table, k, around, later, walk) ==
    IF TipChanges(table, around[Len(around)], walk, SequenceOf(k) + 1)
    THEN [ok |-> FALSE, table |-> table]
    ELSE [ok |-> TRUE, table |-> Rewrite(table, ToSet(later), walk.accepted)]

DecideAround(table, k, around, first) ==
    IF first = 0 \/ \E i \in 1 .. first - 1 : Before(k, around[i])
    THEN [ok |-> FALSE, table |-> table]
    ELSE LET Later(rows) == DecideLater(table, k, around, rows, Walk(around[first], rows))
         IN Later(SubSeq(around, first + 1, Len(around)))

TryInsert(table, k) ==
    LET Try(around) == DecideAround(table, k, around, SelectInSeq(around, LAMBDA a : table[a]))
    IN Try(InOrder(RowsOf(table, k[1], SequenceOf(k) - 1, SequenceOf(k) + 1)))

\* One record of process_subdomains: inserted in place, or its past and then
\* its future rewritten.
InsertOrRewrite(try, hist) ==
    IF try.ok THEN try.table
    ELSE IF hist.accepted = {} THEN hist.table
    ELSE NewFuture(hist.table, hist.last)

InsertRecord(table, k) == InsertOrRewrite(TryInsert(table, k), NewHistory(table, k))

\* process_subdomains over a sequence of zone file indexes, all of them at hand:
\* store every record unaccepted, then take the zone files in order.
StoreRecords(table, keys) ==
    [k \in DOMAIN table \cup keys |-> IF k \in keys THEN FALSE ELSE table[k]]

ProcessSubdomains(table, indexes) ==
    FoldLeft(InsertRecord,
             StoreRecords(table, UNION {KeysAt(indexes[i]) : i \in DOMAIN indexes}),
             FlattenSeq([i \in DOMAIN indexes |-> SetToSeq(KeysAt(indexes[i]))]))
=============================================================================
