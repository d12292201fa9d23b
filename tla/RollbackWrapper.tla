-------------------------- MODULE RollbackWrapper --------------------------
(***************************************************************************)
(* The write-back cache between the Clarity VM and its backing store.      *)
(* Writes go to the innermost of a stack of contexts.  They are recorded   *)
(* twice: in the context that made them, and per key in lookup_map, whose  *)
(* last entry is what a read returns.  The code keeps the two in step by   *)
(* assertion: rollback and the outermost commit replay a context's edits   *)
(* against lookup_map and panic when they differ.                          *)
(*                                                                         *)
(* Data and contract metadata are two tables that go through the same      *)
(* code.  A metadata key stands for a field of a contract that the open    *)
(* block initialises.  at-block moves the block that reads fall through to.*)
(***************************************************************************)
EXTENDS Integers, Sequences, FiniteSets

CONSTANTS
    Key, Value, Absent,
    MetadataKey,    \* the keys of contract metadata
    Past,           \* ancestor blocks: block -> the data stored as of its end
    Open,           \* the block being processed
    MaxDepth,       \* bound on the nesting of contexts
    MaxEdits        \* bound on the edits that are in no store yet

Tables == {"data", "metadata"}

ASSUME PastAssumption ==
    /\ MetadataKey \subseteq Key
    /\ Open \notin DOMAIN Past
    /\ \A b \in DOMAIN Past : Past[b] \in [Key -> Value \cup {Absent}]

ASSUME AbsentAssumption == Absent \notin Value

ASSUME DepthAssumption == MaxDepth \in Nat

VARIABLES
    lookup_map,     \* table -> (key -> its edits, most recent last)
    stack,          \* open contexts, outermost first: table -> edits
    store,          \* the backing store at the open block: table -> key -> value
    chain_tip,      \* the block that reads of the store are made at
    shifts,         \* at-block evaluations under way: [depth, prior tip]
    panicked        \* an assertion or expect of the wrapper has failed

vars == <<lookup_map, stack, store, chain_tip, shifts, panicked>>

-----------------------------------------------------------------------------
(***************************************************************************)
(* Reads: the most recent edit, or else the store at the chain tip.        *)
(***************************************************************************)
StoreAt(b) == IF b = Open THEN store["data"] ELSE Past[b]

\* With a defect: the oldest edit is read.
FirstEdit(k) ==
    LET map == lookup_map["data"] IN IF k \in DOMAIN map THEN map[k][1] ELSE StoreAt(chain_tip)[k]

get(k) ==
    LET map == lookup_map["data"] IN IF k \in DOMAIN map THEN map[k][Len(map[k])] ELSE StoreAt(chain_tip)[k]

get_metadata(k) ==
    LET map == lookup_map["metadata"] IN IF k \in DOMAIN map THEN map[k][Len(map[k])] ELSE store["metadata"][k]

has_metadata_entry(k) == get_metadata(k) # Absent

-----------------------------------------------------------------------------
\* With a defect: a key without edits stays in the map.
KeepEmptyHistory(map, key) == [map EXCEPT ![key] = SubSeq(@, 1, Len(@) - 1)]

(***************************************************************************)
(* rollback_lookup_map pops the last value of a key, which must be the one *)
(* of the edit, and drops a history that becomes empty.                    *)
(***************************************************************************)
PopEdit(map, key) ==
    IF Len(map[key]) = 1
    THEN [k \in DOMAIN map \ {key} |-> map[k]]
    ELSE [map EXCEPT ![key] = SubSeq(@, 1, Len(@) - 1)]

Asserted(map, edit) == edit.key \in DOMAIN map /\ map[edit.key][Len(map[edit.key])] = edit.value

rollback_lookup_map(map, edit) == IF Asserted(map, edit) THEN PopEdit(map, edit.key) ELSE map

\* The maps before the first and after each of the edits; and whether one of the
\* assertions on the way fails.
Replay(map, edits) ==
    LET after[n \in 0 .. Len(edits)] ==
            IF n = 0 THEN map ELSE rollback_lookup_map(after[n - 1], edits[n])
    IN  after
Fails(maps, edits) == \E n \in 1 .. Len(edits) : ~Asserted(maps[n - 1], edits[n])

Reversed(s) == [i \in 1 .. Len(s) |-> s[Len(s) + 1 - i]]

\* The outermost commit replays the edits in the order they were made, so each
\* history is reversed first; nothing may be left over.
ReplayAll(map, edits) == Replay([k \in DOMAIN map |-> Reversed(map[k])], edits)
FailsAll(maps, edits) == Fails(maps, edits) \/ DOMAIN maps[Len(edits)] # {}

\* put_all and put_all_metadata: the last edit of a key stays.  A second row for a
\* metadata key breaks its UNIQUE constraint.
PutAll(rows, edits) ==
    [k \in Key |->
        LET of == {i \in 1 .. Len(edits) : edits[i].key = k}
        IN  IF of = {} THEN rows[k] ELSE edits[CHOOSE i \in of : \A j \in of : j <= i].value]
InsertFails(rows, edits) ==
    \E i \in 1 .. Len(edits) : \/ rows[edits[i].key] # Absent
                               \/ \E j \in 1 .. i - 1 : edits[j].key = edits[i].key

-----------------------------------------------------------------------------
EmptyContext == [t \in Tables |-> <<>>]

Init ==
    /\ lookup_map = [t \in Tables |-> [k \in {} |-> <<>>]]
    /\ stack = <<>>
    /\ store = [t \in Tables |-> [k \in Key |-> Absent]]
    /\ chain_tip = Open
    /\ shifts = <<>>
    /\ panicked = FALSE

Running == ~panicked

\* The edits of a table that are pending, by context; where they are (a context
\* and an index into its edits), and the one at a place.
Log(t) == [n \in 1 .. Len(stack) |-> stack[n][t]]
Pending(log) == UNION {{<<n, i>> : i \in 1 .. Len(log[n])} : n \in 1 .. Len(log)}
EditAt(log, p) == log[p[1]][p[2]]

\* Contexts above this depth belong to the innermost at-block evaluation.
BaseDepth == IF shifts = <<>> THEN 0 ELSE shifts[Len(shifts)].depth

nest ==
    /\ Running /\ Len(stack) < MaxDepth
    /\ stack' = Append(stack, EmptyContext)
    /\ UNCHANGED <<lookup_map, store, chain_tip, shifts, panicked>>

inner_put(t, k, v) ==
    LET map == lookup_map[t]
        history == IF k \in DOMAIN map THEN map[k] ELSE <<>>
    IN  /\ lookup_map' = [lookup_map EXCEPT ![t] =
                             [x \in DOMAIN map \cup {k} |-> IF x = k THEN Append(history, v) ELSE map[x]]]
        /\ stack' = [stack EXCEPT ![Len(stack)][t] = Append(@, [key |-> k, value |-> v])]
        /\ UNCHANGED <<store, chain_tip, shifts, panicked>>

CanWrite ==
    /\ Running /\ stack # <<>> /\ shifts = <<>>
    /\ Cardinality(Pending(Log("data"))) + Cardinality(Pending(Log("metadata"))) < MaxEdits

\* Writes need a context and are refused in an at-block closure.
put(k, v) == CanWrite /\ inner_put("data", k, v)

\* insert_metadata of the databases above: only when there is no entry.
insert_metadata(k, v) ==
    /\ CanWrite
    /\ ~has_metadata_entry(k)
    /\ inner_put("metadata", k, v)

\* The context is popped and its edits are undone in the given order.
Undo(edits) ==
    LET maps == [t \in Tables |-> Replay(lookup_map[t], edits[t])]
    IN  /\ lookup_map' = [t \in Tables |-> maps[t][Len(edits[t])]]
        /\ panicked' = \E t \in Tables : Fails(maps[t], edits[t])
        /\ stack' = SubSeq(stack, 1, Len(stack) - 1)
        /\ UNCHANGED store

\* With a defect: the edits are undone oldest first.
DropOldestFirst == Undo(stack[Len(stack)])

DropContext == Undo([t \in Tables |-> Reversed(stack[Len(stack)][t])])

rollback ==
    /\ Running /\ Len(stack) > BaseDepth
    /\ DropContext
    /\ UNCHANGED <<chain_tip, shifts>>

\* With a defect: the nested edits are put before the older ones.
ChildFirst(below, top) == [t \in Tables |-> top[t] \o below[t]]

\* Committing a nested context hands its edits to the one below.
BubbleUp(below, top) == [t \in Tables |-> below[t] \o top[t]]

CommitNested ==
    /\ Running /\ Len(stack) > 1 /\ Len(stack) > BaseDepth
    /\ stack' = Append(SubSeq(stack, 1, Len(stack) - 2), BubbleUp(stack[Len(stack) - 1], stack[Len(stack)]))
    /\ UNCHANGED <<lookup_map, store, chain_tip, shifts, panicked>>

\* Committing the outermost context writes its edits to the store.
CommitToStore ==
    /\ Running /\ Len(stack) = 1 /\ Len(stack) > BaseDepth
    /\ LET maps == [t \in Tables |-> ReplayAll(lookup_map[t], stack[1][t])]
       IN  /\ lookup_map' = [t \in Tables |-> maps[t][Len(stack[1][t])]]
           /\ panicked' = \/ \E t \in Tables : FailsAll(maps[t], stack[1][t])
                          \/ InsertFails(store["metadata"], stack[1]["metadata"])
    /\ store' = [t \in Tables |-> PutAll(store[t], stack[1][t])]
    /\ stack' = <<>>
    /\ UNCHANGED <<chain_tip, shifts>>

\* evaluate_at_block: open a read-only context, move the chain tip, evaluate,
\* move it back and drop the context.
BeginAtBlock(b) ==
    /\ Running /\ stack # <<>> /\ Len(stack) < MaxDepth
    /\ stack' = Append(stack, EmptyContext)
    /\ chain_tip' = b
    /\ shifts' = Append(shifts, [depth |-> Len(stack) + 1, prior |-> chain_tip])
    /\ UNCHANGED <<lookup_map, store, panicked>>

EndAtBlock ==
    /\ Running /\ shifts # <<>> /\ Len(stack) = BaseDepth
    /\ chain_tip' = shifts[Len(shifts)].prior
    /\ shifts' = SubSeq(shifts, 1, Len(shifts) - 1)
    /\ DropContext

Next ==
    \/ nest \/ rollback \/ CommitNested \/ CommitToStore \/ EndAtBlock
    \/ \E k \in Key, v \in Value : put(k, v)
    \/ \E k \in MetadataKey, v \in Value : insert_metadata(k, v)
    \/ \E b \in DOMAIN Past : BeginAtBlock(b)

Spec == Init /\ [][Next]_vars

-----------------------------------------------------------------------------
(***************************************************************************)
(* Properties.                                                             *)
(***************************************************************************)
Edit == [key : Key, value : Value]
IsLookupMap(map) ==
    /\ DOMAIN map \subseteq Key
    /\ map \in [DOMAIN map -> Seq(Value)]
    /\ \A k \in DOMAIN map : map[k] # <<>>
Blocks == DOMAIN Past \cup {Open}

\* Histories are never empty, edits are of known keys, and the tip is moved
\* exactly while an at-block evaluation is under way.
TypeOK ==
    /\ lookup_map = [t \in Tables |-> lookup_map[t]]
    /\ \A t \in Tables : IsLookupMap(lookup_map[t])
    /\ stack \in Seq([Tables -> Seq(Edit)])
    /\ store \in [Tables -> [Key -> Value \cup {Absent}]]
    /\ chain_tip \in Blocks
    /\ shifts \in Seq([depth : Nat \ {0}, prior : Blocks])
    /\ panicked \in BOOLEAN
    /\ Len(stack) <= MaxDepth
    /\ chain_tip = Open <=> shifts = <<>>

\* No assertion or expect of the wrapper fails, and no metadata row is inserted
\* twice, in any sequence of nest, put, rollback and commit: "Clarity VM had edit
\* log entry, but not lookup_map entry" cannot happen.
NoPanic == Running

\* An edit comes before another when an outer context made it, or the same one
\* made it earlier.
Before(p, q) == p[1] < q[1] \/ (p[1] = q[1] /\ p[2] < q[2])

\* In positions, every pending edit has its place in the history of its key, in
\* order, and every place is taken.
Follows(map, log, positions) ==
    /\ \A p \in Pending(log) :
          LET edit == EditAt(log, p)
          IN  /\ edit.key \in DOMAIN map
              /\ positions[p] \in 1 .. Len(map[edit.key])
              /\ map[edit.key][positions[p]] = edit.value
    /\ \A p, q \in Pending(log) :
          (EditAt(log, p).key = EditAt(log, q).key /\ Before(p, q)) => positions[p] < positions[q]
    /\ \A k \in DOMAIN map : \A i \in 1 .. Len(map[k]) :
          \E p \in Pending(log) : EditAt(log, p).key = k /\ positions[p] = i

Agrees(map, log) ==
    \E positions \in [Pending(log) -> UNION {1 .. Len(map[k]) : k \in DOMAIN map}] :
        Follows(map, log, positions)

\* The lookup map is the edit log by key: the history of a key is what the open
\* contexts wrote to it, outermost first, in the order of the writes.
LookupMapAgrees == Running => \A t \in Tables : Agrees(lookup_map[t], Log(t))

\* A metadata key has one pending edit at most, and then no row yet: the check made
\* before the write stays true until the outermost commit.
WrittenOnce(rows, log) ==
    \A p \in Pending(log) :
        /\ rows[EditAt(log, p).key] = Absent
        /\ \A q \in Pending(log) : EditAt(log, p).key = EditAt(log, q).key => p = q
MetadataOnce == WrittenOnce(store["metadata"], Log("metadata"))

\* Only the outermost at-block evaluation returns to the open block.
PriorTips == \A i \in 1 .. Len(shifts) : shifts[i].prior = Open <=> i = 1

\* What the proofs carry from step to step.
IndInv == TypeOK /\ NoPanic /\ LookupMapAgrees /\ MetadataOnce /\ PriorTips

(***************************************************************************)
(* The wrapper implements a stack of views.  A view is the store with the  *)
(* edits of the contexts up to its own; the top one is what reads return   *)
(* (seen at the open block).                                               *)
(***************************************************************************)
PendingOf(log, k, n) == {p \in Pending(log) : p[1] <= n /\ EditAt(log, p).key = k}
Latest(S) == CHOOSE p \in S : \A q \in S : q = p \/ Before(q, p)

View(rows, log, n) ==
    [k \in Key |-> LET of == PendingOf(log, k, n)
                   IN  IF of = {} THEN rows[k] ELSE EditAt(log, Latest(of)).value]
ViewAt(n) == [t \in Tables |-> View(store[t], Log(t), n)]
ReadView ==
    [t \in Tables |-> [k \in Key |->
        IF chain_tip # Open THEN ViewAt(Len(stack))[t][k]
        ELSE IF t = "data" THEN get(k) ELSE get_metadata(k)]]

Views ==
    [n \in 1 .. Len(stack) + 1 |-> IF n = Len(stack) + 1 THEN ReadView ELSE ViewAt(n - 1)]

Abstract == INSTANCE NestedStore WITH views <- Views

\* Reads, rollbacks and commits are those of the stack of views: a rollback
\* restores what a read returned before the context was opened, a commit keeps
\* what it returned inside.
ImplementsNestedStore == Abstract!Spec

\* vm/docs: at-block "evaluates the expression `expr` _as if_ it were evaluated
\* at the end of the block indicated".  A read in the closure returns what that
\* block stored; the code returns an uncommitted edit of the transaction.
AtBlockReadsThePast ==
    chain_tip # Open => \A k \in Key : get(k) = Past[chain_tip][k]
=============================================================================
