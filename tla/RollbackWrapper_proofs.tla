----------------------- MODULE RollbackWrapper_proofs -----------------------
(***************************************************************************)
(* Proofs about RollbackWrapper, for every set of keys and values and any  *)
(* depth of nesting: the lookup map and the contexts never diverge, and    *)
(* the wrapper implements the stack of views of NestedStore.               *)
(***************************************************************************)
EXTENDS RollbackWrapper_lemmas

----------------------------------------------------------------------------
\* The inductive invariant.

Shift == [depth : Nat \ {0}, prior : Blocks]

\* The part of the invariant about at-block evaluations.
TipOK ==
    /\ chain_tip \in Blocks
    /\ shifts \in Seq(Shift)
    /\ chain_tip = Open <=> shifts = <<>>
    /\ PriorTips

\* The invariant in the form the steps need it.
LEMMA InvIs ==
    IndInv <=> /\ lookup_map = [t \in Tables |-> lookup_map[t]]
               /\ \A t \in Tables : IsLookupMap(lookup_map[t]) /\ Agrees(lookup_map[t], Log(t))
               /\ stack \in Contexts
               /\ store \in [Tables -> [Key -> Value \cup {Absent}]]
               /\ Len(stack) <= MaxDepth
               /\ TipOK
               /\ panicked = FALSE
               /\ WrittenOnce(store["metadata"], Log("metadata"))
    BY Zenon DEF IndInv, TypeOK, NoPanic, Running, LookupMapAgrees, MetadataOnce, TipOK, Shift, Contexts, Context

\* With no context open there is nothing to agree about.
LEMMA NothingPending ==
    ASSUME NEW log \in Logs, Len(log) = 0, NEW map, DOMAIN map = {}, NEW rows
    PROVE  Agrees(map, log) /\ WrittenOnce(rows, log)
<1>1. Pending(log) = {}
    BY Places
<1>2. Follows(map, log, [p \in {} |-> 0])
    BY <1>1 DEF Follows
<1>. QED BY <1>1, <1>2, AgreesIs DEF WrittenOnce

\* A new wrapper satisfies the invariant.
LEMMA InitInv == Init => IndInv
<1> SUFFICES ASSUME Init PROVE IndInv
    OBVIOUS
<1>1. /\ stack = <<>> /\ shifts = <<>> /\ chain_tip = Open /\ panicked = FALSE
      /\ lookup_map = [t \in Tables |-> [k \in {} |-> <<>>]]
      /\ store = [t \in Tables |-> [k \in Key |-> Absent]]
    BY DEF Init
<1>2. stack \in Contexts /\ Len(stack) = 0
    BY <1>1 DEF Contexts
<1>3. ASSUME NEW t \in Tables PROVE IsLookupMap(lookup_map[t]) /\ DOMAIN lookup_map[t] = {}
    BY <1>1 DEF IsLookupMap
<1>4. \A t \in Tables : Log(t) \in Logs /\ Len(Log(t)) = 0
    BY <1>2, LogIs
<1>5. \A t \in Tables : Agrees(lookup_map[t], Log(t)) /\ WrittenOnce(store[t], Log(t))
    BY <1>3, <1>4, NothingPending, Zenon
<1>6. TipOK
    BY <1>1 DEF TipOK, Blocks, PriorTips
<1>7. "metadata" \in Tables
    BY DEF Tables
<1>8. store \in [Tables -> [Key -> Value \cup {Absent}]]
    BY <1>1
<1>9. lookup_map = [t \in Tables |-> lookup_map[t]]
    BY <1>1
<1>. QED BY <1>1, <1>2, <1>3, <1>5, <1>6, <1>7, <1>8, <1>9, InvIs, DepthAssumption, SMTT(30)

\* evaluate_at_block moves the tip away from the open block and remembers it.
LEMMA BeginShift ==
    ASSUME TipOK, NEW b \in DOMAIN Past, NEW d \in Nat \ {0}, chain_tip' = b,
           shifts' = Append(shifts, [depth |-> d, prior |-> chain_tip])
    PROVE  TipOK'
<1>1. PICK s \in Shift : s = [depth |-> d, prior |-> chain_tip]
    BY SMTT(30) DEF TipOK, Shift
<1>2. s.prior = chain_tip
    BY <1>1
<1>3. PICK n \in Nat : n = Len(shifts)
    BY DEF TipOK
<1>4. shifts \in Seq(Shift) /\ shifts' = Append(shifts, s)
    BY <1>1 DEF TipOK
<1>5. /\ shifts' \in Seq(Shift) /\ Len(shifts') = n + 1 /\ shifts'[n + 1] = s
      /\ \A i \in 1 .. n : shifts'[i] = shifts[i]
    BY <1>3, <1>4, OneMore
<1>6. shifts' # <<>> /\ (shifts = <<>> <=> n = 0)
    BY <1>3, <1>4, <1>5
<1>7. chain_tip' # Open /\ chain_tip' \in Blocks
    BY PastAssumption DEF Blocks
<1>8. chain_tip = Open <=> n = 0
    BY <1>6 DEF TipOK
<1>9. \A i \in 1 .. n : shifts[i].prior = Open <=> i = 1
    BY <1>3 DEF TipOK, PriorTips
<1>10. ASSUME NEW i \in 1 .. n + 1 PROVE shifts'[i].prior = Open <=> i = 1
  <2>1. CASE i = n + 1
    BY <1>2, <1>5, <1>8, <2>1, SMTT(30)
  <2>2. CASE i # n + 1
    BY <1>5, <1>9, <2>2, SMTT(30)
  <2>. QED BY <2>1, <2>2, Zenon
<1>11. PriorTips'
    BY <1>5, <1>10, SMTT(30) DEF PriorTips
<1>. QED BY <1>5, <1>6, <1>7, <1>11 DEF TipOK, Blocks, Shift

\* The end of an at-block evaluation moves the tip back.
LEMMA EndShift ==
    ASSUME TipOK, shifts # <<>>, chain_tip' = shifts[Len(shifts)].prior,
           shifts' = SubSeq(shifts, 1, Len(shifts) - 1)
    PROVE  TipOK'
<1>1. PICK n \in Nat \ {0} : n = Len(shifts)
    BY DEF TipOK
<1>2. shifts \in Seq(Shift) /\ n - 1 \in 0 .. Len(shifts)
    BY <1>1 DEF TipOK
<1>3. /\ shifts' \in Seq(Shift) /\ Len(shifts') = n - 1
      /\ \A i \in 1 .. n - 1 : shifts'[i] = shifts[i]
    BY <1>1, <1>2, Prefix
<1>4. \A i \in 1 .. n : shifts[i].prior = Open <=> i = 1
    BY <1>1 DEF TipOK, PriorTips
<1>5. chain_tip' \in Blocks /\ (chain_tip' = Open <=> n = 1)
  <2>1. shifts[n] \in Shift
    BY <1>1, <1>2
  <2>. QED BY <1>1, <1>4, <2>1 DEF Shift
<1>6. shifts' = <<>> <=> n = 1
  <2>1. PICK q \in Seq(Shift) : q = shifts'
    BY <1>3, SMTT(30)
  <2>2. q = <<>> <=> Len(q) = 0
    OBVIOUS
  <2>3. Len(q) = n - 1
    BY <1>3, <2>1
  <2>. QED BY <2>1, <2>2, <2>3
<1>7. PriorTips'
    BY <1>3, <1>4 DEF PriorTips
<1>. QED BY <1>3, <1>5, <1>6, <1>7, Zenon DEF TipOK, Blocks, Shift

\* The same of the next state.
LEMMA InvNextIs ==
    IndInv' <=> /\ lookup_map' = [t \in Tables |-> lookup_map'[t]]
                /\ \A t \in Tables : IsLookupMap(lookup_map'[t]) /\ Agrees(lookup_map'[t], Log(t)')
                /\ stack' \in Contexts
                /\ store' \in [Tables -> [Key -> Value \cup {Absent}]]
                /\ Len(stack') <= MaxDepth
                /\ TipOK'
                /\ panicked' = FALSE
                /\ WrittenOnce(store'["metadata"], Log("metadata")')
    BY Zenon DEF IndInv, TypeOK, NoPanic, Running, LookupMapAgrees, MetadataOnce, TipOK, Shift, Contexts, Context

\* What the invariant says of each table.
LEMMA TableFacts ==
    ASSUME IndInv, NEW t \in Tables
    PROVE  /\ Log(t) \in Logs
           /\ Len(Log(t)) = Len(stack)
           /\ IsLookupMap(lookup_map[t])
           /\ Agrees(lookup_map[t], Log(t))
           /\ store[t] \in [Key -> Value \cup {Absent}]
    BY InvIs, LogIs

\* nest, and the context that evaluate_at_block opens.
LEMMA OpenInv ==
    ASSUME IndInv, Len(stack) < MaxDepth, stack' = Append(stack, EmptyContext),
           UNCHANGED <<lookup_map, store, panicked>>, TipOK'
    PROVE  IndInv'
<1>1. stack \in Contexts /\ Len(stack) \in Nat
    BY InvIs DEF Contexts
<1>2. "metadata" \in Tables
    BY DEF Tables
<1>3. stack' \in Contexts /\ Len(stack') = Len(stack) + 1
    BY <1>1, <1>2, OpenedLog
<1>4. ASSUME NEW t \in Tables
      PROVE  /\ Log(t)' \in Logs
             /\ Agrees(lookup_map[t], Log(t)')
             /\ \A rows : WrittenOnce(rows, Log(t)) => WrittenOnce(rows, Log(t)')
  <2>1. Log(t) \in Logs /\ Agrees(lookup_map[t], Log(t))
    BY TableFacts
  <2>2. PICK new \in Logs : /\ new = Log(t)'
                            /\ Pending(new) = Pending(Log(t))
                            /\ \A p \in Pending(Log(t)) : EditAt(new, p) = EditAt(Log(t), p)
    BY <1>1, <2>1, Opened, OpenedLog, Zenon
  <2>3. Agrees(lookup_map[t], new)
    BY <2>1, <2>2, SameAgrees
  <2>4. \A rows : WrittenOnce(rows, Log(t)) => WrittenOnce(rows, new)
    BY <2>1, <2>2, FewerWrittenOnce
  <2>. QED BY <2>2, <2>3, <2>4
<1>5. lookup_map' = lookup_map /\ store' = store /\ panicked' = panicked
    OBVIOUS
<1>6. Len(stack') <= MaxDepth
    BY <1>1, <1>3, DepthAssumption
<1>7. WrittenOnce(store["metadata"], Log("metadata")')
    BY <1>2, <1>4, InvIs, SMTT(30)
<1>. QED BY <1>3, <1>4, <1>5, <1>6, <1>7, InvIs, InvNextIs, SMTT(30)

\* DropContext undoes the edits of the innermost context without tripping over an
\* assertion of rollback_lookup_map.
LEMMA DropInv ==
    ASSUME IndInv, Len(stack) > 0, DropContext, TipOK'
    PROVE  IndInv'
<1>0. DEFINE edits == [t \in Tables |-> Reversed(stack[Len(stack)][t])]
             maps == [t \in Tables |-> Replay(lookup_map[t], edits[t])]
<1>1. /\ lookup_map' = [t \in Tables |-> maps[t][Len(edits[t])]]
      /\ panicked' = \E t \in Tables : Fails(maps[t], edits[t])
      /\ stack' = SubSeq(stack, 1, Len(stack) - 1)
      /\ store' = store
    BY DEF DropContext, Undo
<1>2. stack \in Contexts /\ Len(stack) \in Nat
    BY InvIs DEF Contexts
<1>3. "metadata" \in Tables
    BY DEF Tables
<1>4. stack' \in Contexts /\ Len(stack') = Len(stack) - 1
    BY <1>1, <1>2, <1>3, DroppedLog, SMTT(30)
<1>5. ASSUME NEW t \in Tables
      PROVE  /\ ~ Fails(maps[t], edits[t])
             /\ IsLookupMap(lookup_map'[t])
             /\ Agrees(lookup_map'[t], Log(t)')
  <2>1. PICK log \in Logs : log = Log(t) /\ Len(log) = Len(stack)
    BY TableFacts
  <2>2. IsLookupMap(lookup_map[t]) /\ Agrees(lookup_map[t], log)
    BY <2>1, TableFacts
  <2>3. PICK es : es = Reversed(log[Len(log)])
    OBVIOUS
  <2>4. /\ ~ Fails(Replay(lookup_map[t], es), es)
        /\ IsLookupMap(Replay(lookup_map[t], es)[Len(es)])
        /\ Agrees(Replay(lookup_map[t], es)[Len(es)], SubSeq(log, 1, Len(log) - 1))
    BY <2>1, <2>2, <2>3, DropInnermost, SMTT(30)
  <2>5. edits[t] = es
    BY <1>2, <2>1, <2>3, LogIs
  <2>6. maps[t] = Replay(lookup_map[t], es)
    BY <2>5
  <2>7. lookup_map'[t] = Replay(lookup_map[t], es)[Len(es)]
    BY <1>1, <2>5, <2>6
  <2>8. Log(t)' = SubSeq(log, 1, Len(log) - 1)
    BY <1>1, <1>2, <2>1, DroppedLog
  <2>. QED BY <2>4, <2>5, <2>6, <2>7, <2>8, SMTT(30)
<1>6. WrittenOnce(store["metadata"], Log("metadata")')
  <2>1. PICK log \in Logs : log = Log("metadata") /\ Len(log) = Len(stack)
    BY <1>3, TableFacts
  <2>2. PICK new : new = Log("metadata")'
    OBVIOUS
  <2>3. new = SubSeq(log, 1, Len(log) - 1)
    BY <1>1, <1>2, <1>3, <2>1, <2>2, DroppedLog, SMTT(30)
  <2>4. PICK n \in Nat : n = Len(log) - 1
    BY <1>2, <2>1
  <2>5. /\ new \in Logs /\ Len(new) = n /\ \A i \in 1 .. n : new[i] = log[i]
    BY <1>2, <2>1, <2>3, <2>4, Prefix, SMTT(30) DEF Logs
  <2>6. ASSUME NEW p \in Pending(new) PROVE p \in Pending(log) /\ EditAt(new, p) = EditAt(log, p)
    <3>1. PICK a, b : p = <<a, b>> /\ a \in 1 .. n /\ b \in 1 .. Len(new[a])
      BY <2>5, Places
    <3>2. a \in 1 .. Len(log) /\ new[a] = log[a]
      BY <1>2, <2>1, <2>4, <2>5, <3>1, SMTT(30)
    <3>. QED BY <3>1, <3>2, Places, SMTT(30) DEF EditAt
  <2>7. WrittenOnce(store["metadata"], log)
    BY <2>1, InvIs
  <2>. QED BY <2>2, <2>5, <2>6, <2>7, FewerWrittenOnce
<1>7. lookup_map' = [t \in Tables |-> lookup_map'[t]]
    BY <1>1
<1>8. panicked' = FALSE
    BY <1>1, <1>5
<1>9. Len(stack') <= MaxDepth
    BY <1>2, <1>4, InvIs, DepthAssumption
<1>. QED BY <1>1, <1>4, <1>5, <1>6, <1>7, <1>8, <1>9, InvIs, InvNextIs, SMTT(30)

\* inner_put: the edit goes to the end of its table's log and of its key's history.
LEMMA PutFacts ==
    ASSUME IndInv, Len(stack) > 0, NEW t \in Tables, NEW k \in Key, NEW v \in Value, inner_put(t, k, v)
    PROVE  /\ stack' \in Contexts /\ Len(stack') = Len(stack)
           /\ Log(t)' = Written(Log(t), [key |-> k, value |-> v])
           /\ \A u \in Tables : u # t => Log(u)' = Log(u)
           /\ lookup_map' = [u \in Tables |-> IF u = t THEN Pushed(lookup_map[t], k, v) ELSE lookup_map[u]]
           /\ UNCHANGED <<store, chain_tip, shifts, panicked>>
<1>1. PICK e \in Edit : e = [key |-> k, value |-> v]
    BY Zenon DEF Edit
<1>2. stack' = [stack EXCEPT ![Len(stack)][t] = Append(@, e)]
    BY <1>1 DEF inner_put
<1>3. stack \in Contexts
    BY InvIs
<1>4. /\ stack' \in Contexts /\ Len(stack') = Len(stack)
      /\ Log(t)' = Written(Log(t), e)
      /\ \A u \in Tables : u # t => Log(u)' = Log(u)
    BY <1>2, <1>3, WrittenLog, Zenon
<1>5. lookup_map' = [lookup_map EXCEPT ![t] = Pushed(lookup_map[t], k, v)]
    BY DEF inner_put, Pushed
<1>6. lookup_map = [u \in Tables |-> lookup_map[u]]
    BY InvIs
<1>7. PICK m : m = Pushed(lookup_map[t], k, v)
    OBVIOUS
<1>8. lookup_map' = [u \in Tables |-> IF u = t THEN m ELSE lookup_map[u]]
    BY <1>5, <1>6, <1>7
<1>9. UNCHANGED <<store, chain_tip, shifts, panicked>>
    BY DEF inner_put
<1>. QED BY <1>1, <1>4, <1>7, <1>8, <1>9

\* put and insert_metadata keep the invariant; a metadata entry is new.
LEMMA PutInv ==
    ASSUME IndInv, Len(stack) > 0, NEW t \in Tables, NEW k \in Key, NEW v \in Value, inner_put(t, k, v),
           t = "metadata" => ~ has_metadata_entry(k)
    PROVE  IndInv'
<1>1. PICK e \in Edit : e = [key |-> k, value |-> v]
    BY Zenon DEF Edit
<1>2. /\ stack' \in Contexts /\ Len(stack') = Len(stack)
      /\ Log(t)' = Written(Log(t), e)
      /\ \A u \in Tables : u # t => Log(u)' = Log(u)
      /\ lookup_map' = [u \in Tables |-> IF u = t THEN Pushed(lookup_map[t], k, v) ELSE lookup_map[u]]
      /\ UNCHANGED <<store, chain_tip, shifts, panicked>>
    BY <1>1, PutFacts
<1>3. ASSUME NEW u \in Tables PROVE IsLookupMap(lookup_map'[u]) /\ Agrees(lookup_map'[u], Log(u)')
  <2>1. Log(u) \in Logs /\ Len(Log(u)) > 0 /\ IsLookupMap(lookup_map[u]) /\ Agrees(lookup_map[u], Log(u))
    BY TableFacts
  <2>2. CASE u = t
    <3>1. IsLookupMap(Pushed(lookup_map[t], k, v)) /\ Agrees(Pushed(lookup_map[t], k, v), Written(Log(t), e))
      BY <1>1, <2>1, <2>2, WrittenAgrees
    <3>2. lookup_map'[u] = Pushed(lookup_map[t], k, v)
      BY <1>2, <2>2
    <3>. QED BY <1>2, <2>2, <3>1, <3>2, SMTT(30)
  <2>3. CASE u # t
    <3>1. lookup_map'[u] = lookup_map[u]
      BY <1>2, <2>3
    <3>. QED BY <1>2, <2>1, <2>3, <3>1
  <2>. QED BY <2>2, <2>3
<1>4. WrittenOnce(store["metadata"], Log("metadata")')
  <2>1. "metadata" \in Tables
    BY DEF Tables
  <2>2. WrittenOnce(store["metadata"], Log("metadata"))
    BY InvIs
  <2>3. CASE t # "metadata"
    BY <1>2, <2>1, <2>2, <2>3
  <2>4. CASE t = "metadata"
    <3>1. PICK map : map = lookup_map["metadata"]
      OBVIOUS
    <3>2. IsLookupMap(map) /\ Agrees(map, Log("metadata")) /\ Log("metadata") \in Logs /\ Len(Log("metadata")) > 0
      BY <2>1, <3>1, TableFacts, SMTT(30)
    <3>3. (IF k \in DOMAIN map THEN map[k][Len(map[k])] ELSE store["metadata"][k]) = Absent
      BY <2>4, <3>1 DEF has_metadata_entry, get_metadata
    <3>4. k \in DOMAIN map => map[k][Len(map[k])] \in Value
      <4>1. k \in DOMAIN map => (map[k] \in Seq(Value) /\ map[k] # <<>>)
        BY <3>2 DEF IsLookupMap
      <4>. QED BY <4>1
    <3>5. k \notin DOMAIN map /\ store["metadata"][k] = Absent
      BY <3>3, <3>4, AbsentAssumption, SMTT(30)
    <3>6. WrittenOnce(store["metadata"], Written(Log("metadata"), e))
      BY <1>1, <2>2, <3>2, <3>5, WrittenWrittenOnce, SMTT(30)
    <3>. QED BY <1>2, <2>4, <3>6
  <2>. QED BY <2>3, <2>4
<1>5. lookup_map' = [u \in Tables |-> lookup_map'[u]]
    BY <1>2
<1>6. store' = store /\ panicked' = panicked /\ chain_tip' = chain_tip /\ shifts' = shifts
    BY <1>2
<1>7. TipOK'
    BY <1>6, InvIs DEF TipOK, PriorTips
<1>. QED BY <1>2, <1>3, <1>4, <1>5, <1>6, <1>7, InvIs, InvNextIs, SMTT(30)

\* A nested commit.
LEMMA CommitNestedInv ==
    ASSUME IndInv, CommitNested
    PROVE  IndInv'
<1>1. /\ Len(stack) > 1
      /\ stack' = Append(SubSeq(stack, 1, Len(stack) - 2), BubbleUp(stack[Len(stack) - 1], stack[Len(stack)]))
      /\ lookup_map' = lookup_map /\ store' = store /\ panicked' = panicked
      /\ chain_tip' = chain_tip /\ shifts' = shifts
    BY DEF CommitNested
<1>2. stack \in Contexts /\ "metadata" \in Tables /\ Len(stack) \in Nat
    BY InvIs DEF Tables, Contexts
<1>3. stack' \in Contexts /\ Len(stack') = Len(stack) - 1
    BY <1>1, <1>2, MergedLog
<1>4. ASSUME NEW t \in Tables
      PROVE  /\ Agrees(lookup_map[t], Log(t)')
             /\ \A rows : WrittenOnce(rows, Log(t)) => WrittenOnce(rows, Log(t)')
  <2>1. Log(t) \in Logs /\ Len(Log(t)) > 1 /\ Agrees(lookup_map[t], Log(t))
    BY <1>1, TableFacts
  <2>2. Log(t)' = Merged(Log(t))
    BY <1>1, <1>2, MergedLog
  <2>3. Agrees(lookup_map[t], Merged(Log(t)))
    BY <2>1, MergedAgrees
  <2>4. \A rows : WrittenOnce(rows, Log(t)) => WrittenOnce(rows, Merged(Log(t)))
    BY <2>1, MergedWrittenOnce
  <2>. QED BY <2>2, <2>3, <2>4
<1>5. TipOK'
    BY <1>1, InvIs DEF TipOK, PriorTips
<1>6. Len(stack') <= MaxDepth
    BY <1>2, <1>3, InvIs, DepthAssumption, SMTT(30)
<1>7. WrittenOnce(store["metadata"], Log("metadata")')
    BY <1>2, <1>4, InvIs
<1>. QED BY <1>1, <1>3, <1>4, <1>5, <1>6, <1>7, InvIs, InvNextIs, SMTT(30)

\* The outermost commit replays every edit, finds each of them, and leaves nothing.
LEMMA CommitToStoreInv ==
    ASSUME IndInv, CommitToStore
    PROVE  IndInv'
<1>0. DEFINE maps == [t \in Tables |-> ReplayAll(lookup_map[t], stack[1][t])]
<1>1. /\ Len(stack) = 1
      /\ lookup_map' = [t \in Tables |-> maps[t][Len(stack[1][t])]]
      /\ panicked' = \/ \E t \in Tables : FailsAll(maps[t], stack[1][t])
                     \/ InsertFails(store["metadata"], stack[1]["metadata"])
      /\ store' = [t \in Tables |-> PutAll(store[t], stack[1][t])]
      /\ stack' = <<>>
      /\ chain_tip' = chain_tip /\ shifts' = shifts
    BY DEF CommitToStore
<1>2. stack \in Contexts /\ "metadata" \in Tables
    BY InvIs DEF Tables
<1>3. stack' \in Contexts /\ Len(stack') = 0
    BY <1>1, SMTT(30) DEF Contexts
<1>4. ASSUME NEW t \in Tables
      PROVE  /\ ~ FailsAll(maps[t], stack[1][t])
             /\ IsLookupMap(lookup_map'[t])
             /\ DOMAIN lookup_map'[t] = {}
             /\ store'[t] \in [Key -> Value \cup {Absent}]
  <2>1. PICK log \in Logs : log = Log(t) /\ Len(log) = 1
    BY <1>1, TableFacts
  <2>2. /\ IsLookupMap(lookup_map[t]) /\ Agrees(lookup_map[t], log)
        /\ store[t] \in [Key -> Value \cup {Absent}]
    BY <2>1, TableFacts, SMTT(30)
  <2>3. PICK es : es = log[1] /\ es = stack[1][t]
    BY <1>1, <1>2, <2>1, LogIs, SMTT(30)
  <2>4. /\ ~ FailsAll(ReplayAll(lookup_map[t], es), es)
        /\ IsLookupMap(ReplayAll(lookup_map[t], es)[Len(es)])
        /\ DOMAIN ReplayAll(lookup_map[t], es)[Len(es)] = {}
    BY <2>1, <2>2, <2>3, CommitAll, ZenonT(30)
  <2>5. maps[t] = ReplayAll(lookup_map[t], es)
    BY <2>3, SMTT(30)
  <2>6. lookup_map'[t] = ReplayAll(lookup_map[t], es)[Len(es)]
    BY <1>1, <2>3, <2>5, SMTT(30)
  <2>7. PutAll(store[t], es) \in [Key -> Value \cup {Absent}]
    <3>1. View(store[t], log, 1) \in [Key -> Value \cup {Absent}]
      BY <2>2, ViewType
    <3>2. PutAll(store[t], log[1]) = View(store[t], log, 1)
      BY <2>1, StoredView, SMTT(30)
    <3>. QED BY <2>3, <3>1, <3>2, SMTT(30)
  <2>8. store'[t] = PutAll(store[t], es)
    BY <1>1, <2>3
  <2>. QED BY <2>3, <2>4, <2>5, <2>6, <2>7, <2>8, SMTT(30)
<1>5. ~ InsertFails(store["metadata"], stack[1]["metadata"])
  <2>1. PICK log \in Logs : log = Log("metadata") /\ Len(log) = 1
    BY <1>1, <1>2, TableFacts, SMTT(30)
  <2>2. log[1] = stack[1]["metadata"]
    BY <1>1, <1>2, <2>1, LogIs, SMTT(30)
  <2>. QED BY <2>1, <2>2, InsertSucceeds, InvIs, SMTT(30)
<1>6. ASSUME NEW t \in Tables PROVE Log(t)' \in Logs /\ Len(Log(t)') = 0
    BY <1>1 DEF Log, Logs
<1>7. \A t \in Tables : Agrees(lookup_map'[t], Log(t)') /\ WrittenOnce(store'[t], Log(t)')
    BY <1>4, <1>6, NothingPending, ZenonT(30)
<1>8. panicked' = FALSE
    BY <1>1, <1>4, <1>5, SMTT(30)
<1>9. TipOK'
    BY <1>1, InvIs, SMTT(30) DEF TipOK, PriorTips
<1>10. store' \in [Tables -> [Key -> Value \cup {Absent}]]
    BY <1>1, <1>4, SMTT(30)
<1>11. lookup_map' = [t \in Tables |-> lookup_map'[t]]
    BY <1>1
<1>12. Len(stack') <= MaxDepth
    BY <1>3, DepthAssumption
<1>. QED BY <1>2, <1>3, <1>4, <1>7, <1>8, <1>9, <1>10, <1>11, <1>12, InvNextIs, SMTT(30)

\* Every step keeps the invariant.
LEMMA NextInv ==
    ASSUME IndInv, [Next]_vars
    PROVE  IndInv'
<1>0. /\ TipOK /\ stack \in Contexts /\ Len(stack) \in Nat
      /\ (stack # <<>> => Len(stack) > 0)
    BY InvIs DEF Contexts
<1>1. CASE nest
  <2>1. TipOK'
    BY <1>0, <1>1 DEF nest, TipOK, PriorTips
  <2>. QED BY <1>1, <2>1, OpenInv DEF nest
<1>2. CASE rollback
  <2>1. TipOK'
    BY <1>0, <1>2 DEF rollback, TipOK, PriorTips
  <2>2. BaseDepth \in Nat
    <3>1. CASE shifts = <<>>
      BY <3>1 DEF BaseDepth
    <3>2. CASE shifts # <<>>
      <4>1. shifts[Len(shifts)] \in Shift
        BY <1>0, <3>2 DEF TipOK
      <4>. QED BY <3>2, <4>1 DEF BaseDepth, Shift
    <3>. QED BY <3>1, <3>2
  <2>3. Len(stack) > 0
    BY <1>0, <1>2, <2>2 DEF rollback
  <2>. QED BY <1>2, <2>1, <2>3, DropInv, SMTT(30) DEF rollback
<1>3. CASE CommitNested
    BY <1>3, CommitNestedInv
<1>4. CASE CommitToStore
    BY <1>4, CommitToStoreInv
<1>5. CASE EndAtBlock
  <2>1. TipOK'
    BY <1>0, <1>5, EndShift DEF EndAtBlock
  <2>2. shifts[Len(shifts)] \in Shift
    BY <1>0, <1>5 DEF TipOK, EndAtBlock
  <2>3. Len(stack) > 0
    BY <1>5, <2>2 DEF EndAtBlock, BaseDepth, Shift
  <2>. QED BY <1>5, <2>1, <2>3, DropInv, SMTT(30) DEF EndAtBlock
<1>6. ASSUME NEW k \in Key, NEW v \in Value, put(k, v) PROVE IndInv'
    BY <1>0, <1>6, PutInv DEF put, CanWrite, Tables
<1>7. ASSUME NEW k \in MetadataKey, NEW v \in Value, insert_metadata(k, v) PROVE IndInv'
    BY <1>0, <1>7, PutInv, PastAssumption, SMTT(30) DEF insert_metadata, CanWrite, Tables
<1>8. ASSUME NEW b \in DOMAIN Past, BeginAtBlock(b) PROVE IndInv'
  <2>1. PICK d \in Nat \ {0} : d = Len(stack) + 1
    BY <1>0
  <2>2. TipOK'
    BY <1>0, <1>8, <2>1, BeginShift, SMTT(30) DEF BeginAtBlock
  <2>. QED BY <1>8, <2>2, OpenInv DEF BeginAtBlock
<1>9. CASE UNCHANGED vars
    BY <1>9 DEF vars, IndInv, TypeOK, NoPanic, Running, LookupMapAgrees, MetadataOnce, PriorTips, Log
<1>. QED BY <1>1, <1>2, <1>3, <1>4, <1>5, <1>6, <1>7, <1>8, <1>9, SMTT(30) DEF Next

\* The wrapper keeps its two records of the pending edits in step, whatever sequence
\* of nest, put, insert_metadata, rollback, commit and at-block evaluations is made.
THEOREM Invariance == Spec => []IndInv
<1>1. Init => IndInv
    BY InitInv
<1>2. IndInv /\ [Next]_vars => IndInv'
    BY NextInv
<1>. QED BY <1>1, <1>2, PTL DEF Spec

\* Histories are never empty, and the tip is moved exactly during at-block evaluations.
THEOREM TypeCorrect == Spec => []TypeOK
<1>1. IndInv => TypeOK
    BY DEF IndInv
<1>. QED BY <1>1, Invariance, PTL

\* No assertion or expect of RollbackWrapper ever fails.
THEOREM PanicFree == Spec => []NoPanic
<1>1. IndInv => NoPanic
    BY DEF IndInv
<1>. QED BY <1>1, Invariance, PTL

\* lookup_map is the edit log by key, in the order of the writes.
THEOREM LookupMapCorrect == Spec => []LookupMapAgrees
<1>1. IndInv => LookupMapAgrees
    BY DEF IndInv
<1>. QED BY <1>1, Invariance, PTL
----------------------------------------------------------------------------
\* The refinement of NestedStore.

TableView == [Tables -> [Key -> Value \cup {Absent}]]
AllViews == [n \in 1 .. Len(stack) + 1 |-> ViewAt(n - 1)]

\* What get and get_metadata return at the open block is the top view, so the views
\* are those of the log.
LEMMA ViewsAre == IndInv => Views = AllViews
<1> SUFFICES ASSUME IndInv PROVE Views = AllViews
    OBVIOUS
<1>1. PICK N \in Nat : N = Len(stack)
    BY InvIs DEF Contexts
<1>2. ASSUME NEW t \in Tables, NEW k \in Key PROVE ReadView[t][k] = View(store[t], Log(t), N)[k]
  <2>1. ViewAt(Len(stack))[t] = View(store[t], Log(t), N)
    BY <1>1 DEF ViewAt
  <2>2. ReadView[t][k] = IF chain_tip # Open THEN ViewAt(Len(stack))[t][k]
                         ELSE IF t = "data" THEN get(k) ELSE get_metadata(k)
    BY DEF ReadView
  <2>3. CASE chain_tip # Open
    BY <2>1, <2>2, <2>3, SMTT(30)
  <2>4. CASE chain_tip = Open
    <3>1. /\ Log(t) \in Logs /\ Len(Log(t)) = N
          /\ IsLookupMap(lookup_map[t]) /\ Agrees(lookup_map[t], Log(t))
      BY <1>1, TableFacts, SMTT(30)
    <3>2. View(store[t], Log(t), N)[k] = IF k \in DOMAIN lookup_map[t]
                                         THEN lookup_map[t][k][Len(lookup_map[t][k])] ELSE store[t][k]
      BY <3>1, ReadIsTopView
    <3>3. t = "data" \/ t = "metadata"
      BY DEF Tables
    <3>4. CASE t = "data"
      BY <2>2, <2>4, <3>2, <3>4, SMTT(30) DEF get, StoreAt
    <3>5. CASE t = "metadata"
      BY <2>2, <2>4, <3>2, <3>5, SMTT(30) DEF get_metadata
    <3>. QED BY <3>3, <3>4, <3>5, SMTT(30)
  <2>. QED BY <2>3, <2>4
<1>3. ASSUME NEW t \in Tables PROVE ReadView[t] = View(store[t], Log(t), N)
  <2>1. PICK f : f = View(store[t], Log(t), N)
    OBVIOUS
  <2>2. f = [k \in Key |-> f[k]]
    BY <2>1 DEF View
  <2>3. PICK g : g = ReadView[t]
    OBVIOUS
  <2>4. g = [k \in Key |-> g[k]]
    BY <2>3 DEF ReadView
  <2>5. \A k \in Key : g[k] = f[k]
    BY <1>2, <2>1, <2>3
  <2>. QED BY <2>1, <2>2, <2>3, <2>4, <2>5, SMTT(30)
<1>4. ReadView = ViewAt(N)
  <2>1. PICK f : f = ReadView
    OBVIOUS
  <2>2. f = [t \in Tables |-> f[t]]
    BY <2>1 DEF ReadView
  <2>3. PICK g : g = ViewAt(N)
    OBVIOUS
  <2>4. g = [t \in Tables |-> g[t]] /\ \A t \in Tables : g[t] = View(store[t], Log(t), N)
    BY <2>3 DEF ViewAt
  <2>5. \A t \in Tables : f[t] = g[t]
    BY <1>3, <2>1, <2>4, SMTT(30)
  <2>. QED BY <2>1, <2>2, <2>3, <2>4, <2>5
<1>5. Views = [n \in 1 .. N + 1 |-> IF n = N + 1 THEN ReadView ELSE ViewAt(n - 1)]
    BY <1>1 DEF Views
<1>6. AllViews = [n \in 1 .. N + 1 |-> ViewAt(n - 1)]
    BY <1>1 DEF AllViews
<1>7. \A n \in 1 .. N + 1 : (IF n = N + 1 THEN ReadView ELSE ViewAt(n - 1)) = ViewAt(n - 1)
  <2> SUFFICES ASSUME NEW n \in 1 .. N + 1, n = N + 1 PROVE ReadView = ViewAt(n - 1)
    OBVIOUS
  <2>1. n - 1 = N
    OBVIOUS
  <2>. QED BY <1>4, <2>1, SMTT(30)
<1>. QED BY <1>5, <1>6, <1>7, SMTT(30)

\* The views are a sequence, the store first.
LEMMA ViewsSeq ==
    IndInv => /\ AllViews \in Seq(TableView)
              /\ Len(AllViews) = Len(stack) + 1
              /\ \A n \in 0 .. Len(stack) : AllViews[n + 1] = ViewAt(n)
<1> SUFFICES ASSUME IndInv
             PROVE  /\ AllViews \in Seq(TableView)
                    /\ Len(AllViews) = Len(stack) + 1
                    /\ \A n \in 0 .. Len(stack) : AllViews[n + 1] = ViewAt(n)
    OBVIOUS
<1>1. PICK N \in Nat : N = Len(stack)
    BY InvIs DEF Contexts
<1>2. ASSUME NEW n \in 0 .. N PROVE ViewAt(n) \in TableView
  <2>1. \A t \in Tables : View(store[t], Log(t), n) \in [Key -> Value \cup {Absent}]
    BY TableFacts, ViewType, SMTT(30)
  <2>. QED BY <2>1, SMTT(30) DEF ViewAt, TableView
<1>3. AllViews = [n \in 1 .. N + 1 |-> ViewAt(n - 1)]
    BY <1>1 DEF AllViews
<1>4. \A n \in 1 .. N + 1 : ViewAt(n - 1) \in TableView
  <2> SUFFICES ASSUME NEW n \in 1 .. N + 1 PROVE ViewAt(n - 1) \in TableView
    OBVIOUS
  <2>1. n - 1 \in 0 .. N
    OBVIOUS
  <2>. QED BY <1>2, <2>1
<1>5. AllViews \in Seq(TableView) /\ Len(AllViews) = N + 1
    BY <1>3, <1>4, SMTT(30)
<1>6. ASSUME NEW n \in 0 .. N PROVE AllViews[n + 1] = ViewAt(n)
  <2>1. n + 1 \in 1 .. N + 1 /\ (n + 1) - 1 = n
    OBVIOUS
  <2>2. AllViews[n + 1] = ViewAt((n + 1) - 1)
    BY <1>3, <2>1, SMTT(30)
  <2>. QED BY <2>1, <2>2
<1>. QED BY <1>1, <1>5, <1>6, SMTT(30)
ViewsOK ==
    /\ Views = AllViews
    /\ AllViews \in Seq(TableView)
    /\ Len(AllViews) = Len(stack) + 1
    /\ \A n \in 0 .. Len(stack) : AllViews[n + 1] = ViewAt(n)

\* The same of the next state.
LEMMA ViewsNext ==
    IndInv' => /\ Views' = AllViews'
               /\ AllViews' \in Seq(TableView)
               /\ Len(AllViews') = Len(stack') + 1
               /\ \A n \in 0 .. Len(stack') : AllViews'[n + 1] = ViewAt(n)'
<1>1. IndInv => ViewsOK
    BY ViewsAre, ViewsSeq DEF ViewsOK
<1>2. IndInv' => ViewsOK'
    BY <1>1, PTL
<1>. QED BY <1>2, SMTT(30) DEF ViewsOK, TableView

\* Sequences are equal when their elements are.
LEMMA SameSeq ==
    ASSUME NEW V, NEW s \in Seq(V), NEW r \in Seq(V), Len(s) = Len(r), \A i \in 1 .. Len(s) : s[i] = r[i]
    PROVE  s = r
    OBVIOUS

\* What ViewAt is made of.
LEMMA ViewAtIs ==
    ASSUME NEW n
    PROVE  /\ ViewAt(n) = [t \in Tables |-> View(store[t], Log(t), n)]
           /\ ViewAt(n)' = [t \in Tables |-> View(store'[t], Log(t)', n)]
    BY DEF ViewAt

\* nest and evaluate_at_block open a copy of the top view.
LEMMA OpenStep ==
    ASSUME IndInv, IndInv', stack' = Append(stack, EmptyContext), store' = store
    PROVE  Abstract!Nest
<1>1. stack \in Contexts /\ "data" \in Tables
    BY InvIs DEF Tables
<1>2. PICK N \in Nat : N = Len(stack)
    BY <1>1 DEF Contexts
<1>3. Len(stack') = N + 1
    BY <1>1, <1>2, OpenedLog
<1>4. PICK v \in Seq(TableView) : v = Views /\ Len(v) = N + 1 /\ \A n \in 0 .. N : v[n + 1] = ViewAt(n)
    BY <1>2, ViewsAre, ViewsSeq, SMTT(30)
<1>5. PICK w \in Seq(TableView) : w = Views' /\ Len(w) = N + 2 /\ \A n \in 0 .. N + 1 : w[n + 1] = ViewAt(n)'
    BY <1>3, ViewsNext, SMTT(30)
<1>6. ASSUME NEW t \in Tables
      PROVE  /\ \A n \in 0 .. N : View(store'[t], Log(t)', n) = View(store[t], Log(t), n)
             /\ View(store'[t], Log(t)', N + 1) = View(store[t], Log(t), N)
  <2>1. /\ Log(t) \in Logs /\ Len(Log(t)) = N
        /\ IsLookupMap(lookup_map[t]) /\ Agrees(lookup_map[t], Log(t))
    BY <1>2, TableFacts
  <2>2. Log(t)' = Append(Log(t), <<>>)
    BY <1>1, OpenedLog
  <2>. QED BY <2>1, <2>2, OpenedViews, SMTT(30)
<1>7. ASSUME NEW n \in 0 .. N PROVE ViewAt(n)' = ViewAt(n)
    BY <1>6, ViewAtIs
<1>8. ViewAt(N + 1)' = ViewAt(N)
    BY <1>6, ViewAtIs
<1>9. w = Append(v, v[N + 1])
  <2>1. v[N + 1] \in TableView
    BY <1>4
  <2>2. PICK x : x = Append(v, v[N + 1])
    BY Zenon
  <2>3. x \in Seq(TableView) /\ Len(x) = N + 2 /\ x[N + 2] = v[N + 1] /\ \A i \in 1 .. N + 1 : x[i] = v[i]
    BY <1>4, <2>1, <2>2, OneMore, SMTT(30)
  <2>4. ASSUME NEW i \in 1 .. N + 2 PROVE w[i] = x[i]
    <3>1. PICK n \in 0 .. N + 1 : i = n + 1
      <4>1. i - 1 \in 0 .. N + 1 /\ i = (i - 1) + 1
        OBVIOUS
      <4>. QED BY <4>1
    <3>2. CASE n = N + 1
      <4>1. w[N + 2] = ViewAt(N + 1)' /\ v[N + 1] = ViewAt(N)
        BY <1>4, <1>5, <3>1, <3>2, SMTT(30)
      <4>. QED BY <1>8, <2>3, <3>1, <3>2, <4>1, SMTT(30)
    <3>3. CASE n \in 0 .. N
      <4>1. w[n + 1] = ViewAt(n)' /\ v[n + 1] = ViewAt(n)
        BY <1>4, <1>5, <3>3, SMTT(30)
      <4>. QED BY <1>7, <2>3, <3>1, <3>3, <4>1, SMTT(30)
    <3>. QED BY <3>2, <3>3
  <2>. QED BY <1>5, <2>2, <2>3, <2>4, SameSeq, SMTT(30)
<1>10. Views' = Append(Views, Views[Len(Views)])
    BY <1>4, <1>5, <1>9, SMTT(30)
<1>. QED BY <1>10 DEF Abstract!Nest

\* rollback and the end of an at-block evaluation drop the top view.
LEMMA DropStep ==
    ASSUME IndInv, IndInv', Len(stack) > 0, stack' = SubSeq(stack, 1, Len(stack) - 1), store' = store
    PROVE  Abstract!Rollback
<1>1. stack \in Contexts /\ "data" \in Tables
    BY InvIs DEF Tables
<1>2. PICK N \in Nat \ {0} : N = Len(stack)
    BY <1>1 DEF Contexts
<1>3. Len(stack') = N - 1
    BY <1>1, <1>2, DroppedLog, SMTT(30)
<1>4. PICK v \in Seq(TableView) : v = Views /\ Len(v) = N + 1 /\ \A n \in 0 .. N : v[n + 1] = ViewAt(n)
    BY <1>2, ViewsAre, ViewsSeq
<1>5. PICK w \in Seq(TableView) : w = Views' /\ Len(w) = N /\ \A n \in 0 .. N - 1 : w[n + 1] = ViewAt(n)'
  <2>1. Len(stack') + 1 = N /\ 0 .. Len(stack') = 0 .. N - 1
    BY <1>3
  <2>. QED BY <2>1, ViewsNext, Zenon
<1>6. ASSUME NEW n \in 0 .. N - 1 PROVE ViewAt(n)' = ViewAt(n)
  <2>1. ASSUME NEW t \in Tables PROVE View(store'[t], Log(t)', n) = View(store[t], Log(t), n)
    <3>1. PICK log \in Logs : log = Log(t) /\ Len(log) = N
      BY <1>2, TableFacts, SMTT(30)
    <3>2. IsLookupMap(lookup_map[t]) /\ Agrees(lookup_map[t], log)
      BY <3>1, TableFacts
    <3>3. Log(t)' = SubSeq(log, 1, Len(log) - 1)
      BY <1>1, <1>2, <3>1, DroppedLog, SMTT(30)
    <3>4. View(store[t], SubSeq(log, 1, Len(log) - 1), n) = View(store[t], log, n)
      <4>1. Len(log) > 0 /\ n \in 0 .. Len(log) - 1
        BY <3>1
      <4>2. \A m \in 0 .. Len(log) - 1 : View(store[t], SubSeq(log, 1, Len(log) - 1), m) = View(store[t], log, m)
        BY <3>2, <4>1, DroppedViews, Zenon
      <4>. QED BY <4>1, <4>2, Zenon
    <3>. QED BY <3>1, <3>3, <3>4, SMTT(30)
  <2>. QED BY <2>1, ViewAtIs
<1>7. w = SubSeq(v, 1, N)
  <2>1. PICK x : x = SubSeq(v, 1, N)
    BY Zenon
  <2>2. x \in Seq(TableView) /\ Len(x) = N /\ \A i \in 1 .. N : x[i] = v[i]
    BY <1>4, <2>1, Prefix, SMTT(30)
  <2>3. ASSUME NEW i \in 1 .. N PROVE w[i] = x[i]
    <3>1. PICK n \in 0 .. N - 1 : i = n + 1
      <4>1. i - 1 \in 0 .. N - 1 /\ i = (i - 1) + 1
        OBVIOUS
      <4>. QED BY <4>1
    <3>2. w[n + 1] = ViewAt(n)' /\ v[n + 1] = ViewAt(n)
      BY <1>4, <1>5
    <3>. QED BY <1>6, <2>2, <3>1, <3>2, SMTT(30)
  <2>. QED BY <1>5, <2>1, <2>2, <2>3, SameSeq, SMTT(30)
<1>8. Len(Views) = N + 1 /\ Views' = SubSeq(Views, 1, N)
    BY <1>4, <1>5, <1>7
<1>9. Len(Views) > 1 /\ Views' = SubSeq(Views, 1, Len(Views) - 1)
    BY <1>8
<1>. QED BY <1>9 DEF Abstract!Rollback

\* put and insert_metadata change one key of the top view.
LEMMA WriteStep ==
    ASSUME IndInv, IndInv', Len(stack) > 0, NEW t \in Tables, NEW k \in Key, NEW val \in Value,
           inner_put(t, k, val)
    PROVE  Abstract!Write(t, k, val)
<1>1. PICK e \in Edit : e = [key |-> k, value |-> val]
    BY Zenon DEF Edit
<1>2. PICK N \in Nat \ {0} : N = Len(stack)
    BY InvIs, SMTT(30) DEF Contexts
<1>3. /\ Len(stack') = N /\ store' = store
      /\ Log(t)' = Written(Log(t), e)
      /\ \A u \in Tables : u # t => Log(u)' = Log(u)
    BY <1>1, <1>2, PutFacts, SMTT(30)
<1>4. PICK v \in Seq(TableView) : v = Views /\ Len(v) = N + 1 /\ \A n \in 0 .. N : v[n + 1] = ViewAt(n)
    BY <1>2, ViewsAre, ViewsSeq, SMTT(30)
<1>5. PICK w \in Seq(TableView) : w = Views' /\ Len(w) = N + 1 /\ \A n \in 0 .. N : w[n + 1] = ViewAt(n)'
    BY <1>3, ViewsNext, SMTT(30)
<1>6. /\ Log(t) \in Logs /\ Len(Log(t)) = N
      /\ IsLookupMap(lookup_map[t]) /\ Agrees(lookup_map[t], Log(t))
    BY <1>2, TableFacts, SMTT(30)
<1>7. /\ \A n \in 0 .. N - 1 : View(store[t], Log(t)', n) = View(store[t], Log(t), n)
      /\ View(store[t], Log(t)', N) = [View(store[t], Log(t), N) EXCEPT ![k] = val]
  <2>1. PICK log \in Logs : log = Log(t)
    BY <1>6
  <2>2. PICK new : new = Written(log, e)
    BY SMTT(30)
  <2>3. /\ \A n \in 0 .. N - 1 : View(store[t], new, n) = View(store[t], log, n)
        /\ View(store[t], new, N) = [View(store[t], log, N) EXCEPT ![k] = val]
    BY <1>1, <1>6, <2>1, <2>2, WrittenViews, SMTT(30)
  <2>4. Log(t)' = new
    BY <1>3, <2>1, <2>2, SMTT(30)
  <2>. QED BY <2>1, <2>3, <2>4, SMTT(30)
<1>8. ASSUME NEW n \in 0 .. N - 1 PROVE ViewAt(n)' = ViewAt(n)
  <2>1. \A u \in Tables : View(store'[u], Log(u)', n) = View(store[u], Log(u), n)
    BY <1>3, <1>7
  <2>. QED BY <2>1, ViewAtIs, SMTT(30)
<1>9. PICK top \in TableView : top = ViewAt(N)
  <2>1. N \in 0 .. N /\ N + 1 \in 1 .. N + 1
    OBVIOUS
  <2>. QED BY <1>4, <2>1
<1>10. PICK row : row = [top[t] EXCEPT ![k] = val]
    BY Zenon
<1>11. row \in [Key -> Value \cup {Absent}]
    BY <1>10 DEF TableView
<1>12. PICK new \in TableView : new = [top EXCEPT ![t] = row]
    BY <1>11, Zenon DEF TableView
<1>13. ViewAt(N)' = new
  <2>1. ViewAt(N)' = [u \in Tables |-> View(store'[u], Log(u)', N)]
    BY ViewAtIs, SMTT(30)
  <2>2. top = [u \in Tables |-> View(store[u], Log(u), N)]
    BY <1>9, ViewAtIs, SMTT(30)
  <2>3. View(store'[t], Log(t)', N) = row
    BY <1>3, <1>7, <1>10, <2>2, SMTT(30)
  <2>4. \A u \in Tables : u # t => View(store'[u], Log(u)', N) = top[u]
    BY <1>3, <2>2
  <2>5. new = [u \in Tables |-> IF u = t THEN row ELSE top[u]]
    BY <1>12, Zenon DEF TableView
  <2>. QED BY <2>1, <2>3, <2>4, <2>5, SMTT(30)
<1>14. w = [v EXCEPT ![N + 1] = new]
  <2>1. N + 1 \in 1 .. Len(v)
    BY <1>4
  <2>2. PICK x : x = [v EXCEPT ![N + 1] = new]
    BY Zenon
  <2>3. /\ x \in Seq(TableView) /\ Len(x) = N + 1 /\ x[N + 1] = new
        /\ \A i \in 1 .. N + 1 : i # N + 1 => x[i] = v[i]
    BY <1>4, <2>1, <2>2, Replaced, SMTT(30)
  <2>4. ASSUME NEW i \in 1 .. N + 1 PROVE w[i] = x[i]
    <3>1. PICK n \in 0 .. N : i = n + 1
      <4>1. i - 1 \in 0 .. N /\ i = (i - 1) + 1
        OBVIOUS
      <4>. QED BY <4>1
    <3>2. w[n + 1] = ViewAt(n)' /\ v[n + 1] = ViewAt(n)
      BY <1>4, <1>5, SMTT(30)
    <3>3. CASE n = N
      <4>1. w[N + 1] = ViewAt(N)'
        BY <1>5, SMTT(30)
      <4>. QED BY <1>13, <2>3, <3>1, <3>3, <4>1, SMTT(30)
    <3>4. CASE n \in 0 .. N - 1
      BY <1>8, <2>3, <3>1, <3>2, <3>4, SMTT(30)
    <3>. QED BY <3>3, <3>4
  <2>. QED BY <1>5, <2>2, <2>3, <2>4, SameSeq, SMTT(30)
<1>15. v[N + 1] = top
    BY <1>4, <1>9
<1>16. w = [v EXCEPT ![Len(v)][t][k] = val]
    BY <1>4, <1>10, <1>12, <1>14, <1>15, SMTT(30)
<1>17. Len(Views) > 1 /\ Views' = [Views EXCEPT ![Len(Views)][t][k] = val]
    BY <1>4, <1>5, <1>16, SMTT(30)
<1>. QED BY <1>17 DEF Abstract!Write

\* A commit puts the top view in the place of the one below.
LEMMA CommitStep ==
    ASSUME IndInv, IndInv', NEW N \in Nat \ {0}, N = Len(stack), Len(stack') = N - 1,
           \A n \in 0 .. N - 2 : ViewAt(n)' = ViewAt(n),
           ViewAt(N - 1)' = ViewAt(N)
    PROVE  Abstract!Commit
<1>1. PICK v \in Seq(TableView) : v = Views /\ Len(v) = N + 1 /\ \A n \in 0 .. N : v[n + 1] = ViewAt(n)
    BY ViewsAre, ViewsSeq
<1>2. PICK w \in Seq(TableView) : w = Views' /\ Len(w) = N /\ \A n \in 0 .. N - 1 : w[n + 1] = ViewAt(n)'
  <2>1. Len(stack') + 1 = N /\ 0 .. Len(stack') = 0 .. N - 1
    OBVIOUS
  <2>. QED BY <2>1, ViewsNext, Zenon
<1>3. v[N + 1] \in TableView /\ v[N + 1] = ViewAt(N)
    BY <1>1
<1>4. PICK M \in Nat : M = N - 1
  <2>1. N - 1 \in Nat
    OBVIOUS
  <2>. QED BY <2>1, Zenon
<1>5. PICK y : y = SubSeq(v, 1, M)
    BY Zenon
<1>6. y \in Seq(TableView) /\ Len(y) = M /\ \A i \in 1 .. M : y[i] = v[i]
    BY <1>1, <1>4, <1>5, Prefix, SMTT(30)
<1>7. PICK x : x = Append(y, v[N + 1])
    BY Zenon
<1>8. x \in Seq(TableView) /\ Len(x) = N /\ x[N] = v[N + 1] /\ \A i \in 1 .. M : x[i] = y[i]
  <2>1. x \in Seq(TableView) /\ Len(x) = M + 1 /\ x[M + 1] = v[N + 1] /\ \A i \in 1 .. M : x[i] = y[i]
    BY <1>3, <1>6, <1>7, OneMore, SMTT(30)
  <2>2. M + 1 = N
    BY <1>4
  <2>. QED BY <2>1, <2>2, ZenonT(30)
<1>9. ASSUME NEW i \in 1 .. N PROVE w[i] = x[i]
  <2>1. PICK n \in 0 .. N - 1 : i = n + 1
    <3>1. i - 1 \in 0 .. N - 1 /\ i = (i - 1) + 1
      OBVIOUS
    <3>. QED BY <3>1
  <2>2. w[n + 1] = ViewAt(n)'
    BY <1>2
  <2>3. CASE i = N
    <3>1. N - 1 \in 0 .. N - 1 /\ (N - 1) + 1 = N
      OBVIOUS
    <3>2. w[(N - 1) + 1] = ViewAt(N - 1)'
      BY <1>2, <3>1, Zenon
    <3>. QED BY <1>3, <1>8, <2>3, <3>1, <3>2, SMTT(30)
  <2>4. CASE i # N
    <3>1. n \in 0 .. N - 2 /\ n \in 0 .. N /\ i \in 1 .. M
      BY <1>4, <2>1, <2>4, SMTT(30)
    <3>2. v[n + 1] = ViewAt(n) /\ ViewAt(n)' = ViewAt(n)
      BY <1>1, <3>1, SMTT(30)
    <3>. QED BY <1>6, <1>8, <2>1, <2>2, <3>1, <3>2, SMTT(30)
  <2>. QED BY <2>3, <2>4
<1>10. w = x
    BY <1>2, <1>8, <1>9, SameSeq, SMTT(30)
<1>11. Len(Views) = N + 1 /\ Views' = Append(SubSeq(Views, 1, M), Views[N + 1])
    BY <1>1, <1>2, <1>5, <1>7, <1>10, SMTT(30)
<1>12. Len(Views) > 1 /\ M = Len(Views) - 2 /\ N + 1 = Len(Views)
    BY <1>4, <1>11
<1>. QED BY <1>11, <1>12, Zenon DEF Abstract!Commit

\* A nested commit.
LEMMA CommitNestedStep ==
    ASSUME IndInv, IndInv', CommitNested
    PROVE  Abstract!Commit
<1>1. /\ stack \in Contexts /\ Len(stack) > 1 /\ "data" \in Tables /\ store' = store
      /\ stack' = Append(SubSeq(stack, 1, Len(stack) - 2), BubbleUp(stack[Len(stack) - 1], stack[Len(stack)]))
    BY InvIs DEF CommitNested, Tables
<1>2. PICK N \in Nat \ {0} : N = Len(stack)
    BY <1>1 DEF Contexts
<1>3. Len(stack') = N - 1
    BY <1>1, <1>2, MergedLog
<1>4. ASSUME NEW t \in Tables
      PROVE  /\ \A n \in 0 .. N - 2 : View(store'[t], Log(t)', n) = View(store[t], Log(t), n)
             /\ View(store'[t], Log(t)', N - 1) = View(store[t], Log(t), N)
  <2>1. PICK log \in Logs : log = Log(t) /\ Len(log) = N
    BY <1>2, TableFacts, SMTT(30)
  <2>2. IsLookupMap(lookup_map[t]) /\ Agrees(lookup_map[t], log) /\ Len(log) > 1
    BY <1>1, <1>2, <2>1, TableFacts, SMTT(30)
  <2>3. Log(t)' = Merged(log)
    BY <1>1, <2>1, MergedLog
  <2>4. /\ \A n \in 0 .. Len(log) - 2 : View(store[t], Merged(log), n) = View(store[t], log, n)
        /\ View(store[t], Merged(log), Len(log) - 1) = View(store[t], log, Len(log))
    BY <2>2, MergedViews, Zenon
  <2>5. store'[t] = store[t]
    BY <1>1, SMTT(30)
  <2>. QED BY <2>1, <2>3, <2>4, <2>5, Zenon
<1>5. ASSUME NEW n \in 0 .. N - 2 PROVE ViewAt(n)' = ViewAt(n)
    BY <1>4, ViewAtIs, SMTT(30)
<1>6. ViewAt(N - 1)' = ViewAt(N)
    BY <1>4, ViewAtIs
<1>. QED BY <1>2, <1>3, <1>5, <1>6, CommitStep, SMTT(30)

\* The outermost commit: what was read inside is what is stored.
LEMMA CommitToStoreStep ==
    ASSUME IndInv, IndInv', CommitToStore
    PROVE  Abstract!Commit
<1>1. /\ stack \in Contexts /\ Len(stack) = 1 /\ stack' = <<>>
      /\ store' = [t \in Tables |-> PutAll(store[t], stack[1][t])]
    BY InvIs DEF CommitToStore
<1>2. Len(stack') = 1 - 1
    BY <1>1, SMTT(30)
<1>3. ASSUME NEW t \in Tables PROVE View(store'[t], Log(t)', 1 - 1) = View(store[t], Log(t), 1)
  <2>1. PICK log \in Logs : log = Log(t) /\ Len(log) = 1
    BY <1>1, TableFacts, SMTT(30)
  <2>2. log[1] = stack[1][t]
    BY <1>1, <2>1, LogIs
  <2>3. PutAll(store[t], log[1]) = View(store[t], log, 1)
    BY <2>1, StoredView, SMTT(30)
  <2>4. store'[t] = View(store[t], log, 1)
    BY <1>1, <2>2, <2>3
  <2>5. PICK rows \in [Key -> Value \cup {Absent}] : rows = store'[t]
    BY InvNextIs
  <2>6. PICK new \in Logs : new = Log(t)'
    <3>1. Log(t)' \in Logs
      BY <1>1 DEF Log, Logs
    <3>. QED BY <3>1, Zenon
  <2>7. View(rows, new, 0) = rows
    BY BottomView
  <2>8. 1 - 1 = 0
    OBVIOUS
  <2>. QED BY <2>1, <2>4, <2>5, <2>6, <2>7, <2>8, SMTT(30)
<1>4. ViewAt(1 - 1)' = ViewAt(1)
    BY <1>3, ViewAtIs
<1>5. \A n \in 0 .. 1 - 2 : ViewAt(n)' = ViewAt(n)
    OBVIOUS
<1>. QED BY <1>1, <1>2, <1>4, <1>5, CommitStep, SMTT(30)

\* Every step of the wrapper is one of the stack of views, or changes no view.
LEMMA RefinementStep ==
    ASSUME IndInv, IndInv', [Next]_vars
    PROVE  [Abstract!Next]_Views
<1>0. stack \in Contexts /\ Len(stack) \in Nat /\ (stack # <<>> => Len(stack) > 0) /\ TipOK
    BY InvIs DEF Contexts
<1>1. CASE nest
    BY <1>1, OpenStep DEF nest, Abstract!Next
<1>2. CASE rollback \/ EndAtBlock
  <2>1. stack' = SubSeq(stack, 1, Len(stack) - 1) /\ store' = store
    BY <1>2, Zenon DEF rollback, EndAtBlock, DropContext, Undo
  <2>2. stack' \in Contexts /\ Len(stack) > 0
    <3>1. shifts # <<>> => shifts[Len(shifts)] \in Shift
      BY <1>0 DEF TipOK
    <3>2. BaseDepth \in Nat /\ (shifts # <<>> => BaseDepth > 0)
      BY <3>1 DEF BaseDepth, Shift
    <3>3. Len(stack) > 0
      BY <1>0, <1>2, <3>2 DEF rollback, EndAtBlock
    <3>. QED BY <3>3, InvNextIs
  <2>. QED BY <2>1, <2>2, DropStep DEF Abstract!Next
<1>3. CASE CommitNested
    BY <1>3, CommitNestedStep DEF Abstract!Next
<1>4. CASE CommitToStore
    BY <1>4, CommitToStoreStep DEF Abstract!Next
<1>5. ASSUME NEW k \in Key, NEW v \in Value, put(k, v) PROVE Abstract!Next
  <2>1. Abstract!Put(k, v)
    BY <1>0, <1>5, WriteStep DEF put, CanWrite, Tables, Abstract!Put
  <2>. QED BY <2>1 DEF Abstract!Next
<1>6. ASSUME NEW k \in MetadataKey, NEW v \in Value, insert_metadata(k, v) PROVE Abstract!Next
  <2>1. k \in Key /\ "metadata" \in Tables
    BY PastAssumption DEF Tables
  <2>2. Abstract!Write("metadata", k, v)
    BY <1>0, <1>6, <2>1, WriteStep DEF insert_metadata, CanWrite
  <2>3. get_metadata(k) = Absent /\ chain_tip = Open
    BY <1>0, <1>6, SMTT(30) DEF insert_metadata, has_metadata_entry, CanWrite, TipOK
  <2>4. ReadView["metadata"][k] = Absent
    BY <2>1, <2>3 DEF ReadView
  <2>5. Views[Len(Views)] = ReadView
    <3>1. Len(Views) = Len(stack) + 1
      BY ViewsAre, ViewsSeq
    <3>. QED BY <1>0, <3>1 DEF Views
  <2>6. Abstract!Insert(k, v)
    BY <2>2, <2>4, <2>5, SMTT(30) DEF Abstract!Insert
  <2>. QED BY <2>1, <2>6 DEF Abstract!Next
<1>7. ASSUME NEW b \in DOMAIN Past, BeginAtBlock(b) PROVE Abstract!Next
    BY <1>7, OpenStep DEF BeginAtBlock, Abstract!Next
<1>8. CASE UNCHANGED vars
  <2>1. AllViews' = AllViews
    BY <1>8 DEF vars, AllViews, ViewAt, Log
  <2>. QED BY <2>1, ViewsAre, ViewsNext, SMTT(30)
<1>. QED BY <1>1, <1>2, <1>3, <1>4, <1>5, <1>6, <1>7, <1>8, SMTT(30) DEF Next

\* A new wrapper has one view, the empty store.
LEMMA RefinementInit == Init => Abstract!Init
<1> SUFFICES ASSUME Init PROVE Abstract!Init
    OBVIOUS
<1>1. /\ stack = <<>> /\ chain_tip = Open
      /\ lookup_map = [t \in Tables |-> [k \in {} |-> <<>>]]
      /\ store = [t \in Tables |-> [k \in Key |-> Absent]]
    BY DEF Init
<1>2. IndInv
    BY InitInv
<1>3. ASSUME NEW t \in Tables PROVE View(store[t], Log(t), 0) = [k \in Key |-> Absent]
  <2>1. Log(t) \in Logs /\ store[t] \in [Key -> Value \cup {Absent}]
    BY <1>2, TableFacts
  <2>2. View(store[t], Log(t), 0) = store[t]
    BY <2>1, BottomView
  <2>. QED BY <1>1, <2>2
<1>4. ViewAt(0) = Abstract!EmptyView
    BY <1>3 DEF ViewAt, Tables, Abstract!EmptyView
<1>5. AllViews \in Seq(TableView) /\ Len(AllViews) = 1 /\ AllViews[1] = ViewAt(0) /\ Views = AllViews
  <2>1. Len(stack) = 0
    BY <1>1
  <2>2. AllViews \in Seq(TableView) /\ Len(AllViews) = 0 + 1 /\ AllViews[0 + 1] = ViewAt(0)
    BY <1>2, <2>1, ViewsSeq
  <2>. QED BY <1>2, <2>2, ViewsAre
<1>6. PICK s \in Seq(TableView) : s = Views /\ Len(s) = 1 /\ s[1] = Abstract!EmptyView
    BY <1>4, <1>5
<1>7. s = <<Abstract!EmptyView>>
    BY <1>6
<1>. QED BY <1>6, <1>7 DEF Abstract!Init

\* RollbackWrapper implements the stack of views: reads, rollbacks and commits behave
\* as if every context had its own copy of the store.
THEOREM Refinement == Spec => ImplementsNestedStore
<1>1. Init => Abstract!Init
    BY RefinementInit
<1>2. IndInv /\ IndInv' /\ [Next]_vars => [Abstract!Next]_Views
    BY RefinementStep
<1>. QED BY <1>1, <1>2, Invariance, PTL DEF Spec, ImplementsNestedStore, Abstract!Spec
=============================================================================
