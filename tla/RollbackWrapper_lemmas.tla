----------------------- MODULE RollbackWrapper_lemmas -----------------------
(***************************************************************************)
(* What each operation of RollbackWrapper does to the log of pending       *)
(* edits, to the lookup map that follows it, and to the views that are     *)
(* read from it, for every set of keys and values and any depth.           *)
(***************************************************************************)
EXTENDS RollbackWrapper, TLAPS, WellFoundedInduction

----------------------------------------------------------------------------
\* Numbers.

\* A non-empty set of naturals has a least element.
LEMMA LeastElement ==
    ASSUME NEW T, T \subseteq Nat, T # {}
    PROVE  \E b \in T : \A c \in T : b <= c
<1>1. PICK b \in T : \A c \in T : ~ (<<c, b>> \in OpToRel(<, Nat))
    BY WFMin, NatLessThanWellFounded, Zenon
<1>2. \A c \in T : b <= c
  <2> SUFFICES ASSUME NEW c \in T PROVE b <= c
    OBVIOUS
  <2>1. <<c, b>> \in Nat \X Nat
    OBVIOUS
  <2>2. ~ (c < b)
    BY <1>1, <2>1 DEF OpToRel
  <2>. QED BY <2>2
<1>. QED BY <1>2

\* A non-empty set of naturals that is bounded has a greatest element.
LEMMA GreatestElement ==
    ASSUME NEW T, T \subseteq Nat, T # {}, NEW b \in Nat, \A c \in T : c <= b
    PROVE  \E m \in T : \A c \in T : c <= m
<1> DEFINE U == {b - c : c \in T}
<1>1. U \subseteq Nat /\ U # {}
  <2>1. \A c \in T : b - c \in Nat
    OBVIOUS
  <2>2. U \subseteq Nat
    BY <2>1
  <2>3. PICK c \in T : TRUE
    BY Zenon
  <2>4. b - c \in U
    BY <2>3
  <2>. QED BY <2>2, <2>4
<1>2. PICK u \in U : \A v \in U : u <= v
  <2> HIDE DEF U
  <2>. QED BY <1>1, LeastElement, Zenon
<1>3. PICK m \in T : u = b - m
    OBVIOUS
<1>4. \A c \in T : b - c \in U
    OBVIOUS
<1>5. \A c \in T : c <= m
  <2> SUFFICES ASSUME NEW c \in T PROVE c <= m
    OBVIOUS
  <2>1. u <= b - c
    BY <1>2, <1>4
  <2>. QED BY <1>3, <2>1
<1>. QED BY <1>5

\* A prefix of a sequence.
LEMMA Prefix ==
    ASSUME NEW V, NEW s \in Seq(V), NEW n \in 0 .. Len(s)
    PROVE  /\ SubSeq(s, 1, n) \in Seq(V)
           /\ Len(SubSeq(s, 1, n)) = n
           /\ \A i \in 1 .. n : SubSeq(s, 1, n)[i] = s[i]
           /\ n > 0 => SubSeq(s, 1, n) # <<>>
    OBVIOUS

\* A prefix as a function.
LEMMA PrefixIs ==
    ASSUME NEW V, NEW s \in Seq(V), NEW n \in 0 .. Len(s)
    PROVE  SubSeq(s, 1, n) = [i \in 1 .. n |-> s[i]]
    OBVIOUS

\* A sequence and one more element.
LEMMA OneMore ==
    ASSUME NEW V, NEW s \in Seq(V), NEW x \in V, NEW n \in Nat, n = Len(s)
    PROVE  /\ Append(s, x) \in Seq(V)
           /\ Len(Append(s, x)) = n + 1
           /\ Append(s, x)[n + 1] = x
           /\ \A i \in 1 .. n : Append(s, x)[i] = s[i]
           /\ Append(s, x) = [i \in 1 .. n + 1 |-> IF i = n + 1 THEN x ELSE s[i]]
<1> DEFINE u == Append(s, x)
<1>1. /\ u \in Seq(V) /\ Len(u) = n + 1 /\ u[n + 1] = x
      /\ \A i \in 1 .. n : u[i] = s[i]
    OBVIOUS
<1> HIDE DEF u
<1>2. u = [i \in 1 .. n + 1 |-> u[i]]
    BY <1>1
<1>3. \A i \in 1 .. n + 1 : u[i] = IF i = n + 1 THEN x ELSE s[i]
    BY <1>1
<1>4. u = [i \in 1 .. n + 1 |-> IF i = n + 1 THEN x ELSE s[i]]
    BY <1>2, <1>3
<1>. QED BY <1>1, <1>4 DEF u

\* A sequence with one element replaced.
LEMMA Replaced ==
    ASSUME NEW V, NEW s \in Seq(V), NEW n \in 1 .. Len(s), NEW x \in V
    PROVE  /\ [s EXCEPT ![n] = x] \in Seq(V)
           /\ Len([s EXCEPT ![n] = x]) = Len(s)
           /\ [s EXCEPT ![n] = x][n] = x
           /\ \A i \in 1 .. Len(s) : i # n => [s EXCEPT ![n] = x][i] = s[i]
    OBVIOUS

----------------------------------------------------------------------------
\* The places of pending edits.

Logs == Seq(Seq(Edit))

\* A place is a context and an index into its edits.
LEMMA Places ==
    ASSUME NEW log \in Logs
    PROVE  /\ \A n, i : <<n, i>> \in Pending(log) <=> (n \in 1 .. Len(log) /\ i \in 1 .. Len(log[n]))
           /\ \A p \in Pending(log) : /\ p = <<p[1], p[2]>>
                                      /\ p[1] \in 1 .. Len(log)
                                      /\ p[2] \in 1 .. Len(log[p[1]])
                                      /\ EditAt(log, p) \in Edit
                                      /\ EditAt(log, p).key \in Key
                                      /\ EditAt(log, p).value \in Value
<1>1. \A p : p \in Pending(log) <=> \E n \in 1 .. Len(log) : \E i \in 1 .. Len(log[n]) : p = <<n, i>>
    BY DEF Pending
<1>2. \A n, i : <<n, i>> \in Pending(log) <=> (n \in 1 .. Len(log) /\ i \in 1 .. Len(log[n]))
    BY <1>1
<1>3. ASSUME NEW p \in Pending(log)
      PROVE  /\ p = <<p[1], p[2]>>
             /\ p[1] \in 1 .. Len(log)
             /\ p[2] \in 1 .. Len(log[p[1]])
             /\ EditAt(log, p) \in Edit
             /\ EditAt(log, p).key \in Key
             /\ EditAt(log, p).value \in Value
  <2>0. PICK n \in 1 .. Len(log) : \E i \in 1 .. Len(log[n]) : p = <<n, i>>
    BY <1>1, <1>3
  <2>1. PICK i \in 1 .. Len(log[n]) : p = <<n, i>>
    BY <2>0
  <2>2. p[1] = n /\ p[2] = i
    BY <2>1
  <2>3. log[n] \in Seq(Edit)
    BY DEF Logs
  <2>4. log[n][i] \in Edit
    BY <2>3
  <2>5. EditAt(log, p) \in Edit
    BY <2>2, <2>4 DEF EditAt
  <2>. QED BY <2>1, <2>2, <2>5 DEF Edit
<1>. QED BY <1>2, <1>3

\* The order of the writes is a strict total order.
LEMMA TotalOrder ==
    ASSUME NEW log \in Logs, NEW p \in Pending(log), NEW q \in Pending(log)
    PROVE  /\ p = q \/ Before(p, q) \/ Before(q, p)
           /\ ~ (Before(p, q) /\ Before(q, p))
           /\ ~ Before(p, p)
<1>1. /\ p = <<p[1], p[2]>> /\ q = <<q[1], q[2]>>
      /\ p[1] \in 1 .. Len(log) /\ q[1] \in 1 .. Len(log)
      /\ p[2] \in 1 .. Len(log[p[1]]) /\ q[2] \in 1 .. Len(log[q[1]])
    BY Places
<1>2. p[1] \in Int /\ p[2] \in Int /\ q[1] \in Int /\ q[2] \in Int
    BY <1>1
<1>. QED BY <1>1, <1>2 DEF Before

----------------------------------------------------------------------------
\* Replaying edits against the lookup map.

\* Follows for a subset S of the pending edits, in an order R: the statement that
\* holds between two steps of a replay, in either direction.
FollowsIn(map, log, S, R, positions) ==
    /\ \A p \in S :
          /\ EditAt(log, p).key \in DOMAIN map
          /\ positions[p] \in 1 .. Len(map[EditAt(log, p).key])
          /\ map[EditAt(log, p).key][positions[p]] = EditAt(log, p).value
    /\ \A p, q \in S :
          (EditAt(log, p).key = EditAt(log, q).key /\ <<p, q>> \in R) => positions[p] < positions[q]
    /\ \A k \in DOMAIN map : \A i \in 1 .. Len(map[k]) :
          \E p \in S : EditAt(log, p).key = k /\ positions[p] = i

\* Popping the last edit of S: rollback_lookup_map finds the value it expects, and
\* what it leaves are the histories of the other edits.
LEMMA PopLast ==
    ASSUME NEW log \in Logs, NEW S \in SUBSET Pending(log), NEW R, NEW pos, NEW map,
           IsLookupMap(map), FollowsIn(map, log, S, R, pos),
           NEW p \in S, \A q \in S : q = p \/ <<q, p>> \in R
    PROVE  /\ Asserted(map, EditAt(log, p))
           /\ IsLookupMap(rollback_lookup_map(map, EditAt(log, p)))
           /\ FollowsIn(rollback_lookup_map(map, EditAt(log, p)), log, S \ {p}, R, pos)
<1> DEFINE new == rollback_lookup_map(map, EditAt(log, p))
<1>0. PICK k : k = EditAt(log, p).key
    OBVIOUS
<1>1. /\ k \in DOMAIN map /\ k \in Key
      /\ map \in [DOMAIN map -> Seq(Value)]
      /\ DOMAIN map \subseteq Key
      /\ \A x \in DOMAIN map : map[x] # <<>>
      /\ map[k] \in Seq(Value)
      /\ Len(map[k]) \in Nat \ {0}
  <2>1. k \in DOMAIN map
    BY <1>0 DEF FollowsIn
  <2>2. /\ map \in [DOMAIN map -> Seq(Value)]
        /\ DOMAIN map \subseteq Key
        /\ \A x \in DOMAIN map : map[x] # <<>>
    BY DEF IsLookupMap
  <2>3. map[k] \in Seq(Value) /\ map[k] # <<>>
    BY <2>1, <2>2
  <2>. QED BY <2>1, <2>2, <2>3
<1>n. PICK n \in Nat \ {0} : n = Len(map[k])
    BY <1>1
<1>2. \A q \in S : EditAt(log, q).key = k => pos[q] \in 1 .. Len(map[k])
    BY DEF FollowsIn
<1>3. \A q \in S : (q # p /\ EditAt(log, q).key = k) => pos[q] < pos[p]
    BY <1>0, Zenon DEF FollowsIn
<1>4. pos[p] = Len(map[k])
  <2>1. Len(map[k]) \in 1 .. Len(map[k])
    BY <1>1
  <2>2. PICK q \in S : EditAt(log, q).key = k /\ pos[q] = Len(map[k])
    <3>1. \A i \in 1 .. Len(map[k]) : \E q \in S : EditAt(log, q).key = k /\ pos[q] = i
      BY <1>1, Zenon DEF FollowsIn
    <3>. QED BY <2>1, <3>1, Zenon
  <2>3. pos[p] \in 1 .. Len(map[k])
    BY <1>0, <1>2
  <2>. QED BY <1>1, <1>3, <2>2, <2>3
<1>5. map[k][Len(map[k])] = EditAt(log, p).value
  <2>1. map[k][pos[p]] = EditAt(log, p).value
    BY <1>0 DEF FollowsIn
  <2>. QED BY <1>4, <2>1
<1>6. Asserted(map, EditAt(log, p))
    BY <1>0, <1>1, <1>5 DEF Asserted
<1>7. new = PopEdit(map, k)
    BY <1>0, <1>6 DEF rollback_lookup_map
<1>8. CASE Len(map[k]) = 1
  <2>1. new = [x \in DOMAIN map \ {k} |-> map[x]]
    BY <1>7, <1>8 DEF PopEdit
  <2>2. \A q \in S \ {p} : EditAt(log, q).key # k
    BY <1>1, <1>2, <1>3, <1>4, <1>8
  <2>3. IsLookupMap(new)
    BY <1>1, <2>1 DEF IsLookupMap
  <2>4. FollowsIn(new, log, S \ {p}, R, pos)
    <3>1. /\ DOMAIN new = DOMAIN map \ {k}
          /\ \A x \in DOMAIN map \ {k} : new[x] = map[x]
      BY <2>1
    <3> HIDE DEF new
    <3>2. ASSUME NEW q \in S \ {p}
          PROVE  /\ EditAt(log, q).key \in DOMAIN new
                 /\ pos[q] \in 1 .. Len(new[EditAt(log, q).key])
                 /\ new[EditAt(log, q).key][pos[q]] = EditAt(log, q).value
      <4>1. /\ EditAt(log, q).key \in DOMAIN map
            /\ pos[q] \in 1 .. Len(map[EditAt(log, q).key])
            /\ map[EditAt(log, q).key][pos[q]] = EditAt(log, q).value
        BY DEF FollowsIn
      <4>. QED BY <2>2, <3>1, <4>1
    <3>3. ASSUME NEW x \in DOMAIN new, NEW i \in 1 .. Len(new[x])
          PROVE  \E q \in S \ {p} : EditAt(log, q).key = x /\ pos[q] = i
      <4>1. PICK q \in S : EditAt(log, q).key = x /\ pos[q] = i
        BY <3>1 DEF FollowsIn
      <4>2. q # p
        BY <1>0, <3>1, <4>1
      <4>. QED BY <4>1, <4>2
    <3>4. \A a, b \in S \ {p} :
             (EditAt(log, a).key = EditAt(log, b).key /\ <<a, b>> \in R) => pos[a] < pos[b]
      BY DEF FollowsIn
    <3>. QED BY <3>2, <3>3, <3>4 DEF FollowsIn
  <2>. QED BY <1>6, <2>3, <2>4
<1>9. CASE Len(map[k]) # 1
  <2> DEFINE h == SubSeq(map[k], 1, Len(map[k]) - 1)
  <2>1. new = [map EXCEPT ![k] = h]
    BY <1>7, <1>9 DEF PopEdit
  <2>2. /\ h \in Seq(Value) /\ Len(h) = Len(map[k]) - 1 /\ h # <<>>
        /\ \A i \in 1 .. Len(map[k]) - 1 : h[i] = map[k][i]
    <3>0. n # 1
      BY <1>9, <1>n, Zenon
    <3>1. n - 1 \in 0 .. n /\ n - 1 > 0
      BY <3>0
    <3>2. map[k] \in Seq(Value)
      BY <1>1
    <3>. QED BY <1>n, <3>1, <3>2, Prefix, ZenonT(60)
  <2> HIDE DEF h
  <2>3. /\ DOMAIN new = DOMAIN map
        /\ new[k] = h
        /\ \A x \in DOMAIN map : x # k => new[x] = map[x]
    BY <1>1, <2>1
  <2>4. IsLookupMap(new)
    BY <1>1, <2>1, <2>2, <2>3 DEF IsLookupMap
  <2> HIDE DEF new
  <2>5. \A q \in S \ {p} : EditAt(log, q).key = k => pos[q] \in 1 .. Len(map[k]) - 1
    BY <1>1, <1>2, <1>3, <1>4
  <2>6. ASSUME NEW q \in S \ {p}
        PROVE  /\ EditAt(log, q).key \in DOMAIN new
               /\ pos[q] \in 1 .. Len(new[EditAt(log, q).key])
               /\ new[EditAt(log, q).key][pos[q]] = EditAt(log, q).value
    <3>1. /\ EditAt(log, q).key \in DOMAIN map
          /\ pos[q] \in 1 .. Len(map[EditAt(log, q).key])
          /\ map[EditAt(log, q).key][pos[q]] = EditAt(log, q).value
      BY DEF FollowsIn
    <3>. QED BY <2>2, <2>3, <2>5, <3>1, SMTT(30)
  <2>7. ASSUME NEW x \in DOMAIN new, NEW i \in 1 .. Len(new[x])
        PROVE  \E q \in S \ {p} : EditAt(log, q).key = x /\ pos[q] = i
    <3>1. i \in 1 .. Len(map[x]) /\ (x = k => i # Len(map[k]))
      BY <1>1, <2>2, <2>3
    <3>2. PICK q \in S : EditAt(log, q).key = x /\ pos[q] = i
      BY <2>3, <3>1 DEF FollowsIn
    <3>3. q # p
      BY <1>0, <1>4, <3>1, <3>2
    <3>. QED BY <3>2, <3>3
  <2>8. FollowsIn(new, log, S \ {p}, R, pos)
    <3>1. \A a, b \in S \ {p} :
             (EditAt(log, a).key = EditAt(log, b).key /\ <<a, b>> \in R) => pos[a] < pos[b]
      BY DEF FollowsIn
    <3>. QED BY <2>6, <2>7, <3>1 DEF FollowsIn
  <2>. QED BY <1>6, <2>4, <2>8 DEF new
<1>. QED BY <1>8, <1>9

\* Replay is what its recursive definition says.
LEMMA ReplayDef ==
    ASSUME NEW map, NEW edits, Len(edits) \in Nat
    PROVE  /\ Replay(map, edits)[0] = map
           /\ \A n \in 1 .. Len(edits) :
                 Replay(map, edits)[n] = rollback_lookup_map(Replay(map, edits)[n - 1], edits[n])
<1> DEFINE N == Len(edits)
           Step(h, i) == rollback_lookup_map(h[i - 1], edits[i])
           Partial(h, m) == h[0] = map /\ \A i \in 1 .. m : h[i] = Step(h, i)
           T == {m \in 0 .. N : ~ \E h : Partial(h, m)}
           Body(f) == [n \in 0 .. N |-> IF n = 0 THEN map ELSE Step(f, n)]
<1> HIDE DEF Step
<1>1. T = {}
  <2> SUFFICES ASSUME T # {} PROVE FALSE
    OBVIOUS
  <2>1. T \subseteq Nat
    OBVIOUS
  <2>2. PICK m \in T : \A c \in T : m <= c
    BY <2>1, LeastElement, Zenon
  <2>3. m # 0
    <3> DEFINE h == [i \in {0} |-> map]
    <3>1. Partial(h, 0)
      OBVIOUS
    <3>. QED BY <3>1, Zenon
  <2>4. m \in 0 .. N /\ m - 1 \in 0 .. N /\ ~ (m - 1 \in T)
    <3>1. m \in 0 .. N
      BY <2>2
    <3> HIDE DEF T, N
    <3>2. N \in Nat
      BY DEF N
    <3>. QED BY <2>2, <2>3, <3>1, <3>2
  <2>5. PICK h : Partial(h, m - 1)
    BY <2>4
  <2> DEFINE g == [i \in 0 .. m |-> IF i = m THEN Step(h, m) ELSE h[i]]
  <2>6. g[0] = map
    BY <2>3, <2>4, <2>5
  <2>7. \A i \in 1 .. m : g[i - 1] = h[i - 1]
    BY <2>4
  <2>8. \A i \in 1 .. m : g[i] = Step(g, i)
    <3>1. \A i \in 1 .. m : Step(g, i) = Step(h, i)
      BY <2>7 DEF Step
    <3>2. \A i \in 1 .. m : g[i] = Step(h, i)
      BY <2>4, <2>5
    <3>. QED BY <3>1, <3>2
  <2>9. Partial(g, m)
    BY <2>6, <2>8
  <2>. QED BY <2>2, <2>9, Zenon
<1>2. PICK h : Partial(h, N)
  <2>1. N \in 0 .. N /\ N \notin T
    BY <1>1
  <2>. QED BY <2>1
<1> DEFINE f == [n \in 0 .. N |-> h[n]]
<1>3. f = Body(f)
  <2>1. \A n \in 1 .. N : Step(f, n) = Step(h, n)
    BY DEF Step
  <2>2. \A n \in 0 .. N : h[n] = IF n = 0 THEN map ELSE Step(f, n)
    BY <1>2, <2>1
  <2>. QED BY <2>2
<1>4. Replay(map, edits) = CHOOSE g : g = Body(g)
    BY DEF Replay, Step
<1>5. Replay(map, edits) = Body(Replay(map, edits))
  <2> HIDE DEF f, Body
  <2>. QED BY <1>3, <1>4
<1>6. \A n \in 0 .. N : Replay(map, edits)[n] = IF n = 0 THEN map ELSE Step(Replay(map, edits), n)
  <2> DEFINE r == Replay(map, edits)
  <2>1. r = [n \in 0 .. N |-> IF n = 0 THEN map ELSE Step(r, n)]
    BY <1>5
  <2> HIDE DEF r
  <2>2. \A n \in 0 .. N : r[n] = IF n = 0 THEN map ELSE Step(r, n)
    BY <2>1
  <2>. QED BY <2>2 DEF r
<1>. QED BY <1>6 DEF Step

\* The edits, at these places, are taken from the end of S in the order R.
Takes(log, S, R, edits, at) ==
    \A i \in 1 .. Len(edits) :
        /\ at[i] \in S /\ EditAt(log, at[i]) = edits[i]
        /\ \A j \in 1 .. i - 1 : at[j] # at[i]
        /\ \A q \in S : (\A j \in 1 .. i : q # at[j]) => <<q, at[i]>> \in R
Untaken(S, at, n) == {q \in S : \A j \in 1 .. n : q # at[j]}

\* A replay that takes the edits of S from the last to the first, in the order R,
\* fails no assertion and leaves the histories of the edits it did not take.
LEMMA ReplayFollows ==
    ASSUME NEW log \in Logs, NEW S \in SUBSET Pending(log), NEW R, NEW pos, NEW map,
           IsLookupMap(map), FollowsIn(map, log, S, R, pos),
           NEW edits, Len(edits) \in Nat, NEW at, Takes(log, S, R, edits, at)
    PROVE  /\ ~ Fails(Replay(map, edits), edits)
           /\ IsLookupMap(Replay(map, edits)[Len(edits)])
           /\ FollowsIn(Replay(map, edits)[Len(edits)], log, Untaken(S, at, Len(edits)), R, pos)
<1> DEFINE N == Len(edits)
           r == Replay(map, edits)
           Rest(n) == Untaken(S, at, n)
           Good(n) == IsLookupMap(r[n]) /\ FollowsIn(r[n], log, Rest(n), R, pos)
           T == {n \in 0 .. N : ~ Good(n)}
<1>1. r[0] = map /\ \A n \in 1 .. N : r[n] = rollback_lookup_map(r[n - 1], edits[n])
    BY ReplayDef
<1> HIDE DEF r
<1>2. ASSUME NEW n \in 1 .. N, Good(n - 1)
      PROVE  Asserted(r[n - 1], edits[n]) /\ Good(n)
  <2>1. Rest(n - 1) \in SUBSET Pending(log)
    BY DEF Untaken
  <2>2. at[n] \in Rest(n - 1) /\ EditAt(log, at[n]) = edits[n]
    BY DEF Untaken, Takes
  <2>3. \A q \in Rest(n - 1) : q = at[n] \/ <<q, at[n]>> \in R
    <3> SUFFICES ASSUME NEW q \in Rest(n - 1), q # at[n] PROVE <<q, at[n]>> \in R
      OBVIOUS
    <3>1. q \in S /\ \A j \in 1 .. n : q # at[j]
      BY DEF Untaken
    <3>. QED BY <3>1 DEF Takes
  <2>4. Rest(n - 1) \ {at[n]} = Rest(n)
    BY DEF Untaken
  <2> HIDE DEF Rest
  <2>5. /\ Asserted(r[n - 1], edits[n])
        /\ IsLookupMap(rollback_lookup_map(r[n - 1], edits[n]))
        /\ FollowsIn(rollback_lookup_map(r[n - 1], edits[n]), log, Rest(n - 1) \ {at[n]}, R, pos)
    <3> DEFINE old == r[n - 1]
               Q == Rest(n - 1)
               p == at[n]
    <3>1. IsLookupMap(old) /\ FollowsIn(old, log, Q, R, pos)
      BY <1>2
    <3>2. p \in Q /\ Q \in SUBSET Pending(log) /\ \A q \in Q : q = p \/ <<q, p>> \in R
      BY <2>1, <2>2, <2>3
    <3> HIDE DEF old, Q, p
    <3>3. /\ Asserted(old, EditAt(log, p))
          /\ IsLookupMap(rollback_lookup_map(old, EditAt(log, p)))
          /\ FollowsIn(rollback_lookup_map(old, EditAt(log, p)), log, Q \ {p}, R, pos)
      BY <3>1, <3>2, PopLast, Zenon
    <3>. QED BY <2>2, <3>3 DEF old, Q, p
  <2>. QED BY <1>1, <2>4, <2>5, Zenon
<1>3. Good(0)
  <2>1. Rest(0) = S
    BY DEF Untaken
  <2>. QED BY <1>1, <2>1
<1> HIDE DEF Good
<1>4. T = {}
  <2> SUFFICES ASSUME T # {} PROVE FALSE
    OBVIOUS
  <2>1. T \subseteq Nat
    OBVIOUS
  <2>2. PICK m \in T : \A c \in T : m <= c
    BY <2>1, LeastElement, Zenon
  <2>3. m \in 0 .. N /\ ~ Good(m)
    BY <2>2
  <2>4. m \in 1 .. N /\ m - 1 \in 0 .. N
    BY <1>3, <2>3
  <2>5. ~ (m - 1 \in T)
    <3> HIDE DEF T
    <3>. QED BY <2>2, <2>4
  <2>6. Good(m - 1)
    BY <2>4, <2>5
  <2>. QED BY <1>2, <2>3, <2>4, <2>6
<1>5. \A n \in 0 .. N : Good(n)
    BY <1>4
<1>6. \A n \in 1 .. N : Asserted(r[n - 1], edits[n])
  <2> SUFFICES ASSUME NEW n \in 1 .. N PROVE Asserted(r[n - 1], edits[n])
    OBVIOUS
  <2>1. Good(n - 1)
    BY <1>5
  <2>. QED BY <1>2, <2>1
<1>7. ~ Fails(r, edits)
    BY <1>6 DEF Fails
<1>8. Good(N)
    BY <1>5
<1>. QED BY <1>7, <1>8 DEF Good, r
----------------------------------------------------------------------------
\* The lookup map and the log, operation by operation.

\* The order of the writes and its converse, as sets of pairs.
Forward(log) == {pq \in Pending(log) \X Pending(log) : Before(pq[1], pq[2])}
Backward(log) == {pq \in Pending(log) \X Pending(log) : Before(pq[2], pq[1])}

\* Where the positions live does not matter.
LEMMA AgreesIs ==
    ASSUME NEW log \in Logs, NEW map, NEW pos, Follows(map, log, pos)
    PROVE  Agrees(map, log)
<1> DEFINE places == UNION {1 .. Len(map[k]) : k \in DOMAIN map}
           new == [p \in Pending(log) |-> pos[p]]
<1>1. \A p \in Pending(log) : pos[p] \in places
  <2> SUFFICES ASSUME NEW p \in Pending(log) PROVE pos[p] \in places
    OBVIOUS
  <2>1. EditAt(log, p).key \in DOMAIN map /\ pos[p] \in 1 .. Len(map[EditAt(log, p).key])
    BY DEF Follows
  <2>. QED BY <2>1
<1>2. new \in [Pending(log) -> places]
    BY <1>1
<1>3. \A p \in Pending(log) : new[p] = pos[p]
    OBVIOUS
<1> HIDE DEF new, places
<1>4. Follows(map, log, new)
    BY <1>3 DEF Follows
<1>. QED BY <1>2, <1>4 DEF Agrees, places

\* Follows is FollowsIn for all pending edits in the order of the writes.
LEMMA FollowsForward ==
    ASSUME NEW log \in Logs, NEW map, NEW pos
    PROVE  Follows(map, log, pos) <=> FollowsIn(map, log, Pending(log), Forward(log), pos)
<1>1. \A p, q \in Pending(log) : <<p, q>> \in Forward(log) <=> Before(p, q)
    BY DEF Forward
<1>. QED BY <1>1, Zenon DEF Follows, FollowsIn

\* RollbackWrapper::rollback: undoing the edits of the innermost context from the
\* last to the first leaves the histories of the contexts below.
LEMMA DropInnermost ==
    ASSUME NEW log \in Logs, Len(log) > 0, NEW map, IsLookupMap(map), Agrees(map, log)
    PROVE  LET edits == Reversed(log[Len(log)])
               maps == Replay(map, edits)
           IN  /\ ~ Fails(maps, edits)
               /\ IsLookupMap(maps[Len(edits)])
               /\ Agrees(maps[Len(edits)], SubSeq(log, 1, Len(log) - 1))
<1>0. PICK N \in Nat \ {0} : N = Len(log)
    BY DEF Logs
<1>1. PICK L \in Nat : L = Len(log[N]) /\ log[N] \in Seq(Edit)
  <2>1. log[N] \in Seq(Edit)
    BY <1>0 DEF Logs
  <2>. QED BY <2>1
<1> DEFINE edits == Reversed(log[N])
           at == [i \in 1 .. L |-> <<N, L + 1 - i>>]
           below == SubSeq(log, 1, N - 1)
           maps == Replay(map, edits)
           Rest == Untaken(Pending(log), at, L)
<1>2. /\ Len(edits) = L
      /\ \A i \in 1 .. L : edits[i] = log[N][L + 1 - i]
    BY <1>1 DEF Reversed
<1>3. PICK pos : Follows(map, log, pos)
    BY DEF Agrees
<1>4. FollowsIn(map, log, Pending(log), Forward(log), pos)
    BY <1>3, FollowsForward
<1> HIDE DEF edits
<1>5. ASSUME NEW i \in 1 .. L
      PROVE  /\ at[i] \in Pending(log) /\ EditAt(log, at[i]) = edits[i]
             /\ \A j \in 1 .. i - 1 : at[j] # at[i]
             /\ \A q \in Pending(log) : (\A j \in 1 .. i : q # at[j]) => <<q, at[i]>> \in Forward(log)
  <2>1. at[i] = <<N, L + 1 - i>> /\ L + 1 - i \in 1 .. L
    BY <1>1
  <2>2. at[i] \in Pending(log)
    <3>1. N \in 1 .. Len(log) /\ L + 1 - i \in 1 .. Len(log[N])
      BY <1>0, <1>1, <2>1
    <3>2. <<N, L + 1 - i>> \in Pending(log)
      BY <3>1, Places, Zenon
    <3>. QED BY <2>1, <3>2
  <2>3. EditAt(log, at[i]) = edits[i]
    BY <1>2, <2>1 DEF EditAt
  <2>4. \A j \in 1 .. i - 1 : at[j] # at[i]
    BY <1>1, <2>1
  <2>5. ASSUME NEW q \in Pending(log), \A j \in 1 .. i : q # at[j]
        PROVE  <<q, at[i]>> \in Forward(log)
    <3>1. q = <<q[1], q[2]>> /\ q[1] \in 1 .. N /\ q[2] \in 1 .. Len(log[q[1]])
      BY <1>0, Places
    <3>2. CASE q[1] = N
      <4>1. PICK b \in 1 .. L : b = q[2]
        BY <1>1, <3>1, <3>2
      <4>2. ~ (b >= L + 1 - i)
        <5> SUFFICES ASSUME b >= L + 1 - i PROVE FALSE
          OBVIOUS
        <5>1. L + 1 - b \in 1 .. i /\ L + 1 - b \in 1 .. L
          OBVIOUS
        <5>2. at[L + 1 - b] = <<N, b>>
          BY <5>1
        <5>. QED BY <2>5, <3>1, <3>2, <4>1, <5>1, <5>2, Zenon
      <4>3. q[2] < L + 1 - i
        BY <4>1, <4>2
      <4>. QED BY <2>1, <2>2, <3>2, <4>3 DEF Forward, Before
    <3>3. CASE q[1] # N
      <4>1. q[1] < N
        BY <3>1, <3>3
      <4>. QED BY <2>1, <2>2, <4>1 DEF Forward, Before
    <3>. QED BY <3>2, <3>3
  <2>. QED BY <2>2, <2>3, <2>4, <2>5, Zenon
<1> HIDE DEF at
<1>6. /\ ~ Fails(maps, edits)
      /\ IsLookupMap(maps[L])
      /\ FollowsIn(maps[L], log, Rest, Forward(log), pos)
  <2>1. Len(edits) \in Nat /\ Len(edits) = L
    BY <1>2
  <2>2. Takes(log, Pending(log), Forward(log), edits, at)
    BY <1>5, <2>1 DEF Takes
  <2>3. Pending(log) \in SUBSET Pending(log)
    OBVIOUS
  <2>4. /\ ~ Fails(maps, edits)
        /\ IsLookupMap(maps[Len(edits)])
        /\ FollowsIn(maps[Len(edits)], log, Untaken(Pending(log), at, Len(edits)), Forward(log), pos)
    BY <1>4, <2>1, <2>2, <2>3, ReplayFollows, Zenon
  <2>. QED BY <2>1, <2>4
<1>7. below \in Logs /\ Len(below) = N - 1 /\ \A n \in 1 .. N - 1 : below[n] = log[n]
    BY <1>0, Prefix DEF Logs
<1>8. Rest = Pending(below) /\ \A p \in Pending(below) : EditAt(below, p) = EditAt(log, p)
  <2> HIDE DEF below
  <2>1. ASSUME NEW q \in Rest PROVE q \in Pending(below)
    <3>0. q \in Pending(log) /\ \A j \in 1 .. L : q # at[j]
      BY DEF Untaken
    <3>1. q = <<q[1], q[2]>> /\ q[1] \in 1 .. N /\ q[2] \in 1 .. Len(log[q[1]])
      BY <1>0, <3>0, Places
    <3>2. q[1] # N
      <4> SUFFICES ASSUME q[1] = N PROVE FALSE
        OBVIOUS
      <4>1. PICK b \in 1 .. L : b = q[2]
        BY <1>1, <3>1
      <4>2. L + 1 - b \in 1 .. L /\ at[L + 1 - b] = <<N, b>>
        BY DEF at
      <4>. QED BY <3>0, <3>1, <4>1, <4>2, SMTT(30)
    <3>3. q[1] \in 1 .. N - 1
      BY <3>1, <3>2
    <3>. QED BY <1>7, <3>1, <3>3, Places
  <2>2. ASSUME NEW q \in Pending(below) PROVE q \in Rest /\ EditAt(below, q) = EditAt(log, q)
    <3>1. q = <<q[1], q[2]>> /\ q[1] \in 1 .. N - 1 /\ q[2] \in 1 .. Len(log[q[1]])
      BY <1>7, Places, SMTT(30)
    <3>2. q \in Pending(log)
      BY <1>0, <3>1, Places
    <3>3. \A j \in 1 .. L : q # at[j]
      BY <1>1, <3>1 DEF at
    <3>. QED BY <1>7, <3>1, <3>2, <3>3 DEF EditAt, Untaken
  <2>. QED BY <2>1, <2>2, Zenon
<1> HIDE DEF below, maps, Rest
<1>9. Follows(maps[L], below, pos)
  <2>1. \A p, q \in Pending(below) : Before(p, q) => <<p, q>> \in Forward(log)
    BY <1>8 DEF Forward, Rest, Untaken
  <2>2. FollowsIn(maps[L], log, Pending(below), Forward(log), pos)
    BY <1>6, <1>8, Zenon
  <2> DEFINE m == maps[L]
  <2> HIDE DEF m
  <2>3. /\ \A p \in Pending(below) :
              /\ EditAt(below, p).key \in DOMAIN m
              /\ pos[p] \in 1 .. Len(m[EditAt(below, p).key])
              /\ m[EditAt(below, p).key][pos[p]] = EditAt(below, p).value
        /\ \A k \in DOMAIN m : \A i \in 1 .. Len(m[k]) :
              \E p \in Pending(below) : EditAt(below, p).key = k /\ pos[p] = i
    BY <1>8, <2>2 DEF FollowsIn, m
  <2>4. \A p, q \in Pending(below) :
           (EditAt(below, p).key = EditAt(below, q).key /\ Before(p, q)) => pos[p] < pos[q]
    BY <1>8, <2>1, <2>2, Zenon DEF FollowsIn
  <2>5. Follows(m, below, pos)
    BY <2>3, <2>4, Zenon DEF Follows
  <2>. QED BY <2>5 DEF m
<1>10. Agrees(maps[L], below)
    BY <1>7, <1>9, AgreesIs
<1>. QED BY <1>0, <1>2, <1>6, <1>10 DEF maps, below, edits

\* A history read backwards.
LEMMA ReversedIs ==
    ASSUME NEW V, NEW s \in Seq(V)
    PROVE  /\ Reversed(s) \in Seq(V)
           /\ Len(Reversed(s)) = Len(s)
           /\ \A i \in 1 .. Len(s) : Reversed(s)[i] = s[Len(s) + 1 - i]
    BY DEF Reversed

\* Reversing every history turns the order of the edits round.
LEMMA ReversedFollows ==
    ASSUME NEW log \in Logs, NEW map, IsLookupMap(map), NEW pos, Follows(map, log, pos)
    PROVE  LET turned == [k \in DOMAIN map |-> Reversed(map[k])]
           IN  /\ IsLookupMap(turned)
               /\ \E new : FollowsIn(turned, log, Pending(log), Backward(log), new)
<1> DEFINE turned == [k \in DOMAIN map |-> Reversed(map[k])]
           new == [p \in Pending(log) |-> Len(map[EditAt(log, p).key]) + 1 - pos[p]]
<1>1. \A k \in DOMAIN map : map[k] \in Seq(Value) /\ map[k] # <<>> /\ Len(map[k]) \in Nat \ {0}
  <2> SUFFICES ASSUME NEW k \in DOMAIN map
               PROVE  map[k] \in Seq(Value) /\ map[k] # <<>> /\ Len(map[k]) \in Nat \ {0}
    OBVIOUS
  <2>1. map[k] \in Seq(Value) /\ map[k] # <<>>
    BY DEF IsLookupMap
  <2>. QED BY <2>1
<1>2. DOMAIN turned = DOMAIN map /\ \A k \in DOMAIN map : turned[k] = Reversed(map[k])
    OBVIOUS
<1>3. \A k \in DOMAIN map : /\ turned[k] \in Seq(Value)
                            /\ Len(turned[k]) = Len(map[k])
                            /\ turned[k] # <<>>
  <2> SUFFICES ASSUME NEW k \in DOMAIN map
               PROVE  turned[k] \in Seq(Value) /\ Len(turned[k]) = Len(map[k]) /\ turned[k] # <<>>
    OBVIOUS
  <2>1. turned[k] \in Seq(Value) /\ Len(turned[k]) = Len(map[k])
    BY <1>1, <1>2, ReversedIs
  <2>2. Len(turned[k]) # 0
    BY <1>1, <2>1
  <2>. QED BY <2>1, <2>2
<1>4. IsLookupMap(turned)
  <2>1. DOMAIN turned \subseteq Key
    BY <1>2 DEF IsLookupMap
  <2>2. turned \in [DOMAIN turned -> Seq(Value)]
    BY <1>2, <1>3
  <2>3. \A k \in DOMAIN turned : turned[k] # <<>>
    BY <1>2, <1>3
  <2>. QED BY <2>1, <2>2, <2>3, Zenon DEF IsLookupMap
<1>5. \A k \in DOMAIN map : \A i \in 1 .. Len(map[k]) : turned[k][i] = map[k][Len(map[k]) + 1 - i]
    BY <1>1, <1>2, ReversedIs
<1>6. \A p \in Pending(log) : new[p] = Len(map[EditAt(log, p).key]) + 1 - pos[p]
    OBVIOUS
<1> HIDE DEF turned, new
<1>7. ASSUME NEW p \in Pending(log)
      PROVE  /\ EditAt(log, p).key \in DOMAIN turned
             /\ new[p] \in 1 .. Len(turned[EditAt(log, p).key])
             /\ turned[EditAt(log, p).key][new[p]] = EditAt(log, p).value
  <2>1. PICK k : k = EditAt(log, p).key
    OBVIOUS
  <2>2. k \in DOMAIN map /\ pos[p] \in 1 .. Len(map[k]) /\ map[k][pos[p]] = EditAt(log, p).value
    BY <2>1 DEF Follows
  <2>3. PICK n \in Nat \ {0} : n = Len(map[k])
    BY <1>1, <2>2
  <2>4. PICK i \in 1 .. n : i = pos[p]
    BY <2>2, <2>3
  <2>5. new[p] = n + 1 - i
    BY <1>6, <2>1, <2>3, <2>4
  <2>6. n + 1 - i \in 1 .. n /\ n + 1 - (n + 1 - i) = i
    OBVIOUS
  <2>7. turned[k][n + 1 - i] = map[k][n + 1 - (n + 1 - i)]
    BY <1>5, <2>2, <2>3, <2>6, Zenon
  <2>8. turned[k][new[p]] = EditAt(log, p).value
    BY <2>2, <2>4, <2>5, <2>6, <2>7
  <2>9. Len(turned[k]) = n
    BY <1>3, <2>2, <2>3
  <2>10. k \in DOMAIN turned
    BY <1>2, <2>2
  <2>. QED BY <2>1, <2>5, <2>6, <2>8, <2>9, <2>10
<1>8. ASSUME NEW p \in Pending(log), NEW q \in Pending(log),
             EditAt(log, p).key = EditAt(log, q).key, <<p, q>> \in Backward(log)
      PROVE  new[p] < new[q]
  <2>1. Before(q, p)
    BY <1>8 DEF Backward
  <2>2. pos[q] < pos[p]
    BY <1>8, <2>1 DEF Follows
  <2>3. PICK k : k = EditAt(log, p).key
    OBVIOUS
  <2>4. k \in DOMAIN map /\ pos[p] \in 1 .. Len(map[k]) /\ pos[q] \in 1 .. Len(map[k])
    BY <1>8, <2>3 DEF Follows
  <2>5. PICK n \in Nat \ {0} : n = Len(map[k])
    BY <1>1, <2>4
  <2>6. new[p] = n + 1 - pos[p] /\ new[q] = n + 1 - pos[q]
    BY <1>6, <1>8, <2>3, <2>5
  <2>. QED BY <2>2, <2>4, <2>5, <2>6
<1>9. ASSUME NEW k \in DOMAIN turned, NEW i \in 1 .. Len(turned[k])
      PROVE  \E p \in Pending(log) : EditAt(log, p).key = k /\ new[p] = i
  <2>1. PICK n \in Nat \ {0} : n = Len(map[k]) /\ n = Len(turned[k])
    BY <1>1, <1>2, <1>3
  <2>2. PICK j \in 1 .. n : j = n + 1 - i /\ i = n + 1 - j
    <3>1. i \in 1 .. n
      BY <2>1, Zenon
    <3>. QED BY <3>1
  <2>3. \A x \in 1 .. Len(map[k]) : \E p \in Pending(log) : EditAt(log, p).key = k /\ pos[p] = x
    BY <1>2, Zenon DEF Follows
  <2>4. PICK p \in Pending(log) : EditAt(log, p).key = k /\ pos[p] = j
    BY <2>1, <2>3, Zenon
  <2>5. new[p] = n + 1 - j
    BY <1>6, <2>1, <2>4, Zenon
  <2>. QED BY <2>2, <2>4, <2>5
<1>10. FollowsIn(turned, log, Pending(log), Backward(log), new)
    BY <1>7, <1>8, <1>9 DEF FollowsIn
<1>. QED BY <1>4, <1>10 DEF turned

\* RollbackWrapper::commit of the outermost context: replaying its edits in the order
\* they were made, against the reversed histories, fails no assertion and empties the
\* lookup map.
LEMMA CommitAll ==
    ASSUME NEW log \in Logs, Len(log) = 1, NEW map, IsLookupMap(map), Agrees(map, log)
    PROVE  /\ ~ FailsAll(ReplayAll(map, log[1]), log[1])
           /\ IsLookupMap(ReplayAll(map, log[1])[Len(log[1])])
           /\ DOMAIN ReplayAll(map, log[1])[Len(log[1])] = {}
<1> DEFINE turned == [k \in DOMAIN map |-> Reversed(map[k])]
           edits == log[1]
           at == [i \in 1 .. Len(edits) |-> <<1, i>>]
           maps == Replay(turned, edits)
<1>1. PICK pos : Follows(map, log, pos)
    BY DEF Agrees
<1>2. IsLookupMap(turned) /\ \E new : FollowsIn(turned, log, Pending(log), Backward(log), new)
    BY <1>1, ReversedFollows
<1> HIDE DEF turned
<1>3. PICK new : FollowsIn(turned, log, Pending(log), Backward(log), new)
    BY <1>2
<1>4. PICK L \in Nat : L = Len(edits)
  <2>1. edits \in Seq(Edit)
    BY DEF Logs
  <2>. QED BY <2>1
<1>5. \A p \in Pending(log) : p = <<1, p[2]>> /\ p[2] \in 1 .. L
    BY <1>4, Places
<1>6. \A i \in 1 .. L : at[i] = <<1, i>> /\ at[i] \in Pending(log) /\ EditAt(log, at[i]) = edits[i]
  <2> SUFFICES ASSUME NEW i \in 1 .. L
               PROVE  at[i] = <<1, i>> /\ at[i] \in Pending(log) /\ EditAt(log, at[i]) = edits[i]
    BY Zenon
  <2>1. at[i] = <<1, i>>
    BY <1>4
  <2>2. 1 \in 1 .. Len(log) /\ i \in 1 .. Len(log[1])
    BY <1>4
  <2>3. <<1, i>> \in Pending(log)
    BY <2>2, Places, Zenon
  <2>4. EditAt(log, <<1, i>>) = edits[i]
    BY DEF EditAt
  <2>. QED BY <2>1, <2>3, <2>4, Zenon
<1> HIDE DEF at
<1>7. Takes(log, Pending(log), Backward(log), edits, at)
  <2>1. ASSUME NEW i \in 1 .. L, NEW q \in Pending(log), \A j \in 1 .. i : q # at[j]
        PROVE  <<q, at[i]>> \in Backward(log)
    <3>1. PICK b \in 1 .. L : b = q[2] /\ q = <<1, b>>
      BY <1>5
    <3>2. ~ (b \in 1 .. i)
      BY <1>6, <2>1, <3>1
    <3>3. i < b
      BY <3>2
    <3>4. Before(at[i], q)
      BY <1>6, <3>1, <3>3 DEF Before
    <3>. QED BY <1>6, <3>4 DEF Backward
  <2>2. \A i \in 1 .. L : \A j \in 1 .. i - 1 : at[j] # at[i]
    BY <1>6
  <2>. QED BY <1>4, <1>6, <2>1, <2>2 DEF Takes
<1>8. Untaken(Pending(log), at, L) = {}
  <2>1. \A q \in Pending(log) : q[2] \in 1 .. L /\ q = at[q[2]]
    BY <1>5, <1>6
  <2>. QED BY <2>1 DEF Untaken
<1>9. /\ ~ Fails(maps, edits)
      /\ IsLookupMap(maps[Len(edits)])
      /\ FollowsIn(maps[Len(edits)], log, Untaken(Pending(log), at, Len(edits)), Backward(log), new)
  <2>1. Len(edits) \in Nat /\ Pending(log) \in SUBSET Pending(log)
    BY <1>4
  <2> HIDE DEF edits
  <2>. QED BY <1>2, <1>3, <1>7, <2>1, ReplayFollows, Zenon
<1>10. DOMAIN maps[L] = {}
  <2> DEFINE m == maps[L]
  <2>1. IsLookupMap(m) /\ FollowsIn(m, log, {}, Backward(log), new)
    BY <1>4, <1>8, <1>9
  <2> HIDE DEF m
  <2> SUFFICES ASSUME NEW k \in DOMAIN m PROVE FALSE
    BY DEF m
  <2>2. m[k] \in Seq(Value) /\ m[k] # <<>>
    BY <2>1 DEF IsLookupMap
  <2>3. 1 \in 1 .. Len(m[k])
    BY <2>2
  <2>. QED BY <2>1, <2>3 DEF FollowsIn
<1>11. ReplayAll(map, log[1]) = maps
    BY DEF ReplayAll, turned
<1> HIDE DEF maps
<1>. QED BY <1>4, <1>9, <1>10, <1>11 DEF FailsAll

\* RollbackWrapper::nest: an empty context changes no place and no edit.
LEMMA Opened ==
    ASSUME NEW log \in Logs
    PROVE  LET new == Append(log, <<>>)
           IN  /\ new \in Logs
               /\ Len(new) = Len(log) + 1
               /\ Pending(new) = Pending(log)
               /\ \A p \in Pending(log) : EditAt(new, p) = EditAt(log, p)
<1> DEFINE new == Append(log, <<>>)
<1>1. /\ new \in Logs /\ Len(new) = Len(log) + 1 /\ Len(log) \in Nat
      /\ \A n \in 1 .. Len(log) : new[n] = log[n]
      /\ new[Len(log) + 1] = <<>>
  <2>1. <<>> \in Seq(Edit)
    OBVIOUS
  <2>. QED BY <2>1 DEF Logs
<1> HIDE DEF new
<1>2. PICK N \in Nat : N = Len(log)
    BY <1>1
<1>3. ASSUME NEW p \in Pending(log) PROVE p \in Pending(new) /\ EditAt(new, p) = EditAt(log, p)
  <2>1. p = <<p[1], p[2]>> /\ p[1] \in 1 .. N /\ p[2] \in 1 .. Len(log[p[1]])
    BY <1>2, Places
  <2>2. p[1] \in 1 .. Len(new) /\ new[p[1]] = log[p[1]]
    BY <1>1, <1>2, <2>1
  <2>3. <<p[1], p[2]>> \in Pending(new)
    BY <1>1, <2>1, <2>2, Places
  <2>. QED BY <2>1, <2>2, <2>3 DEF EditAt
<1>4. ASSUME NEW p \in Pending(new) PROVE p \in Pending(log)
  <2>1. p = <<p[1], p[2]>> /\ p[1] \in 1 .. N + 1 /\ p[2] \in 1 .. Len(new[p[1]])
    BY <1>1, <1>2, Places
  <2>2. p[1] # N + 1
    BY <1>1, <1>2, <2>1
  <2>3. p[1] \in 1 .. Len(log) /\ new[p[1]] = log[p[1]]
    BY <1>1, <1>2, <2>1, <2>2
  <2>4. <<p[1], p[2]>> \in Pending(log)
    BY <2>1, <2>3, Places
  <2>. QED BY <2>1, <2>4
<1>. QED BY <1>1, <1>3, <1>4 DEF new

\* Logs with the same places and edits agree with the same lookup map.
LEMMA SameAgrees ==
    ASSUME NEW log \in Logs, NEW new \in Logs, NEW map, Agrees(map, log),
           Pending(new) = Pending(log),
           \A p \in Pending(log) : EditAt(new, p) = EditAt(log, p)
    PROVE  Agrees(map, new)
<1>1. PICK pos : Follows(map, log, pos)
    BY SMTT(30) DEF Agrees
<1>2. Follows(map, new, pos)
    BY <1>1 DEF Follows
<1>. QED BY <1>2, AgreesIs

\* The log after a write: one more place, after all others.
Written(log, e) == [log EXCEPT ![Len(log)] = Append(log[Len(log)], e)]

\* inner_put: what the write adds to the log.
LEMMA WrittenPlaces ==
    ASSUME NEW log \in Logs, Len(log) > 0, NEW e \in Edit
    PROVE  LET new == Written(log, e)
               last == <<Len(log), Len(log[Len(log)]) + 1>>
           IN  /\ new \in Logs
               /\ Len(new) = Len(log)
               /\ Pending(new) = Pending(log) \cup {last}
               /\ last \notin Pending(log)
               /\ EditAt(new, last) = e
               /\ \A p \in Pending(log) : EditAt(new, p) = EditAt(log, p) /\ Before(p, last)
<1>0. PICK N \in Nat \ {0} : N = Len(log)
    BY DEF Logs
<1>1. PICK L \in Nat : L = Len(log[N]) /\ log[N] \in Seq(Edit)
  <2>1. log[N] \in Seq(Edit)
    BY <1>0 DEF Logs
  <2>. QED BY <2>1
<1> DEFINE new == Written(log, e)
           last == <<N, L + 1>>
<1>2. /\ Append(log[N], e) \in Seq(Edit) /\ Len(Append(log[N], e)) = L + 1
      /\ Append(log[N], e)[L + 1] = e
      /\ \A i \in 1 .. L : Append(log[N], e)[i] = log[N][i]
    BY <1>1
<1>3. /\ new \in Logs /\ Len(new) = N
      /\ new[N] = Append(log[N], e)
      /\ \A n \in 1 .. N : n # N => new[n] = log[n]
    BY <1>0, <1>2 DEF Written, Logs
<1> HIDE DEF new
<1>4. last \in Pending(new) /\ EditAt(new, last) = e
  <2>1. N \in 1 .. Len(new) /\ L + 1 \in 1 .. Len(new[N])
    BY <1>2, <1>3
  <2>2. last \in Pending(new)
    BY <1>3, <2>1, Places
  <2>. QED BY <1>2, <1>3, <2>2 DEF EditAt
<1>5. last \notin Pending(log)
  <2>1. ~ (L + 1 \in 1 .. Len(log[N]))
    BY <1>1
  <2>. QED BY <2>1, Places
<1>6. ASSUME NEW p \in Pending(log)
      PROVE  p \in Pending(new) /\ EditAt(new, p) = EditAt(log, p) /\ Before(p, last)
  <2>1. p = <<p[1], p[2]>> /\ p[1] \in 1 .. N /\ p[2] \in 1 .. Len(log[p[1]])
    BY <1>0, Places
  <2>2. PICK a \in 1 .. N : a = p[1]
    BY <2>1
  <2>3. PICK b : b = p[2] /\ b \in 1 .. Len(log[a])
    BY <2>1, <2>2
  <2>4. CASE a = N
    <3>1. b \in 1 .. L
      BY <1>1, <2>3, <2>4
    <3>2. b \in 1 .. Len(new[a]) /\ new[a][b] = log[a][b]
      BY <1>2, <1>3, <2>4, <3>1, SMTT(30)
    <3>3. <<a, b>> \in Pending(new)
      BY <1>3, <3>2, Places
    <3>4. Before(p, last)
      BY <2>2, <2>3, <2>4, <3>1, SMTT(30) DEF Before
    <3>. QED BY <2>1, <2>2, <2>3, <3>2, <3>3, <3>4, SMTT(30) DEF EditAt
  <2>5. CASE a # N
    <3>1. new[a] = log[a]
      BY <1>3, <2>5
    <3>2. b \in 1 .. Len(new[a]) /\ new[a][b] = log[a][b]
      BY <2>3, <3>1
    <3>3. <<a, b>> \in Pending(new)
      BY <1>3, <3>2, Places
    <3>4. Before(p, last)
      BY <2>2, <2>5 DEF Before
    <3>. QED BY <2>1, <2>2, <2>3, <3>2, <3>3, <3>4 DEF EditAt
  <2>. QED BY <2>4, <2>5
<1>7. ASSUME NEW p \in Pending(new), p # last PROVE p \in Pending(log)
  <2>1. p = <<p[1], p[2]>> /\ p[1] \in 1 .. N /\ p[2] \in 1 .. Len(new[p[1]])
    BY <1>3, Places
  <2>2. PICK a \in 1 .. N : a = p[1]
    BY <2>1
  <2>3. PICK b : b = p[2] /\ b \in 1 .. Len(new[a])
    BY <2>1, <2>2
  <2>4. b \in 1 .. Len(log[a])
    <3>1. CASE a = N
      <4>1. b \in 1 .. L + 1 /\ b # L + 1
        BY <1>2, <1>3, <1>7, <2>1, <2>2, <2>3, <3>1, SMTT(30)
      <4>. QED BY <1>1, <3>1, <4>1
    <3>2. CASE a # N
      BY <1>3, <2>3, <3>2
    <3>. QED BY <3>1, <3>2
  <2>5. <<a, b>> \in Pending(log)
    BY <1>0, <2>4, Places
  <2>. QED BY <2>1, <2>2, <2>3, <2>5, SMTT(30)
<1>8. Pending(new) = Pending(log) \cup {last}
    BY <1>4, <1>6, <1>7
<1>. QED BY <1>0, <1>1, <1>3, <1>4, <1>5, <1>6, <1>8, SMTT(30) DEF new

\* The lookup map after a write.
Pushed(map, k, v) ==
    [x \in DOMAIN map \cup {k} |->
        IF x = k THEN Append(IF k \in DOMAIN map THEN map[k] ELSE <<>>, v) ELSE map[x]]

\* inner_put keeps the two records of the edits in step.
LEMMA WrittenAgrees ==
    ASSUME NEW log \in Logs, Len(log) > 0, NEW map, IsLookupMap(map), Agrees(map, log),
           NEW k \in Key, NEW v \in Value
    PROVE  /\ IsLookupMap(Pushed(map, k, v))
           /\ Agrees(Pushed(map, k, v), Written(log, [key |-> k, value |-> v]))
<1>1. PICK pos : Follows(map, log, pos)
    BY DEF Agrees
<1>2. PICK h \in Seq(Value) : h = IF k \in DOMAIN map THEN map[k] ELSE <<>>
  <2>1. k \in DOMAIN map => map[k] \in Seq(Value)
    BY DEF IsLookupMap
  <2>2. <<>> \in Seq(Value)
    OBVIOUS
  <2>. QED BY <2>1, <2>2, Zenon
<1>3. PICK n \in Nat : n = Len(h)
    BY <1>2
<1>4. /\ Append(h, v) \in Seq(Value) /\ Len(Append(h, v)) = n + 1 /\ Append(h, v) # <<>>
      /\ Append(h, v)[n + 1] = v
      /\ \A i \in 1 .. n : Append(h, v)[i] = h[i]
    BY <1>3
<1> DEFINE e == [key |-> k, value |-> v]
           new == Written(log, e)
           last == <<Len(log), Len(log[Len(log)]) + 1>>
           m == Pushed(map, k, v)
           at == [p \in Pending(log) \cup {last} |-> IF p = last THEN n + 1 ELSE pos[p]]
<1>5. e \in Edit /\ e.key = k /\ e.value = v
    BY DEF Edit
<1>6. /\ DOMAIN m = DOMAIN map \cup {k}
      /\ m[k] = Append(h, v)
      /\ \A x \in DOMAIN map : x # k => m[x] = map[x]
      /\ m = [x \in DOMAIN map \cup {k} |-> m[x]]
    BY <1>2 DEF Pushed
<1> HIDE DEF e, m
<1>7. IsLookupMap(m)
  <2>1. \A x \in DOMAIN map : map[x] \in Seq(Value) /\ map[x] # <<>> /\ x \in Key
    BY DEF IsLookupMap
  <2>2. \A x \in DOMAIN m : m[x] \in Seq(Value) /\ m[x] # <<>> /\ x \in Key
    BY <1>4, <1>6, <2>1, SMTT(30)
  <2>. QED BY <1>6, <2>2, Zenon DEF IsLookupMap
<1>8. /\ new \in Logs
      /\ Pending(new) = Pending(log) \cup {last}
      /\ last \notin Pending(log)
      /\ EditAt(new, last) = e
      /\ \A p \in Pending(log) : EditAt(new, p) = EditAt(log, p) /\ Before(p, last)
    BY <1>5, WrittenPlaces, ZenonT(30)
<1>9. at[last] = n + 1 /\ \A p \in Pending(log) : at[p] = pos[p]
    BY <1>8, SMTT(30)
<1> HIDE DEF new, last, at
<1>10. \A p \in Pending(log) : EditAt(log, p).key = k => (k \in DOMAIN map /\ h = map[k] /\ pos[p] \in 1 .. n)
    BY <1>1, <1>2, <1>3 DEF Follows
<1>11. ASSUME NEW p \in Pending(new)
       PROVE  /\ EditAt(new, p).key \in DOMAIN m
              /\ at[p] \in 1 .. Len(m[EditAt(new, p).key])
              /\ m[EditAt(new, p).key][at[p]] = EditAt(new, p).value
  <2>1. CASE p = last
    <3>1. EditAt(new, p).key = k /\ EditAt(new, p).value = v /\ at[p] = n + 1
      BY <1>5, <1>8, <1>9, <2>1, SMTT(30)
    <3>. QED BY <1>4, <1>6, <3>1, SMTT(30)
  <2>2. CASE p # last
    <3>1. p \in Pending(log) /\ EditAt(new, p) = EditAt(log, p) /\ at[p] = pos[p]
      BY <1>8, <1>9, <2>2
    <3>2. PICK x : x = EditAt(log, p).key
      BY SMTT(30)
    <3>3. x \in DOMAIN map /\ pos[p] \in 1 .. Len(map[x]) /\ map[x][pos[p]] = EditAt(log, p).value
      BY <1>1, <3>1, <3>2 DEF Follows
    <3>4. CASE x = k
      <4>1. h = map[k] /\ pos[p] \in 1 .. n
        BY <1>10, <3>1, <3>2, <3>4, Zenon
      <4>2. pos[p] \in 1 .. n + 1 /\ Append(h, v)[pos[p]] = EditAt(log, p).value
        BY <1>4, <3>3, <3>4, <4>1, SMTT(30)
      <4>. QED BY <1>4, <1>6, <3>1, <3>2, <3>4, <4>2
    <3>5. CASE x # k
      BY <1>6, <3>1, <3>2, <3>3, <3>5
    <3>. QED BY <3>4, <3>5, SMTT(30)
  <2>. QED BY <2>1, <2>2
<1>12. ASSUME NEW p \in Pending(new), NEW q \in Pending(new),
              EditAt(new, p).key = EditAt(new, q).key, Before(p, q)
       PROVE  at[p] < at[q]
  <2>1. CASE p = last
    <3>1. q # last
      BY <1>8, <1>12, <2>1, TotalOrder
    <3>2. q \in Pending(log)
      BY <1>8, <3>1
    <3>3. Before(q, p)
      BY <1>8, <2>1, <3>2
    <3>. QED BY <1>8, <1>12, <3>3, TotalOrder
  <2>2. CASE p # last /\ q = last
    <3>1. p \in Pending(log) /\ EditAt(log, p).key = k
      BY <1>5, <1>8, <1>12, <2>2
    <3>2. pos[p] \in 1 .. n
      BY <1>10, <3>1
    <3>. QED BY <1>9, <2>2, <3>1, <3>2
  <2>3. CASE p # last /\ q # last
    <3>1. p \in Pending(log) /\ q \in Pending(log) /\ EditAt(log, p).key = EditAt(log, q).key
      BY <1>8, <1>12, <2>3, SMTT(30)
    <3>2. pos[p] < pos[q]
      BY <1>1, <1>12, <3>1, SMTT(30) DEF Follows
    <3>. QED BY <1>9, <3>1, <3>2
  <2>. QED BY <2>1, <2>2, <2>3
<1>13. ASSUME NEW x \in DOMAIN m, NEW i \in 1 .. Len(m[x])
       PROVE  \E p \in Pending(new) : EditAt(new, p).key = x /\ at[p] = i
  <2>1. CASE x = k
    <3>1. i \in 1 .. n + 1
      BY <1>4, <1>6, <2>1, SMTT(30)
    <3>2. CASE i = n + 1
      BY <1>5, <1>8, <1>9, <2>1, <3>2, SMTT(30)
    <3>3. CASE i # n + 1
      <4>1. i \in 1 .. n
        BY <3>1, <3>3
      <4>2. k \in DOMAIN map /\ h = map[k]
        BY <1>2, <1>3, <4>1, SMTT(30)
      <4>3. i \in 1 .. Len(map[k])
        BY <1>3, <4>1, <4>2
      <4>4. PICK p \in Pending(log) : EditAt(log, p).key = k /\ pos[p] = i
        BY <1>1, <4>2, <4>3, ZenonT(30) DEF Follows
      <4>. QED BY <1>8, <1>9, <2>1, <4>4
    <3>. QED BY <3>2, <3>3
  <2>2. CASE x # k
    <3>1. x \in DOMAIN map /\ i \in 1 .. Len(map[x])
      BY <1>6, <2>2
    <3>2. PICK p \in Pending(log) : EditAt(log, p).key = x /\ pos[p] = i
      BY <1>1, <3>1, ZenonT(30) DEF Follows
    <3>. QED BY <1>8, <1>9, <3>2
  <2>. QED BY <2>1, <2>2
<1>14. Follows(m, new, at)
    BY <1>11, <1>12, <1>13 DEF Follows
<1>15. Agrees(m, new)
    BY <1>8, <1>14, AgreesIs, SMTT(30)
<1>. QED BY <1>7, <1>15 DEF m, new, e

\* The log after a nested commit.
Merged(log) == Append(SubSeq(log, 1, Len(log) - 2), log[Len(log) - 1] \o log[Len(log)])

\* RollbackWrapper::commit of a nested context moves the places of its edits behind
\* those of the context below: nothing is lost, and the order of the writes is kept.
LEMMA MergedPlaces ==
    ASSUME NEW log \in Logs, Len(log) > 1
    PROVE  /\ Merged(log) \in Logs
           /\ Len(Merged(log)) = Len(log) - 1
           /\ \E f \in [Pending(log) -> Pending(Merged(log))] :
                 /\ \A q \in Pending(Merged(log)) : \E p \in Pending(log) : f[p] = q
                 /\ \A p \in Pending(log) : EditAt(Merged(log), f[p]) = EditAt(log, p)
                 /\ \A p, q \in Pending(log) : Before(p, q) => Before(f[p], f[q])
                 /\ \A p \in Pending(log) : p[1] <= Len(log) - 2 => f[p] = p
                 /\ \A p \in Pending(log) : f[p][1] <= Len(log) - 2 => f[p] = p
<1>0. PICK N \in Nat : N = Len(log) /\ N > 1
    BY DEF Logs
<1> DEFINE low == log[N - 1]
           top == log[N]
           new == Merged(log)
<1>1. low \in Seq(Edit) /\ top \in Seq(Edit)
  <2>1. N - 1 \in 1 .. Len(log) /\ N \in 1 .. Len(log)
    BY <1>0
  <2>. QED BY <2>1 DEF Logs
<1>2. PICK M \in Nat : M = Len(low)
    BY <1>1
<1>3. PICK L \in Nat : L = Len(top)
    BY <1>1
<1>4. /\ low \o top \in Seq(Edit) /\ Len(low \o top) = M + L
      /\ \A i \in 1 .. M : (low \o top)[i] = low[i]
      /\ \A i \in 1 .. L : (low \o top)[M + i] = top[i]
  <2> HIDE DEF low, top
  <2>. QED BY <1>1, <1>2, <1>3
<1>5. /\ SubSeq(log, 1, N - 2) \in Logs /\ Len(SubSeq(log, 1, N - 2)) = N - 2
      /\ \A n \in 1 .. N - 2 : SubSeq(log, 1, N - 2)[n] = log[n]
  <2>1. N - 2 \in 0 .. Len(log)
    BY <1>0
  <2>. QED BY <2>1, Prefix DEF Logs
<1>6. new = Append(SubSeq(log, 1, N - 2), low \o top)
    BY <1>0 DEF Merged
<1>7. /\ new \in Logs /\ Len(new) = N - 1
      /\ new[N - 1] = low \o top
      /\ \A n \in 1 .. N - 2 : new[n] = log[n]
  <2> DEFINE base == SubSeq(log, 1, N - 2)
             both == low \o top
  <2> HIDE DEF base, both, new
  <2>1. base \in Seq(Seq(Edit)) /\ Len(base) = N - 2 /\ both \in Seq(Edit) /\ new = Append(base, both)
    BY <1>4, <1>5, <1>6 DEF Logs, base, both
  <2>2. /\ new \in Seq(Seq(Edit)) /\ Len(new) = N - 1
        /\ new[N - 1] = both
        /\ \A n \in 1 .. N - 2 : new[n] = base[n]
    BY <1>0, <2>1, SMTT(30)
  <2>. QED BY <1>5, <2>2 DEF Logs, base, both
<1> HIDE DEF new, low, top
<1> DEFINE F(p) == IF p[1] = N THEN <<N - 1, M + p[2]>> ELSE p
           f == [p \in Pending(log) |-> F(p)]
<1>8. ASSUME NEW p \in Pending(log)
      PROVE  /\ f[p] \in Pending(new)
             /\ EditAt(new, f[p]) = EditAt(log, p)
             /\ p[1] <= N - 2 => f[p] = p
             /\ f[p][1] <= N - 2 => f[p] = p
  <2>1. p = <<p[1], p[2]>> /\ p[1] \in 1 .. N /\ p[2] \in 1 .. Len(log[p[1]])
    BY <1>0, Places
  <2>2. PICK a \in 1 .. N : a = p[1]
    BY <2>1
  <2>3. PICK b : b = p[2] /\ b \in 1 .. Len(log[a])
    BY <2>1, <2>2
  <2>4. p = <<a, b>>
    BY <2>1, <2>2, <2>3, SMTT(30)
  <2>5. CASE a = N
    <3>1. b \in 1 .. L
      BY <1>3, <2>3, <2>5 DEF top
    <3>2. f[p] = <<N - 1, M + b>>
      BY <2>2, <2>3, <2>5, ZenonT(30)
    <3>3. N - 1 \in 1 .. Len(new) /\ M + b \in 1 .. Len(new[N - 1])
      BY <1>0, <1>4, <1>7, <3>1, SMTT(30)
    <3>4. f[p] \in Pending(new)
      <4>1. PICK j \in 1 .. Len(new) : j = N - 1
        BY <3>3
      <4>2. PICK c \in 1 .. Len(new[j]) : c = M + b
        BY <3>3, <4>1
      <4>3. <<j, c>> \in Pending(new)
        BY <1>7, Places, Zenon
      <4>. QED BY <3>2, <4>1, <4>2, <4>3, Zenon
    <3>5. new[N - 1][M + b] = log[N][b]
      BY <1>4, <1>7, <3>1, SMTT(30) DEF top
    <3>6. EditAt(new, f[p]) = EditAt(log, p)
      BY <2>4, <2>5, <3>2, <3>5 DEF EditAt
    <3>7. ~ (a <= N - 2) /\ ~ (f[p][1] <= N - 2)
      BY <2>5, <3>2
    <3>. QED BY <2>2, <3>4, <3>6, <3>7, SMTT(30)
  <2>6. CASE a = N - 1
    <3>0. b \in 1 .. M
      BY <1>2, <2>3, <2>6 DEF low
    <3>1. b \in 1 .. M /\ f[p] = p
      <4>1. p[1] # N
        BY <2>2, <2>6, SMTT(30)
      <4>. QED BY <3>0, <4>1
    <3>2. N - 1 \in 1 .. Len(new) /\ b \in 1 .. Len(new[N - 1])
      BY <1>0, <1>4, <1>7, <3>1, SMTT(30)
    <3>3. p \in Pending(new)
      BY <1>7, <2>4, <2>6, <3>2, Places, SMTT(30)
    <3>4. new[N - 1][b] = log[N - 1][b]
      BY <1>4, <1>7, <3>1, SMTT(30) DEF low
    <3>5. EditAt(new, p) = EditAt(log, p)
      BY <2>4, <2>6, <3>4 DEF EditAt
    <3>. QED BY <3>1, <3>3, <3>5
  <2>7. CASE a \in 1 .. N - 2
    <3>1. f[p] = p /\ new[a] = log[a]
      BY <1>7, <2>2, <2>7
    <3>2. a \in 1 .. Len(new) /\ b \in 1 .. Len(new[a])
      BY <1>7, <2>3, <2>7, <3>1
    <3>3. p \in Pending(new)
      BY <1>7, <2>4, <3>2, Places, SMTT(30)
    <3>4. EditAt(new, p) = EditAt(log, p)
      BY <2>4, <3>1 DEF EditAt
    <3>. QED BY <3>1, <3>3, <3>4
  <2>8. a = N \/ a = N - 1 \/ a \in 1 .. N - 2
    BY <2>2
  <2>. QED BY <2>5, <2>6, <2>7, <2>8
<1>9. ASSUME NEW q \in Pending(new) PROVE \E p \in Pending(log) : f[p] = q
  <2>1. q = <<q[1], q[2]>> /\ q[1] \in 1 .. N - 1 /\ q[2] \in 1 .. Len(new[q[1]])
    BY <1>7, Places, SMTT(30)
  <2>2. PICK a \in 1 .. N - 1 : a = q[1]
    BY <2>1
  <2>3. PICK b : b = q[2] /\ b \in 1 .. Len(new[a])
    BY <2>1, <2>2
  <2>4. q = <<a, b>>
    BY <2>1, <2>2, <2>3
  <2>5. CASE a = N - 1 /\ ~ (b \in 1 .. M)
    <3>1. b \in 1 .. M + L
      BY <1>4, <1>7, <2>3, <2>5, SMTT(30)
    <3>2. PICK c \in 1 .. L : b = M + c
      <4>1. b - M \in 1 .. L /\ b = M + (b - M)
        BY <2>5, <3>1
      <4>. QED BY <4>1
    <3>3. N \in 1 .. Len(log) /\ c \in 1 .. Len(log[N])
      BY <1>0, <1>3 DEF top
    <3>4. <<N, c>> \in Pending(log)
      BY <3>3, Places
    <3>5. f[<<N, c>>] = <<N - 1, M + c>>
      BY <3>4
    <3>. QED BY <2>4, <2>5, <3>2, <3>4, <3>5, Zenon
  <2>6. CASE a = N - 1 /\ b \in 1 .. M
    <3>1. a \in 1 .. Len(log) /\ b \in 1 .. Len(log[a]) /\ a # N
      BY <1>0, <1>2, <2>6, SMTT(30) DEF low
    <3>2. <<a, b>> \in Pending(log)
      BY <3>1, Places
    <3>3. f[<<a, b>>] = <<a, b>>
      BY <3>1, <3>2
    <3>. QED BY <2>4, <3>2, <3>3
  <2>7. CASE a # N - 1
    <3>1. a \in 1 .. N - 2
      BY <2>7
    <3>2. a \in 1 .. Len(log) /\ b \in 1 .. Len(log[a]) /\ a # N
      BY <1>0, <1>7, <2>3, <3>1, SMTT(30)
    <3>3. <<a, b>> \in Pending(log)
      BY <3>2, Places
    <3>4. f[<<a, b>>] = <<a, b>>
      BY <3>2, <3>3
    <3>. QED BY <2>4, <3>3, <3>4
  <2>. QED BY <2>5, <2>6, <2>7, SMTT(30)
<1>10. ASSUME NEW p \in Pending(log), NEW q \in Pending(log), Before(p, q)
       PROVE  Before(f[p], f[q])
  <2>1. /\ p = <<p[1], p[2]>> /\ p[1] \in 1 .. N /\ p[2] \in 1 .. Len(log[p[1]])
        /\ q = <<q[1], q[2]>> /\ q[1] \in 1 .. N /\ q[2] \in 1 .. Len(log[q[1]])
    BY <1>0, Places, SMTT(30)
  <2>2. p[2] \in Int /\ q[2] \in Int /\ q[2] > 0
    BY <2>1, SMTT(30)
  <2>3. CASE p[1] = N
    <3>1. q[1] = N /\ p[2] < q[2]
      BY <1>10, <2>1, <2>3, SMTT(30) DEF Before
    <3>2. f[p] = <<N - 1, M + p[2]>> /\ f[q] = <<N - 1, M + q[2]>>
      BY <2>3, <3>1
    <3>. QED BY <2>2, <3>1, <3>2 DEF Before
  <2>4. CASE p[1] # N /\ q[1] = N
    <3>1. f[p] = p /\ f[q] = <<N - 1, M + q[2]>>
      BY <2>4
    <3>2. CASE p[1] = N - 1
      <4>1. p[2] \in 1 .. M
        BY <1>2, <2>1, <3>2 DEF low
      <4>2. p[2] < M + q[2]
        BY <2>2, <4>1, SMTT(30)
      <4>. QED BY <3>1, <3>2, <4>2 DEF Before
    <3>3. CASE p[1] # N - 1
      <4>1. p[1] < N - 1
        BY <2>1, <2>4, <3>3, SMTT(30)
      <4>. QED BY <3>1, <4>1 DEF Before
    <3>. QED BY <3>2, <3>3
  <2>5. CASE p[1] # N /\ q[1] # N
    <3>1. f[p] = p /\ f[q] = q
      BY <2>5
    <3>. QED BY <1>10, <3>1
  <2>. QED BY <2>3, <2>4, <2>5
<1>11. f \in [Pending(log) -> Pending(new)]
    BY <1>8
<1> HIDE DEF f
<1>. QED BY <1>0, <1>7, <1>8, <1>9, <1>10, <1>11 DEF new

\* A nested commit leaves the lookup map as it is, and the merged log agrees with it.
LEMMA MergedAgrees ==
    ASSUME NEW log \in Logs, Len(log) > 1, NEW map, Agrees(map, log)
    PROVE  Agrees(map, Merged(log))
<1>1. PICK pos : Follows(map, log, pos)
    BY DEF Agrees
<1> DEFINE new == Merged(log)
<1>2. PICK f \in [Pending(log) -> Pending(new)] :
         /\ \A q \in Pending(new) : \E p \in Pending(log) : f[p] = q
         /\ \A p \in Pending(log) : EditAt(new, f[p]) = EditAt(log, p)
         /\ \A p, q \in Pending(log) : Before(p, q) => Before(f[p], f[q])
    BY MergedPlaces, Zenon
<1>3. new \in Logs
    BY MergedPlaces
<1> HIDE DEF new
<1> DEFINE g == [q \in Pending(new) |-> CHOOSE p \in Pending(log) : f[p] = q]
           at == [q \in Pending(new) |-> pos[g[q]]]
<1>4. \A q \in Pending(new) : g[q] \in Pending(log) /\ f[g[q]] = q
    BY <1>2
<1>5. \A q \in Pending(new) : at[q] = pos[g[q]] /\ EditAt(new, q) = EditAt(log, g[q])
  <2>1. \A q \in Pending(new) : EditAt(new, f[g[q]]) = EditAt(log, g[q])
    BY <1>2, <1>4, ZenonT(30)
  <2>. QED BY <1>4, <2>1
<1> HIDE DEF g, at
<1>6. \A p \in Pending(log) : f[p] \in Pending(new) /\ g[f[p]] = p
  <2> SUFFICES ASSUME NEW p \in Pending(log) PROVE f[p] \in Pending(new) /\ g[f[p]] = p
    OBVIOUS
  <2>1. f[p] \in Pending(new)
    OBVIOUS
  <2>2. g[f[p]] \in Pending(log) /\ f[g[f[p]]] = f[p]
    BY <1>4, <2>1, SMTT(30)
  <2>3. ~ Before(g[f[p]], p) /\ ~ Before(p, g[f[p]])
    BY <1>2, <1>3, <2>1, <2>2, TotalOrder, SMTT(30)
  <2>. QED BY <2>1, <2>2, <2>3, TotalOrder, SMTT(30)
<1>7. ASSUME NEW p \in Pending(new), NEW q \in Pending(new), Before(p, q)
      PROVE  Before(g[p], g[q])
  <2>1. g[p] \in Pending(log) /\ g[q] \in Pending(log) /\ f[g[p]] = p /\ f[g[q]] = q
    BY <1>4, SMTT(30)
  <2>2. ~ Before(g[q], g[p])
    BY <1>2, <1>3, <1>7, <2>1, TotalOrder, SMTT(30)
  <2>3. g[p] # g[q]
    BY <1>3, <1>7, <2>1, TotalOrder, SMTT(30)
  <2>. QED BY <2>1, <2>2, <2>3, TotalOrder, SMTT(30)
<1>8. \A p \in Pending(new) : /\ EditAt(new, p).key \in DOMAIN map
                              /\ at[p] \in 1 .. Len(map[EditAt(new, p).key])
                              /\ map[EditAt(new, p).key][at[p]] = EditAt(new, p).value
    BY <1>1, <1>4, <1>5, SMTT(30) DEF Follows
<1>9. \A p, q \in Pending(new) :
         (EditAt(new, p).key = EditAt(new, q).key /\ Before(p, q)) => at[p] < at[q]
    BY <1>1, <1>4, <1>5, <1>7, SMTT(30) DEF Follows
<1>10. ASSUME NEW k \in DOMAIN map, NEW i \in 1 .. Len(map[k])
       PROVE  \E q \in Pending(new) : EditAt(new, q).key = k /\ at[q] = i
  <2>1. PICK p \in Pending(log) : EditAt(log, p).key = k /\ pos[p] = i
    BY <1>1, ZenonT(30) DEF Follows
  <2>. QED BY <1>5, <1>6, <2>1
<1>11. Follows(map, new, at)
    BY <1>8, <1>9, <1>10 DEF Follows
<1>. QED BY <1>3, <1>11, AgreesIs, SMTT(30) DEF new

----------------------------------------------------------------------------
\* Views.

\* The latest place is unique.
LEMMA LatestIs ==
    ASSUME NEW log \in Logs, NEW S \in SUBSET Pending(log), NEW p \in S,
           \A q \in S : q = p \/ Before(q, p)
    PROVE  Latest(S) = p
<1>1. \A r \in S : (\A q \in S : q = r \/ Before(q, r)) => r = p
    BY TotalOrder, SMTT(30)
<1>. QED BY <1>1 DEF Latest

\* A key with pending edits has a latest one, and positions tell which.
LEMMA LatestExists ==
    ASSUME NEW log \in Logs, NEW map, IsLookupMap(map), Agrees(map, log), NEW k, NEW n,
           PendingOf(log, k, n) # {}
    PROVE  LET S == PendingOf(log, k, n)
           IN  /\ Latest(S) \in S
               /\ \A q \in S : q = Latest(S) \/ Before(q, Latest(S))
<1> DEFINE S == PendingOf(log, k, n)
<1>1. PICK pos : Follows(map, log, pos)
    BY DEF Agrees
<1>2. \A p \in S : p \in Pending(log) /\ EditAt(log, p).key = k
    BY DEF PendingOf
<1> HIDE DEF S
<1>3. S # {}
    BY SMTT(30) DEF S
<1>4. k \in DOMAIN map /\ \A p \in S : pos[p] \in 1 .. Len(map[k])
    BY <1>1, <1>2, <1>3 DEF Follows
<1>5. PICK L \in Nat : L = Len(map[k])
  <2>1. map[k] \in Seq(Value)
    BY <1>4 DEF IsLookupMap
  <2>. QED BY <2>1
<1> DEFINE T == {pos[p] : p \in S}
<1>6. T \subseteq Nat /\ T # {} /\ \A c \in T : c <= L
    BY <1>3, <1>4, <1>5
<1>7. PICK m \in T : \A c \in T : c <= m
  <2> HIDE DEF T
  <2>. QED BY <1>6, GreatestElement, Zenon
<1>8. PICK p \in S : pos[p] = m
    OBVIOUS
<1>9. \A q \in S : q = p \/ Before(q, p)
  <2> SUFFICES ASSUME NEW q \in S, q # p, ~ Before(q, p) PROVE FALSE
    BY SMTT(30)
  <2>1. Before(p, q)
    BY <1>2, TotalOrder, SMTT(30)
  <2>2. pos[p] < pos[q]
    BY <1>1, <1>2, <2>1, SMTT(30) DEF Follows
  <2>3. pos[q] <= pos[p]
    BY <1>7, <1>8
  <2>4. pos[p] \in Int /\ pos[q] \in Int
    BY <1>4, <1>5, SMTT(30)
  <2>. QED BY <2>2, <2>3, <2>4, SMTT(30)
<1>10. S \in SUBSET Pending(log)
    BY <1>2, SMTT(30)
<1>11. Latest(S) = p
    BY <1>9, <1>10, LatestIs
<1>. QED BY <1>9, <1>11, SMTT(30) DEF S

\* Two logs with the same edits up to a context give the same view there.
LEMMA SameView ==
    ASSUME NEW log \in Logs, NEW new \in Logs, NEW map, IsLookupMap(map), Agrees(map, log),
           NEW rows, NEW n, NEW m,
           \A p \in Pending(log) : p[1] <= n => (p \in Pending(new) /\ p[1] <= m),
           \A p \in Pending(new) : p[1] <= m => (p \in Pending(log) /\ p[1] <= n),
           \A p \in Pending(log) : p[1] <= n => EditAt(new, p) = EditAt(log, p)
    PROVE  View(rows, new, m) = View(rows, log, n)
<1>1. \A k : PendingOf(new, k, m) = PendingOf(log, k, n)
  <2> SUFFICES ASSUME NEW k PROVE PendingOf(new, k, m) = PendingOf(log, k, n)
    OBVIOUS
  <2>1. \A p : p \in PendingOf(log, k, n) => p \in PendingOf(new, k, m)
    BY Zenon DEF PendingOf
  <2>2. \A p : p \in PendingOf(new, k, m) => p \in PendingOf(log, k, n)
    <3> SUFFICES ASSUME NEW p \in PendingOf(new, k, m) PROVE p \in PendingOf(log, k, n)
      BY Zenon
    <3>1. p \in Pending(new) /\ p[1] <= m /\ EditAt(new, p).key = k
      BY Zenon DEF PendingOf
    <3>2. p \in Pending(log) /\ p[1] <= n
      BY <3>1, Zenon
    <3>3. EditAt(new, p) = EditAt(log, p)
      BY <3>2, Zenon
    <3>4. EditAt(log, p).key = k
      BY <3>1, <3>3, Zenon
    <3>. QED BY <3>2, <3>4, Zenon DEF PendingOf
  <2>. QED BY <2>1, <2>2, Zenon
<1>2. ASSUME NEW k \in Key, PendingOf(log, k, n) # {}
      PROVE  EditAt(new, Latest(PendingOf(log, k, n))) = EditAt(log, Latest(PendingOf(log, k, n)))
  <2>1. Latest(PendingOf(log, k, n)) \in PendingOf(log, k, n)
    BY <1>2, LatestExists, Zenon
  <2>2. /\ Latest(PendingOf(log, k, n)) \in Pending(log)
        /\ Latest(PendingOf(log, k, n))[1] <= n
    BY <2>1, ZenonT(30) DEF PendingOf
  <2>. QED BY <2>2, Zenon
<1>3. ASSUME NEW k \in Key
      PROVE  (IF PendingOf(new, k, m) = {} THEN rows[k]
                 ELSE EditAt(new, Latest(PendingOf(new, k, m))).value)
             = (IF PendingOf(log, k, n) = {} THEN rows[k]
                   ELSE EditAt(log, Latest(PendingOf(log, k, n))).value)
  <2>1. PendingOf(new, k, m) = PendingOf(log, k, n)
    BY <1>1, SMTT(30)
  <2>2. CASE PendingOf(log, k, n) = {}
    BY <2>1, <2>2, SMTT(30)
  <2>3. CASE PendingOf(log, k, n) # {}
    BY <1>2, <2>1, <2>3, SMTT(30)
  <2>. QED BY <2>2, <2>3, Zenon
<1>. QED BY <1>3, Zenon DEF View

\* The value of a key in a view.
LEMMA ViewOf ==
    ASSUME NEW rows, NEW log, NEW n, NEW k \in Key
    PROVE  View(rows, log, n)[k] = IF PendingOf(log, k, n) = {} THEN rows[k]
                                   ELSE EditAt(log, Latest(PendingOf(log, k, n))).value
    BY DEF View

\* Opening a context: the views below stay, and the new one is a copy of the top.
LEMMA OpenedViews ==
    ASSUME NEW log \in Logs, NEW map, IsLookupMap(map), Agrees(map, log), NEW rows
    PROVE  /\ \A n \in 0 .. Len(log) : View(rows, Append(log, <<>>), n) = View(rows, log, n)
           /\ View(rows, Append(log, <<>>), Len(log) + 1) = View(rows, log, Len(log))
<1> DEFINE new == Append(log, <<>>)
<1>0. PICK N \in Nat : N = Len(log)
    BY DEF Logs
<1>1. /\ new \in Logs /\ Pending(new) = Pending(log)
      /\ \A p \in Pending(log) : EditAt(new, p) = EditAt(log, p)
    BY Opened
<1> HIDE DEF new
<1>2. \A p \in Pending(log) : p[1] \in 1 .. N /\ p[1] <= N /\ p[1] <= N + 1
    BY <1>0, Places
<1>3. \A n \in 0 .. N : View(rows, new, n) = View(rows, log, n)
    BY <1>1, SameView
<1>4. View(rows, new, N + 1) = View(rows, log, N)
    BY <1>1, <1>2, SameView
<1>. QED BY <1>0, <1>3, <1>4 DEF new

\* Rolling back: the views below stay.
LEMMA DroppedViews ==
    ASSUME NEW log \in Logs, Len(log) > 0, NEW map, IsLookupMap(map), Agrees(map, log), NEW rows
    PROVE  \A n \in 0 .. Len(log) - 1 : View(rows, SubSeq(log, 1, Len(log) - 1), n) = View(rows, log, n)
<1>0. PICK N \in Nat \ {0} : N = Len(log)
    BY DEF Logs
<1> DEFINE below == SubSeq(log, 1, N - 1)
<1>1. below \in Logs /\ Len(below) = N - 1 /\ \A n \in 1 .. N - 1 : below[n] = log[n]
    BY <1>0, Prefix DEF Logs
<1> HIDE DEF below
<1>2. ASSUME NEW n \in 0 .. N - 1, NEW p \in Pending(log), p[1] <= n
      PROVE  p \in Pending(below) /\ EditAt(below, p) = EditAt(log, p)
  <2>1. p = <<p[1], p[2]>> /\ p[1] \in 1 .. N /\ p[2] \in 1 .. Len(log[p[1]])
    BY <1>0, Places
  <2>2. p[1] \in 1 .. N - 1 /\ below[p[1]] = log[p[1]]
    BY <1>1, <1>2, <2>1
  <2>3. <<p[1], p[2]>> \in Pending(below)
    BY <1>1, <2>1, <2>2, Places
  <2>. QED BY <2>1, <2>2, <2>3, SMTT(30) DEF EditAt
<1>3. ASSUME NEW p \in Pending(below) PROVE p \in Pending(log)
  <2>1. p = <<p[1], p[2]>> /\ p[1] \in 1 .. N - 1 /\ p[2] \in 1 .. Len(below[p[1]])
    BY <1>1, Places
  <2>2. p[1] \in 1 .. Len(log) /\ below[p[1]] = log[p[1]]
    BY <1>0, <1>1, <2>1, SMTT(30)
  <2>3. <<p[1], p[2]>> \in Pending(log)
    BY <2>1, <2>2, Places, SMTT(30)
  <2>. QED BY <2>1, <2>3
<1>4. ASSUME NEW n \in 0 .. N - 1 PROVE View(rows, below, n) = View(rows, log, n)
    BY <1>1, <1>2, <1>3, SameView, SMTT(30)
<1>. QED BY <1>0, <1>4 DEF below

\* Writing: the views below stay, and the top one changes at the key.
LEMMA WrittenViews ==
    ASSUME NEW log \in Logs, Len(log) > 0, NEW map, IsLookupMap(map), Agrees(map, log), NEW rows,
           NEW k \in Key, NEW v \in Value
    PROVE  LET new == Written(log, [key |-> k, value |-> v])
           IN  /\ \A n \in 0 .. Len(log) - 1 : View(rows, new, n) = View(rows, log, n)
               /\ View(rows, new, Len(log)) = [View(rows, log, Len(log)) EXCEPT ![k] = v]
<1>0. PICK N \in Nat \ {0} : N = Len(log)
    BY DEF Logs
<1> DEFINE e == [key |-> k, value |-> v]
           new == Written(log, e)
           last == <<Len(log), Len(log[Len(log)]) + 1>>
<1>1. e \in Edit /\ e.key = k /\ e.value = v
    BY DEF Edit
<1> HIDE DEF e
<1>2. /\ new \in Logs /\ Pending(new) = Pending(log) \cup {last}
      /\ EditAt(new, last) = e
      /\ \A p \in Pending(log) : EditAt(new, p) = EditAt(log, p) /\ Before(p, last)
    BY <1>1, WrittenPlaces, Zenon
<1>3. last[1] = N /\ \A p \in Pending(log) : p[1] \in 1 .. N /\ p[1] <= N
    BY <1>0, Places, SMTT(30)
<1> HIDE DEF new, last
<1>4. ASSUME NEW n \in 0 .. N - 1 PROVE View(rows, new, n) = View(rows, log, n)
  <2>1. \A p \in Pending(new) : p[1] <= n => p \in Pending(log)
    BY <1>2, <1>3
  <2>. QED BY <1>2, <2>1, SameView, SMTT(30)
<1>5. ASSUME NEW x \in Key, x # k PROVE View(rows, new, N)[x] = View(rows, log, N)[x]
  <2>1. PendingOf(new, x, N) = PendingOf(log, x, N)
    BY <1>1, <1>2, <1>5, SMTT(30) DEF PendingOf
  <2>2. CASE PendingOf(log, x, N) = {}
    BY <2>1, <2>2, ViewOf, SMTT(30)
  <2>3. CASE PendingOf(log, x, N) # {}
    <3>1. Latest(PendingOf(log, x, N)) \in PendingOf(log, x, N)
      BY <2>3, LatestExists
    <3>2. Latest(PendingOf(log, x, N)) \in Pending(log)
      BY <3>1, SMTT(30) DEF PendingOf
    <3>. QED BY <1>2, <2>1, <2>3, <3>2, ViewOf, SMTT(30)
  <2>. QED BY <2>2, <2>3
<1>6. View(rows, new, N)[k] = v
  <2>1. last \in PendingOf(new, k, N)
    BY <1>1, <1>2, <1>3 DEF PendingOf
  <2>2. \A q \in PendingOf(new, k, N) : q = last \/ Before(q, last)
    BY <1>2 DEF PendingOf
  <2>3. PendingOf(new, k, N) \in SUBSET Pending(new)
    BY DEF PendingOf
  <2>4. Latest(PendingOf(new, k, N)) = last
    BY <1>2, <2>1, <2>2, <2>3, LatestIs
  <2>. QED BY <1>1, <1>2, <2>1, <2>4, ViewOf, SMTT(30)
<1>7. View(rows, new, N) = [View(rows, log, N) EXCEPT ![k] = v]
  <2>1. View(rows, new, N) = [x \in Key |-> View(rows, new, N)[x]]
    BY SMTT(30) DEF View
  <2>2. View(rows, log, N) = [x \in Key |-> View(rows, log, N)[x]]
    BY DEF View
  <2>. QED BY <1>5, <1>6, <2>1, <2>2, SMTT(30)
<1>. QED BY <1>0, <1>4, <1>7 DEF new, e

\* A nested commit: the views below the two contexts stay, and the top view takes the
\* place of the one below it.
LEMMA MergedViews ==
    ASSUME NEW log \in Logs, Len(log) > 1, NEW map, IsLookupMap(map), Agrees(map, log), NEW rows
    PROVE  /\ \A n \in 0 .. Len(log) - 2 : View(rows, Merged(log), n) = View(rows, log, n)
           /\ View(rows, Merged(log), Len(log) - 1) = View(rows, log, Len(log))
<1>0. PICK N \in Nat : N = Len(log) /\ N > 1
    BY DEF Logs
<1> DEFINE new == Merged(log)
<1>1. new \in Logs /\ Len(new) = N - 1
    BY <1>0, MergedPlaces, SMTT(30)
<1>2. PICK f \in [Pending(log) -> Pending(new)] :
         /\ \A q \in Pending(new) : \E p \in Pending(log) : f[p] = q
         /\ \A p \in Pending(log) : EditAt(new, f[p]) = EditAt(log, p)
         /\ \A p, q \in Pending(log) : Before(p, q) => Before(f[p], f[q])
         /\ \A p \in Pending(log) : p[1] <= N - 2 => f[p] = p
         /\ \A p \in Pending(log) : f[p][1] <= N - 2 => f[p] = p
    BY <1>0, MergedPlaces
<1> HIDE DEF new
<1>3. /\ \A p \in Pending(log) : p[1] \in 1 .. N /\ p[1] <= N
      /\ \A q \in Pending(new) : q[1] \in 1 .. N - 1 /\ q[1] <= N - 1
    BY <1>0, <1>1, Places, SMTT(30)
<1>4. ASSUME NEW n \in 0 .. N - 2 PROVE View(rows, new, n) = View(rows, log, n)
  <2>1. \A p \in Pending(log) : p[1] <= n => (p \in Pending(new) /\ EditAt(new, p) = EditAt(log, p))
    <3> SUFFICES ASSUME NEW p \in Pending(log), p[1] <= n
                 PROVE  p \in Pending(new) /\ EditAt(new, p) = EditAt(log, p)
      OBVIOUS
    <3>1. p[1] <= N - 2
      BY <1>3
    <3>2. f[p] = p /\ f[p] \in Pending(new)
      BY <1>2, <3>1
    <3>3. EditAt(new, f[p]) = EditAt(log, p)
      BY <1>2
    <3>. QED BY <3>2, <3>3
  <2>2. \A q \in Pending(new) : q[1] <= n => q \in Pending(log)
    <3> SUFFICES ASSUME NEW q \in Pending(new), q[1] <= n PROVE q \in Pending(log)
      OBVIOUS
    <3>1. q[1] <= N - 2
      BY <1>3
    <3>2. PICK p \in Pending(log) : f[p] = q
      BY <1>2
    <3>3. f[p] = p
      BY <1>2, <3>1, <3>2
    <3>. QED BY <3>2, <3>3
  <2>. QED BY <1>1, <2>1, <2>2, SameView
<1>5. ASSUME NEW k \in Key
      PROVE  View(rows, new, N - 1)[k] = View(rows, log, N)[k]
  <2>1. \A p \in PendingOf(log, k, N) : p \in Pending(log) /\ f[p] \in PendingOf(new, k, N - 1)
    <3> SUFFICES ASSUME NEW p \in PendingOf(log, k, N)
                 PROVE  p \in Pending(log) /\ f[p] \in PendingOf(new, k, N - 1)
      OBVIOUS
    <3>1. p \in Pending(log) /\ EditAt(log, p).key = k
      BY DEF PendingOf
    <3>2. f[p] \in Pending(new)
      BY <3>1
    <3>3. EditAt(new, f[p]) = EditAt(log, p) /\ f[p][1] <= N - 1
      BY <1>2, <1>3, <3>1, <3>2
    <3>. QED BY <3>1, <3>2, <3>3 DEF PendingOf
  <2>2. \A q \in PendingOf(new, k, N - 1) : \E p \in PendingOf(log, k, N) : f[p] = q
    <3> SUFFICES ASSUME NEW q \in PendingOf(new, k, N - 1)
                 PROVE  \E p \in PendingOf(log, k, N) : f[p] = q
      OBVIOUS
    <3>1. q \in Pending(new) /\ EditAt(new, q).key = k
      BY DEF PendingOf
    <3>2. PICK p \in Pending(log) : f[p] = q
      BY <1>2, <3>1, SMTT(30)
    <3>3. EditAt(log, p).key = k /\ p[1] <= N
      BY <1>2, <1>3, <3>1, <3>2
    <3>4. p \in PendingOf(log, k, N)
      BY <3>3, SMTT(30) DEF PendingOf
    <3>. QED BY <3>2, <3>4
  <2>3. CASE PendingOf(log, k, N) = {}
    <3>1. PendingOf(new, k, N - 1) = {}
      BY <2>2, <2>3, SMTT(30)
    <3>. QED BY <2>3, <3>1, ViewOf
  <2>4. CASE PendingOf(log, k, N) # {}
    <3> DEFINE p == Latest(PendingOf(log, k, N))
    <3>1. p \in PendingOf(log, k, N) /\ \A q \in PendingOf(log, k, N) : q = p \/ Before(q, p)
      BY <2>4, LatestExists
    <3> HIDE DEF p
    <3>2. f[p] \in PendingOf(new, k, N - 1)
      BY <2>1, <3>1
    <3>3. \A q \in PendingOf(new, k, N - 1) : q = f[p] \/ Before(q, f[p])
      <4> SUFFICES ASSUME NEW q \in PendingOf(new, k, N - 1) PROVE q = f[p] \/ Before(q, f[p])
        OBVIOUS
      <4>1. PICK r \in PendingOf(log, k, N) : f[r] = q
        BY <2>2
      <4>2. r \in Pending(log) /\ p \in Pending(log)
        BY <2>1, <3>1
      <4>3. r = p \/ Before(r, p)
        BY <3>1
      <4>. QED BY <1>2, <4>1, <4>2, <4>3
    <3>4. PendingOf(new, k, N - 1) \in SUBSET Pending(new)
      BY DEF PendingOf
    <3>5. Latest(PendingOf(new, k, N - 1)) = f[p]
      BY <1>1, <3>2, <3>3, <3>4, LatestIs, SMTT(30)
    <3>6. EditAt(new, f[p]) = EditAt(log, p)
      BY <1>2, <2>1, <3>1, SMTT(30)
    <3>7. View(rows, new, N - 1)[k] = EditAt(new, f[p]).value
      BY <3>2, <3>5, ViewOf, SMTT(30)
    <3>8. View(rows, log, N)[k] = EditAt(log, p).value
      BY <2>4, ViewOf DEF p
    <3>. QED BY <3>6, <3>7, <3>8
  <2>. QED BY <2>3, <2>4
<1>6. View(rows, new, N - 1) = View(rows, log, N)
  <2>1. View(rows, new, N - 1) = [x \in Key |-> View(rows, new, N - 1)[x]]
    BY SMTT(30) DEF View
  <2>2. View(rows, log, N) = [x \in Key |-> View(rows, log, N)[x]]
    BY DEF View
  <2>. QED BY <1>5, <2>1, <2>2, SMTT(30)
<1>. QED BY <1>0, <1>4, <1>6 DEF new

\* The outermost commit: put_all stores the view of the only context.
LEMMA StoredView ==
    ASSUME NEW log \in Logs, Len(log) = 1, NEW rows
    PROVE  PutAll(rows, log[1]) = View(rows, log, 1)
<1> DEFINE edits == log[1]
<1>1. PICK L \in Nat : L = Len(edits)
  <2>1. edits \in Seq(Edit)
    BY DEF Logs
  <2>. QED BY <2>1
<1>2. \A p \in Pending(log) : p = <<1, p[2]>> /\ p[1] = 1 /\ p[2] \in 1 .. L
    BY <1>1, Places
<1>3. \A i \in 1 .. L : <<1, i>> \in Pending(log) /\ EditAt(log, <<1, i>>) = edits[i]
  <2> SUFFICES ASSUME NEW i \in 1 .. L PROVE <<1, i>> \in Pending(log) /\ EditAt(log, <<1, i>>) = edits[i]
    BY Zenon
  <2>1. 1 \in 1 .. Len(log) /\ i \in 1 .. Len(log[1])
    BY <1>1, SMTT(30)
  <2>. QED BY <2>1, Places, Zenon DEF EditAt
<1> DEFINE Of(k) == {i \in 1 .. Len(edits) : edits[i].key = k}
<1>4. ASSUME NEW k \in Key
      PROVE  (IF Of(k) = {} THEN rows[k] ELSE edits[CHOOSE i \in Of(k) : \A j \in Of(k) : j <= i].value)
             = View(rows, log, 1)[k]
  <2>1. \A i \in 1 .. L : i \in Of(k) <=> <<1, i>> \in PendingOf(log, k, 1)
    <3> SUFFICES ASSUME NEW i \in 1 .. L PROVE i \in Of(k) <=> <<1, i>> \in PendingOf(log, k, 1)
      BY Zenon
    <3>1. i \in Of(k) <=> EditAt(log, <<1, i>>).key = k
      BY <1>1, <1>3
    <3>2. <<1, i>> \in Pending(log) /\ <<1, i>>[1] <= 1
      BY <1>3
    <3>. QED BY <3>1, <3>2 DEF PendingOf
  <2>2. \A p \in PendingOf(log, k, 1) : p = <<1, p[2]>> /\ p[2] \in Of(k)
    <3> SUFFICES ASSUME NEW p \in PendingOf(log, k, 1) PROVE p = <<1, p[2]>> /\ p[2] \in Of(k)
      OBVIOUS
    <3>1. p \in Pending(log)
      BY DEF PendingOf
    <3>2. p = <<1, p[2]>> /\ p[2] \in 1 .. L
      BY <1>2, <3>1, SMTT(30)
    <3>. QED BY <2>1, <3>2
  <2>3. CASE Of(k) = {}
    <3>1. PendingOf(log, k, 1) = {}
      BY <2>2, <2>3
    <3>. QED BY <2>3, <3>1, ViewOf, SMTT(30)
  <2>4. CASE Of(k) # {}
    <3>1. Of(k) \subseteq Nat /\ \A c \in Of(k) : c <= L /\ c \in 1 .. L
      BY <1>1
    <3> HIDE DEF Of, edits
    <3>2. \E m \in Of(k) : \A c \in Of(k) : c <= m
      BY <2>4, <3>1, GreatestElement
    <3> DEFINE m == CHOOSE i \in Of(k) : \A j \in Of(k) : j <= i
    <3>3. m \in Of(k) /\ \A j \in Of(k) : j <= m
      BY <3>2
    <3> HIDE DEF m
    <3>4. m \in 1 .. L /\ <<1, m>> \in PendingOf(log, k, 1)
      BY <2>1, <3>1, <3>3
    <3>5. \A q \in PendingOf(log, k, 1) : q = <<1, m>> \/ Before(q, <<1, m>>)
      <4> SUFFICES ASSUME NEW q \in PendingOf(log, k, 1) PROVE q = <<1, m>> \/ Before(q, <<1, m>>)
        OBVIOUS
      <4>1. PICK b \in Of(k) : q = <<1, b>>
        BY <2>2
      <4>2. b \in 1 .. L /\ b <= m
        BY <3>1, <3>3
      <4>3. b = m \/ b < m
        BY <3>4, <4>2
      <4>. QED BY <4>1, <4>3 DEF Before
    <3>6. PendingOf(log, k, 1) \in SUBSET Pending(log)
      BY DEF PendingOf
    <3>7. Latest(PendingOf(log, k, 1)) = <<1, m>>
      BY <3>4, <3>5, <3>6, LatestIs, SMTT(30)
    <3>8. View(rows, log, 1)[k] = EditAt(log, <<1, m>>).value
      BY <3>4, <3>7, ViewOf, SMTT(30)
    <3>. QED BY <1>3, <2>4, <3>4, <3>8, Zenon DEF m
  <2>. QED BY <2>3, <2>4
<1>5. View(rows, log, 1) = [k \in Key |-> View(rows, log, 1)[k]]
    BY DEF View
<1>6. PutAll(rows, edits) = [k \in Key |-> IF Of(k) = {} THEN rows[k]
                                          ELSE edits[CHOOSE i \in Of(k) : \A j \in Of(k) : j <= i].value]
    BY Zenon DEF PutAll
<1> HIDE DEF Of
<1>. QED BY <1>4, <1>5, <1>6, Zenon

\* With no context open, or none written, the view is the store.
LEMMA BottomView ==
    ASSUME NEW rows \in [Key -> Value \cup {Absent}], NEW log \in Logs
    PROVE  View(rows, log, 0) = rows
<1>1. \A p \in Pending(log) : ~ (p[1] <= 0)
    BY Places
<1>2. \A k \in Key : PendingOf(log, k, 0) = {}
    BY <1>1 DEF PendingOf
<1>3. \A k \in Key : View(rows, log, 0)[k] = rows[k]
    BY <1>2, ViewOf
<1>4. View(rows, log, 0) = [k \in Key |-> View(rows, log, 0)[k]]
    BY SMTT(30) DEF View
<1>. QED BY <1>3, <1>4

\* RollbackWrapper::get reads the top view: the last entry of a history is the latest
\* pending edit of the key.
LEMMA ReadIsTopView ==
    ASSUME NEW log \in Logs, NEW map, IsLookupMap(map), Agrees(map, log), NEW rows, NEW k \in Key
    PROVE  View(rows, log, Len(log))[k] = IF k \in DOMAIN map THEN map[k][Len(map[k])] ELSE rows[k]
<1>0. PICK N \in Nat : N = Len(log)
    BY DEF Logs
<1>1. PICK pos : Follows(map, log, pos)
    BY DEF Agrees
<1>2. \A p \in Pending(log) : p[1] <= N
    BY <1>0, Places
<1>3. PendingOf(log, k, N) = {p \in Pending(log) : EditAt(log, p).key = k}
    BY <1>2 DEF PendingOf
<1>4. CASE k \in DOMAIN map
  <2>1. PICK n \in Nat \ {0} : n = Len(map[k])
    <3>1. map[k] \in Seq(Value) /\ map[k] # <<>>
      BY <1>4 DEF IsLookupMap
    <3>. QED BY <3>1
  <2>2. \A i \in 1 .. n : \E p \in Pending(log) : EditAt(log, p).key = k /\ pos[p] = i
    BY <1>1, <1>4, <2>1, Zenon DEF Follows
  <2>3. n \in 1 .. n
    OBVIOUS
  <2>4. PICK p \in Pending(log) : EditAt(log, p).key = k /\ pos[p] = n
    BY <2>2, <2>3, ZenonT(30)
  <2>5. EditAt(log, p).value = map[k][n]
    BY <1>1, <2>4 DEF Follows
  <2>6. ASSUME NEW q \in PendingOf(log, k, N), q # p PROVE Before(q, p)
    <3>1. q \in Pending(log) /\ EditAt(log, q).key = k
      BY <1>3, SMTT(30)
    <3>2. pos[q] \in 1 .. n
      BY <1>1, <2>1, <3>1 DEF Follows
    <3>3. ~ Before(p, q)
      <4> SUFFICES ASSUME Before(p, q) PROVE FALSE
        BY SMTT(30)
      <4>1. pos[p] < pos[q]
        BY <1>1, <2>4, <3>1 DEF Follows
      <4>. QED BY <2>4, <3>2, <4>1
    <3>. QED BY <2>6, <3>1, <3>3, TotalOrder
  <2>7. p \in PendingOf(log, k, N) /\ PendingOf(log, k, N) \in SUBSET Pending(log)
    BY <1>3, <2>4
  <2>8. Latest(PendingOf(log, k, N)) = p
    BY <2>6, <2>7, LatestIs, SMTT(30)
  <2>9. View(rows, log, N)[k] = EditAt(log, p).value
    BY <2>7, <2>8, ViewOf, SMTT(30)
  <2>. QED BY <1>0, <1>4, <2>1, <2>5, <2>9
<1>5. CASE k \notin DOMAIN map
  <2>1. PendingOf(log, k, N) = {}
    BY <1>1, <1>3, <1>5 DEF Follows
  <2>. QED BY <1>0, <1>5, <2>1, ViewOf, SMTT(30)
<1>. QED BY <1>4, <1>5

\* Views hold values.
LEMMA ViewType ==
    ASSUME NEW log \in Logs, NEW map, IsLookupMap(map), Agrees(map, log),
           NEW rows \in [Key -> Value \cup {Absent}], NEW n
    PROVE  View(rows, log, n) \in [Key -> Value \cup {Absent}]
<1>1. ASSUME NEW k \in Key PROVE View(rows, log, n)[k] \in Value \cup {Absent}
  <2>1. CASE PendingOf(log, k, n) = {}
    BY <2>1, ViewOf, SMTT(30)
  <2>2. CASE PendingOf(log, k, n) # {}
    <3>1. Latest(PendingOf(log, k, n)) \in PendingOf(log, k, n)
      BY <2>2, LatestExists
    <3>2. Latest(PendingOf(log, k, n)) \in Pending(log)
      BY <3>1 DEF PendingOf
    <3>3. EditAt(log, Latest(PendingOf(log, k, n))).value \in Value
      BY <3>2, Places
    <3>. QED BY <2>2, <3>3, ViewOf
  <2>. QED BY <2>1, <2>2, SMTT(30)
<1>2. View(rows, log, n) = [k \in Key |-> View(rows, log, n)[k]]
    BY SMTT(30) DEF View
<1>. QED BY <1>1, <1>2

----------------------------------------------------------------------------
\* Metadata is written once.

\* A log with some of the edits of another.
LEMMA FewerWrittenOnce ==
    ASSUME NEW log \in Logs, NEW new \in Logs, NEW rows, WrittenOnce(rows, log),
           \A p \in Pending(new) : p \in Pending(log) /\ EditAt(new, p) = EditAt(log, p)
    PROVE  WrittenOnce(rows, new)
    BY SMTT(30) DEF WrittenOnce

\* The guard of insert_metadata: there is no row and no pending edit of the key.
LEMMA WrittenWrittenOnce ==
    ASSUME NEW log \in Logs, Len(log) > 0, NEW rows, WrittenOnce(rows, log),
           NEW map, Agrees(map, log), NEW k \in Key, NEW v \in Value,
           k \notin DOMAIN map, rows[k] = Absent
    PROVE  WrittenOnce(rows, Written(log, [key |-> k, value |-> v]))
<1> DEFINE e == [key |-> k, value |-> v]
           new == Written(log, e)
           last == <<Len(log), Len(log[Len(log)]) + 1>>
<1>1. e \in Edit /\ e.key = k
    BY DEF Edit
<1> HIDE DEF e
<1>2. /\ new \in Logs /\ Pending(new) = Pending(log) \cup {last}
      /\ EditAt(new, last) = e
      /\ \A p \in Pending(log) : EditAt(new, p) = EditAt(log, p)
    BY <1>1, WrittenPlaces, ZenonT(60)
<1>3. \A p \in Pending(log) : EditAt(log, p).key # k
    BY DEF Agrees, Follows
<1> HIDE DEF new, last
<1>. QED BY <1>1, <1>2, <1>3, Zenon DEF WrittenOnce, new, e

\* A nested commit moves edits and adds none.
LEMMA MergedWrittenOnce ==
    ASSUME NEW log \in Logs, Len(log) > 1, NEW rows, WrittenOnce(rows, log)
    PROVE  WrittenOnce(rows, Merged(log))
<1> DEFINE new == Merged(log)
<1>1. PICK f \in [Pending(log) -> Pending(new)] :
         /\ \A q \in Pending(new) : \E p \in Pending(log) : f[p] = q
         /\ \A p \in Pending(log) : EditAt(new, f[p]) = EditAt(log, p)
    BY MergedPlaces
<1> HIDE DEF new
<1>2. ASSUME NEW q \in Pending(new)
      PROVE  /\ rows[EditAt(new, q).key] = Absent
             /\ \A r \in Pending(new) : EditAt(new, q).key = EditAt(new, r).key => q = r
  <2>1. PICK p \in Pending(log) : f[p] = q
    BY <1>1
  <2>2. EditAt(new, q) = EditAt(log, p)
    BY <1>1, <2>1
  <2>3. rows[EditAt(log, p).key] = Absent
    BY DEF WrittenOnce
  <2>4. ASSUME NEW r \in Pending(new), EditAt(new, q).key = EditAt(new, r).key PROVE q = r
    <3>1. PICK s \in Pending(log) : f[s] = r
      BY <1>1
    <3>2. EditAt(new, r) = EditAt(log, s)
      BY <1>1, <3>1, SMTT(30)
    <3>3. p = s
      BY <2>2, <2>4, <3>2, SMTT(30) DEF WrittenOnce
    <3>. QED BY <2>1, <3>1, <3>3
  <2>. QED BY <2>2, <2>3, <2>4
<1>. QED BY <1>2 DEF WrittenOnce, new

\* put_all_metadata meets no row of its keys, and no key twice.
LEMMA InsertSucceeds ==
    ASSUME NEW log \in Logs, Len(log) = 1, NEW rows, WrittenOnce(rows, log)
    PROVE  ~ InsertFails(rows, log[1])
<1> DEFINE edits == log[1]
<1>1. PICK L \in Nat : L = Len(edits)
  <2>1. edits \in Seq(Edit)
    BY DEF Logs
  <2>. QED BY <2>1
<1>2. \A i \in 1 .. L : <<1, i>> \in Pending(log) /\ EditAt(log, <<1, i>>) = edits[i]
  <2> SUFFICES ASSUME NEW i \in 1 .. L PROVE <<1, i>> \in Pending(log) /\ EditAt(log, <<1, i>>) = edits[i]
    BY Zenon
  <2>1. 1 \in 1 .. Len(log) /\ i \in 1 .. Len(log[1])
    BY <1>1
  <2>. QED BY <2>1, Places, Zenon DEF EditAt
<1> HIDE DEF edits
<1>3. ASSUME NEW i \in 1 .. L
      PROVE  rows[edits[i].key] = Absent /\ \A j \in 1 .. i - 1 : edits[j].key # edits[i].key
  <2>1. rows[edits[i].key] = Absent
    <3>1. \A p \in Pending(log) : rows[EditAt(log, p).key] = Absent
      BY Zenon DEF WrittenOnce
    <3>2. <<1, i>> \in Pending(log) /\ EditAt(log, <<1, i>>) = edits[i]
      BY <1>2
    <3>. QED BY <3>1, <3>2, Zenon
  <2>2. ASSUME NEW j \in 1 .. i - 1, edits[j].key = edits[i].key PROVE FALSE
    <3>1. j \in 1 .. L /\ j # i
      OBVIOUS
    <3>2. <<1, j>> = <<1, i>>
      BY <1>2, <2>2, <3>1, Zenon DEF WrittenOnce
    <3>. QED BY <3>1, <3>2
  <2>. QED BY <2>1, <2>2
<1>. QED BY <1>1, <1>3 DEF InsertFails, edits
----------------------------------------------------------------------------
\* The logs of the two tables, step by step.

Context == [Tables -> Seq(Edit)]
Contexts == Seq(Context)

\* What the open contexts wrote to a table, for a stack of the right type.
LEMMA LogIs ==
    ASSUME stack \in Contexts, NEW t \in Tables
    PROVE  /\ Log(t) \in Logs
           /\ Len(Log(t)) = Len(stack)
           /\ \A n \in 1 .. Len(stack) : Log(t)[n] = stack[n][t] /\ Log(t)[n] \in Seq(Edit)
<1>1. \A n \in 1 .. Len(stack) : stack[n] \in Context
    BY DEF Contexts
<1>2. \A n \in 1 .. Len(stack) : stack[n][t] \in Seq(Edit)
    BY <1>1 DEF Context
<1>3. Len(stack) \in Nat
    BY DEF Contexts
<1>. QED BY <1>2, <1>3 DEF Log, Logs

\* Opening a context appends an empty one to each log.
LEMMA OpenedLog ==
    ASSUME stack \in Contexts, stack' = Append(stack, EmptyContext), NEW t \in Tables
    PROVE  stack' \in Contexts /\ Len(stack') = Len(stack) + 1 /\ Log(t)' = Append(Log(t), <<>>)
<1>1. EmptyContext \in Context
    BY DEF EmptyContext, Context
<1>2. stack' \in Contexts
    BY <1>1 DEF Contexts
<1>3. PICK N \in Nat : N = Len(stack)
    BY DEF Contexts
<1>4. /\ Len(stack') = N + 1 /\ stack'[N + 1] = EmptyContext
      /\ \A n \in 1 .. N : stack'[n] = stack[n]
    BY <1>1, <1>3 DEF Contexts
<1>5. EmptyContext[t] = <<>>
    BY DEF EmptyContext
<1>6. Log(t)' = [n \in 1 .. N + 1 |-> stack'[n][t]]
    BY <1>4 DEF Log
<1>7. Log(t) \in Logs /\ Len(Log(t)) = N /\ \A n \in 1 .. N : Log(t)[n] = stack[n][t]
    BY <1>3, LogIs
<1>8. Append(Log(t), <<>>) = [n \in 1 .. N + 1 |-> IF n = N + 1 THEN <<>> ELSE Log(t)[n]]
  <2> DEFINE log == Log(t)
             none == <<>>
             Lists == Seq(Edit)
  <2>1. none \in Lists /\ log \in Seq(Lists) /\ N = Len(log)
    BY <1>7 DEF Logs
  <2> HIDE DEF log, none, Lists
  <2>2. Append(log, none) = [n \in 1 .. N + 1 |-> IF n = N + 1 THEN none ELSE log[n]]
    BY <2>1, OneMore
  <2>. QED BY <2>2 DEF log, none
<1>. QED BY <1>2, <1>3, <1>4, <1>5, <1>6, <1>7, <1>8

\* Dropping the innermost context drops the end of each log.
LEMMA DroppedLog ==
    ASSUME stack \in Contexts, Len(stack) > 0, stack' = SubSeq(stack, 1, Len(stack) - 1), NEW t \in Tables
    PROVE  /\ stack' \in Contexts /\ Len(stack') = Len(stack) - 1
           /\ Log(t)' = SubSeq(Log(t), 1, Len(Log(t)) - 1)
<1>1. PICK N \in Nat \ {0} : N = Len(stack)
    BY DEF Contexts
<1>2. stack' \in Contexts /\ Len(stack') = N - 1 /\ \A n \in 1 .. N - 1 : stack'[n] = stack[n]
  <2>1. N - 1 \in 0 .. Len(stack)
    BY <1>1
  <2>. QED BY <1>1, <2>1, Prefix DEF Contexts
<1>3. Log(t)' = [n \in 1 .. N - 1 |-> stack'[n][t]]
    BY <1>2 DEF Log
<1>4. Log(t) \in Logs /\ Len(Log(t)) = N /\ \A n \in 1 .. N : Log(t)[n] = stack[n][t]
    BY <1>1, LogIs
<1>5. SubSeq(Log(t), 1, N - 1) = [n \in 1 .. N - 1 |-> Log(t)[n]]
  <2> HIDE DEF Log
  <2>1. N - 1 \in 0 .. Len(Log(t))
    BY <1>4
  <2>. QED BY <1>4, <2>1, PrefixIs DEF Logs
<1>. QED BY <1>1, <1>2, <1>3, <1>4, <1>5

\* A write appends to the end of one log.
LEMMA WrittenLog ==
    ASSUME stack \in Contexts, Len(stack) > 0, NEW t \in Tables, NEW e \in Edit,
           stack' = [stack EXCEPT ![Len(stack)][t] = Append(@, e)]
    PROVE  /\ stack' \in Contexts /\ Len(stack') = Len(stack)
           /\ Log(t)' = Written(Log(t), e)
           /\ \A u \in Tables : u # t => Log(u)' = Log(u)
<1>1. PICK N \in Nat \ {0} : N = Len(stack)
    BY DEF Contexts
<1>2. \A n \in 1 .. N : stack[n] \in Context
    BY <1>1 DEF Contexts
<1>3. PICK c \in Context : c = [stack[N] EXCEPT ![t] = Append(stack[N][t], e)]
  <2>1. stack[N] \in Context
    BY <1>2
  <2>2. Append(stack[N][t], e) \in Seq(Edit)
    BY <2>1 DEF Context
  <2>3. [stack[N] EXCEPT ![t] = Append(stack[N][t], e)] \in Context
    BY <2>1, <2>2 DEF Context
  <2>. QED BY <2>3
<1>4. stack' = [stack EXCEPT ![N] = c]
    BY <1>1, <1>3
<1>5. /\ stack' \in Contexts /\ Len(stack') = N /\ stack'[N] = c
      /\ \A n \in 1 .. N : n # N => stack'[n] = stack[n]
  <2>1. N \in 1 .. Len(stack)
    BY <1>1
  <2>2. stack \in Seq(Context) /\ c \in Context
    BY <1>3 DEF Contexts
  <2> DEFINE new == [stack EXCEPT ![N] = c]
  <2>3. /\ new \in Seq(Context) /\ Len(new) = Len(stack) /\ new[N] = c
        /\ \A n \in 1 .. Len(stack) : n # N => new[n] = stack[n]
    BY <2>1, <2>2, Replaced
  <2>4. stack' = new
    BY <1>4, Zenon
  <2> HIDE DEF new
  <2>. QED BY <1>1, <2>3, <2>4, Zenon DEF Contexts
<1>6. /\ c[t] = Append(stack[N][t], e)
      /\ \A u \in Tables : u # t => c[u] = stack[N][u]
  <2>1. stack[N] \in Context
    <3>1. N \in 1 .. N
      OBVIOUS
    <3>. QED BY <1>2, <3>1, Zenon
  <2>. QED BY <1>3, <2>1 DEF Context
<1>7. \A u \in Tables : /\ Log(u) \in Logs /\ Len(Log(u)) = N
                        /\ \A n \in 1 .. N : Log(u)[n] = stack[n][u]
                        /\ Log(u) = [n \in 1 .. N |-> stack[n][u]]
                        /\ Log(u)' = [n \in 1 .. N |-> stack'[n][u]]
    BY <1>1, <1>5, LogIs DEF Log
<1>8. Written(Log(t), e) = [n \in 1 .. N |-> IF n = N THEN Append(Log(t)[N], e) ELSE Log(t)[n]]
  <2> HIDE DEF Log
  <2>1. Log(t) = [n \in 1 .. N |-> Log(t)[n]] /\ Len(Log(t)) = N
    BY <1>7
  <2>. QED BY <2>1, Zenon DEF Written
<1>9. Log(t)' = Written(Log(t), e)
  <2>1. \A n \in 1 .. N : stack'[n][t] = IF n = N THEN Append(Log(t)[N], e) ELSE Log(t)[n]
    <3> SUFFICES ASSUME NEW n \in 1 .. N
                 PROVE  stack'[n][t] = IF n = N THEN Append(Log(t)[N], e) ELSE Log(t)[n]
      OBVIOUS
    <3>1. Log(t)[n] = stack[n][t] /\ Log(t)[N] = stack[N][t]
      BY <1>7, SMTT(30)
    <3>2. CASE n = N
      BY <1>5, <1>6, <3>1, <3>2, Zenon
    <3>3. CASE n # N
      BY <1>5, <3>1, <3>3
    <3>. QED BY <3>2, <3>3
  <2>2. Log(t)' = [n \in 1 .. N |-> stack'[n][t]]
    BY <1>7
  <2>. QED BY <1>8, <2>1, <2>2
<1>10. ASSUME NEW u \in Tables, u # t PROVE Log(u)' = Log(u)
  <2>1. \A n \in 1 .. N : stack'[n][u] = stack[n][u]
    BY <1>5, <1>6, <1>10
  <2>2. Log(u) = [n \in 1 .. N |-> stack[n][u]] /\ Log(u)' = [n \in 1 .. N |-> stack'[n][u]]
    BY <1>7
  <2>. QED BY <2>1, <2>2, Zenon
<1>. QED BY <1>1, <1>5, <1>9, <1>10

\* A nested commit merges the two ends of each log.
LEMMA MergedLog ==
    ASSUME stack \in Contexts, Len(stack) > 1, NEW t \in Tables,
           stack' = Append(SubSeq(stack, 1, Len(stack) - 2), BubbleUp(stack[Len(stack) - 1], stack[Len(stack)]))
    PROVE  /\ stack' \in Contexts /\ Len(stack') = Len(stack) - 1
           /\ Log(t)' = Merged(Log(t))
<1>1. PICK N \in Nat : N = Len(stack) /\ N > 1
    BY DEF Contexts
<1> DEFINE base == SubSeq(stack, 1, N - 2)
           both == BubbleUp(stack[N - 1], stack[N])
<1>2. base \in Contexts /\ Len(base) = N - 2 /\ \A n \in 1 .. N - 2 : base[n] = stack[n]
  <2>1. N - 2 \in 0 .. Len(stack)
    BY <1>1
  <2>. QED BY <2>1, Prefix DEF Contexts
<1>3. both \in Context /\ \A u \in Tables : both[u] = stack[N - 1][u] \o stack[N][u]
  <2>1. stack[N - 1] \in Context /\ stack[N] \in Context
    BY <1>1 DEF Contexts
  <2>2. \A u \in Tables : stack[N - 1][u] \o stack[N][u] \in Seq(Edit)
    BY <2>1 DEF Context
  <2>. QED BY <2>2, Zenon DEF BubbleUp, Context
<1>4. stack' = Append(base, both)
    BY <1>1
<1> HIDE DEF base, both
<1>5. /\ stack' \in Contexts /\ Len(stack') = N - 1 /\ stack'[N - 1] = both
      /\ \A n \in 1 .. N - 2 : stack'[n] = base[n]
  <2>1. N - 2 \in Nat /\ N - 2 + 1 = N - 1
    BY <1>1
  <2>. QED BY <1>2, <1>3, <1>4, <2>1, OneMore DEF Contexts
<1>6. Log(t)' = [n \in 1 .. N - 1 |-> stack'[n][t]]
    BY <1>5 DEF Log
<1>7. Log(t) \in Logs /\ Len(Log(t)) = N /\ \A n \in 1 .. N : Log(t)[n] = stack[n][t] /\ Log(t)[n] \in Seq(Edit)
    BY <1>1, LogIs
<1> DEFINE low == SubSeq(Log(t), 1, N - 2)
           top == Log(t)[N - 1] \o Log(t)[N]
<1> HIDE DEF Log
<1>8. low \in Logs /\ Len(low) = N - 2 /\ \A n \in 1 .. N - 2 : low[n] = Log(t)[n]
    BY <1>1, <1>7, Prefix DEF Logs
<1>9. top = both[t]
  <2>1. N - 1 \in 1 .. N /\ N \in 1 .. N
    BY <1>1
  <2>2. Log(t)[N - 1] = stack[N - 1][t] /\ Log(t)[N] = stack[N][t]
    BY <1>7, <2>1, SMTT(30)
  <2>. QED BY <1>3, <2>2, Zenon
<1>t. top \in Seq(Edit)
  <2>1. both[t] \in Seq(Edit)
    BY <1>3 DEF Context
  <2>. QED BY <1>9, <2>1
<1>10. Merged(Log(t)) = Append(low, top)
    BY <1>7 DEF Merged
<1> HIDE DEF low, top
<1>11. Append(low, top) = [n \in 1 .. N - 1 |-> IF n = N - 1 THEN top ELSE low[n]]
  <2>1. N - 2 \in Nat /\ N - 2 + 1 = N - 1
    BY <1>1
  <2>. QED BY <1>8, <1>t, <2>1, OneMore DEF Logs
<1>12. \A n \in 1 .. N - 1 : stack'[n][t] = IF n = N - 1 THEN top ELSE low[n]
  <2> SUFFICES ASSUME NEW n \in 1 .. N - 1 PROVE stack'[n][t] = IF n = N - 1 THEN top ELSE low[n]
    BY Zenon
  <2>1. CASE n = N - 1
    BY <1>5, <1>9, <2>1
  <2>2. CASE n # N - 1
    <3>1. n \in 1 .. N - 2 /\ n \in 1 .. N
      BY <1>1, <2>2
    <3>2. stack'[n] = stack[n] /\ low[n] = stack[n][t]
      BY <1>2, <1>5, <1>7, <1>8, <3>1, Zenon
    <3>. QED BY <2>2, <3>2, Zenon
  <2>. QED BY <2>1, <2>2, Zenon
<1>. QED BY <1>1, <1>5, <1>6, <1>10, <1>11, <1>12, Zenon
=============================================================================
