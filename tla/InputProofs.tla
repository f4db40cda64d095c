------------------------------ MODULE InputProofs ------------------------------
(***************************************************************************)
(* Proofs about the input of a hosted editor: the key table that it        *)
(* composes with its host (BindingComposition), for any finite table of    *)
(* the editor and any contributions and winners of a host, and the keys    *)
(* that the two resolve (KeyInput), for any table of host keys and any     *)
(* bound of a count.                                                       *)
(***************************************************************************)
EXTENDS HostInput, FiniteSetTheorems, SequenceTheorems, WellFoundedInduction, TLAPS

-----------------------------------------------------------------------------
(* Sequences of keys: the order of a table and its prefixes. *)

LEMMA StartsFacts ==
  ASSUME NEW s \in Seq(Nat), NEW t \in Seq(Nat), IsStartOf(s, t)
  PROVE  /\ Len(s) \in Nat /\ Len(t) \in Nat /\ Len(s) <= Len(t)
         /\ \A n \in 1 .. Len(s) : s[n] = t[n]
         /\ Len(s) = Len(t) => s = t
<1>1. /\ Len(s) \in Nat /\ Len(t) \in Nat /\ Len(s) <= Len(t)
      /\ \A n \in 1 .. Len(s) : s[n] = t[n]
  BY DEF IsStartOf
<1>2. ASSUME Len(s) = Len(t) PROVE s = t
  <2>1. s \in [1 .. Len(s) -> Nat] /\ t \in [1 .. Len(s) -> Nat]
    BY <1>2
  <2> QED
    BY <2>1, <1>1
<1> QED
  BY <1>1, <1>2

LEMMA StartsItself ==
  ASSUME NEW s \in Seq(Nat)
  PROVE  IsStartOf(s, s)
BY DEF IsStartOf

\* A sequence is not before itself.
LEMMA BeforeIrreflexive ==
  ASSUME NEW s \in Seq(Nat)
  PROVE  ~Before(s, s)
BY DEF Before, IsProperStart

\* Where two sequences that stand in order differ for the first time.
Parts(s, t, n) ==
  n \in 1 .. Len(s) /\ n <= Len(t) /\ s[n] < t[n] /\ \A m \in 1 .. (n - 1) : s[m] = t[m]

LEMMA BeforeCases ==
  ASSUME NEW s, NEW t
  PROVE  Before(s, t) <=> IsProperStart(s, t) \/ \E n : Parts(s, t, n)
BY DEF Before, Parts

LEMMA BeforeTransitive ==
  ASSUME NEW s \in Seq(Nat), NEW t \in Seq(Nat), NEW u \in Seq(Nat), Before(s, t), Before(t, u)
  PROVE  Before(s, u)
<1>l. Len(s) \in Nat /\ Len(t) \in Nat /\ Len(u) \in Nat
  OBVIOUS
<1>v. /\ \A n \in 1 .. Len(s) : s[n] \in Nat
      /\ \A n \in 1 .. Len(t) : t[n] \in Nat
      /\ \A n \in 1 .. Len(u) : u[n] \in Nat
  OBVIOUS
<1>1. CASE IsProperStart(s, t) /\ IsProperStart(t, u)
  <2>1. IsStartOf(s, u) /\ Len(s) < Len(u)
    BY <1>1, <1>l, StartsFacts DEF IsProperStart, IsStartOf
  <2> QED
    BY <2>1, <1>l DEF Before, IsProperStart
<1>2. ASSUME IsProperStart(s, t), NEW n, Parts(t, u, n) PROVE Before(s, u)
  <2>1. CASE n <= Len(s)
    <3>1. Parts(s, u, n)
      BY <1>2, <2>1, <1>l, StartsFacts DEF IsProperStart, Parts
    <3> QED
      BY <3>1, BeforeCases
  <2>2. CASE n > Len(s)
    <3>1. \A m \in 1 .. Len(s) : s[m] = u[m]
      BY <1>2, <2>2, <1>l, StartsFacts DEF IsProperStart, Parts
    <3>2. Len(s) < Len(u)
      BY <1>2, <2>2, <1>l DEF Parts
    <3> QED
      BY <3>1, <3>2, <1>l DEF Before, IsProperStart, IsStartOf
  <2> QED
    BY <1>2, <2>1, <2>2, <1>l DEF Parts
<1>3. ASSUME NEW n, Parts(s, t, n), IsProperStart(t, u) PROVE Before(s, u)
  <2>1. Parts(s, u, n)
    BY <1>3, <1>l, StartsFacts DEF IsProperStart, Parts
  <2> QED
    BY <2>1, BeforeCases
<1>4. ASSUME NEW n, Parts(s, t, n), NEW k, Parts(t, u, k) PROVE Before(s, u)
  <2>0. /\ n \in Nat /\ n >= 1 /\ n <= Len(s) /\ n <= Len(t) /\ s[n] < t[n]
        /\ \A m \in 1 .. (n - 1) : s[m] = t[m]
        /\ k \in Nat /\ k >= 1 /\ k <= Len(t) /\ k <= Len(u) /\ t[k] < u[k]
        /\ \A m \in 1 .. (k - 1) : t[m] = u[m]
    BY <1>4, <1>l DEF Parts
  <2>1. CASE n < k
    <3>2. t[n] = u[n] /\ \A m \in 1 .. (n - 1) : s[m] = u[m]
      BY <2>0, <2>1
    <3>1. Parts(s, u, n)
      BY <2>0, <2>1, <3>2, <1>l DEF Parts
    <3> QED
      BY <3>1, BeforeCases
  <2>2. CASE k < n
    <3>2. s[k] = t[k] /\ \A m \in 1 .. (k - 1) : s[m] = u[m]
      BY <2>0, <2>2
    <3>1. Parts(s, u, k)
      BY <2>0, <2>2, <3>2, <1>l DEF Parts
    <3> QED
      BY <3>1, BeforeCases
  <2>3. CASE n = k
    <3>1. s[n] \in Nat /\ t[n] \in Nat /\ u[n] \in Nat
      BY <2>0, <2>3, <1>v, <1>l
    <3>2. s[n] < t[n] /\ t[n] < u[n]
      BY <2>0, <2>3
    <3>3. s[n] < u[n]
      BY <3>1, <3>2
    <3>4. \A m \in 1 .. (n - 1) : s[m] = u[m]
      BY <2>0, <2>3
    <3>5. Parts(s, u, n)
      BY <2>0, <2>3, <3>3, <3>4, <1>l DEF Parts
    <3> QED
      BY <3>5, BeforeCases
  <2> QED
    BY <2>0, <2>1, <2>2, <2>3
<1> QED
  BY <1>1, <1>2, <1>3, <1>4, BeforeCases

\* What stands between a sequence and one that it starts, it starts too.
LEMMA BetweenStarts ==
  ASSUME NEW s \in Seq(Nat), NEW t \in Seq(Nat), NEW u \in Seq(Nat),
         IsStartOf(s, t), Before(s, u), Before(u, t)
  PROVE  IsStartOf(s, u)
<1>l. Len(s) \in Nat /\ Len(t) \in Nat /\ Len(u) \in Nat
  OBVIOUS
<1>v. /\ \A n \in 1 .. Len(s) : s[n] \in Nat
      /\ \A n \in 1 .. Len(t) : t[n] \in Nat
      /\ \A n \in 1 .. Len(u) : u[n] \in Nat
  OBVIOUS
<1>1. CASE IsProperStart(s, u)
  BY <1>1 DEF IsProperStart
<1>2. ASSUME NEW n, Parts(s, u, n) PROVE FALSE
  <2>a. n \in Nat /\ n >= 1 /\ n <= Len(s) /\ n <= Len(u) /\ s[n] < u[n]
    BY <1>2, <1>l DEF Parts
  <2>b. \A m \in 1 .. (n - 1) : s[m] = u[m]
    BY <1>2, Zenon DEF Parts
  <2>c. Len(s) <= Len(t) /\ \A m \in 1 .. Len(s) : s[m] = t[m]
    BY StartsFacts
  <2>d. n <= Len(t) /\ s[n] = t[n] /\ \A m \in 1 .. (n - 1) : s[m] = t[m]
    <3>1. n <= Len(t) /\ n \in 1 .. Len(s)
      BY <2>a, <2>c, <1>l
    <3>2. \A m \in 1 .. (n - 1) : m \in 1 .. Len(s)
      BY <2>a, <1>l
    <3> QED
      BY <2>c, <3>1, <3>2, Zenon
  <2>e. s[n] = t[n] /\ s[n] < u[n] /\ s[n] \in Nat /\ t[n] \in Nat /\ u[n] \in Nat
    BY <2>a, <2>d, <1>l, <1>v
  <2>1. /\ n \in Nat /\ n >= 1 /\ n <= Len(s) /\ n <= Len(u) /\ n <= Len(t)
        /\ s[n] = t[n] /\ s[n] < u[n] /\ \A m \in 1 .. (n - 1) : s[m] = u[m] /\ s[m] = t[m]
    BY <2>a, <2>b, <2>d
  <2>2. CASE IsProperStart(u, t)
    <3>1. u[n] = t[n]
      BY <2>1, <2>2, <1>l, StartsFacts DEF IsProperStart
    <3> QED
      BY <3>1, <2>1, <1>l, <1>v
  <2>3. ASSUME NEW k, Parts(u, t, k) PROVE FALSE
    <3>1. /\ k \in Nat /\ k >= 1 /\ k <= Len(u) /\ k <= Len(t) /\ u[k] < t[k]
          /\ \A m \in 1 .. (k - 1) : u[m] = t[m]
      BY <2>3, <1>l DEF Parts
    <3>2. CASE k < n
      <4>1. k \in 1 .. (n - 1) /\ u[k] \in Nat
        BY <3>1, <3>2, <2>1, <1>l, <1>v
      <4>2. s[k] = u[k] /\ s[k] = t[k]
        BY <4>1, <2>1
      <4> QED
        BY <3>1, <4>1, <4>2
    <3>3. CASE k = n
      <4>1. u[n] < t[n]
        BY <3>1, <3>3
      <4> QED
        BY <4>1, <2>e
    <3>4. CASE k > n
      <4>1. u[n] = t[n]
        BY <3>1, <3>4, <2>a
      <4> QED
        BY <4>1, <2>e
    <3> QED
      BY <3>1, <3>2, <3>3, <3>4, <2>1
  <2> QED
    BY <2>2, <2>3, BeforeCases
<1> QED
  BY <1>1, <1>2, BeforeCases

-----------------------------------------------------------------------------
(* A table whose neighbours start no other starts no other at all. *)

Between(table, s, t) == {u \in table : Before(s, u) /\ Before(u, t)}

LEMMA PrefixPairHasNeighbours ==
  ASSUME NEW table, IsFiniteSet(table), table \subseteq Seq(Nat),
         NEW s \in table, NEW t \in table, IsProperStart(s, t)
  PROVE  HasPrefixPair(table)
<1> DEFINE Pairs == {p \in table \X table : IsProperStart(p[1], p[2])}
           Gaps == {Between(table, p[1], p[2]) : p \in Pairs}
<1>1. Gaps \subseteq FiniteSubsetsOf(table)
  <2>1. \A p \in Pairs : Between(table, p[1], p[2]) \subseteq table
    BY DEF Between
  <2>2. \A p \in Pairs : IsFiniteSet(Between(table, p[1], p[2]))
    BY <2>1, FS_Subset
  <2> QED
    BY <2>1, <2>2 DEF FiniteSubsetsOf
<1>2. Gaps # {}
  <2>1. <<s, t>> \in Pairs
    OBVIOUS
  <2> QED
    BY <2>1
<1>3. PICK gap \in Gaps : \A other \in Gaps : ~(<<other, gap>> \in StrictSubsetOrdering(table))
  <2> HIDE DEF Gaps
  <2> QED
    BY <1>1, <1>2, FS_StrictSubsetOrderingWellFounded, WFMin
<1>4. PICK p \in Pairs : gap = Between(table, p[1], p[2])
  OBVIOUS
<1>5. PICK a \in table, b \in table : p = <<a, b>> /\ IsProperStart(a, b)
  BY <1>4
<1>6. gap = Between(table, a, b)
  BY <1>4, <1>5
<1>7. a \in Seq(Nat) /\ b \in Seq(Nat) /\ IsStartOf(a, b) /\ Before(a, b)
  BY <1>5 DEF IsProperStart, Before
<1>8. ASSUME NEW u \in table, Before(a, u), Before(u, b) PROVE FALSE
  <2>1. u \in Seq(Nat)
    OBVIOUS
  <2>2. IsStartOf(a, u) /\ a # u
    BY <1>7, <1>8, <2>1, BetweenStarts, BeforeIrreflexive
  <2>3. <<a, u>> \in Pairs
    BY <2>2, <1>5, <1>8 DEF IsProperStart
  <2>4. Between(table, a, u) \in Gaps
    <3>1. <<a, u>>[1] = a /\ <<a, u>>[2] = u
      OBVIOUS
    <3> HIDE DEF Pairs
    <3> QED
      BY <2>3, <3>1, Zenon
  <2>5. Between(table, a, u) \subseteq gap
    <3>1. ASSUME NEW v \in table, Before(a, v), Before(v, u) PROVE Before(v, b)
      BY <3>1, <1>8, <1>7, <2>1, BeforeTransitive
    <3> QED
      BY <3>1, <1>6 DEF Between
  <2>6. u \in gap /\ u \notin Between(table, a, u)
    BY <1>6, <1>8, <2>1, BeforeIrreflexive DEF Between
  <2>7. Between(table, a, u) \in SUBSET table /\ gap \in SUBSET table
    BY <1>6 DEF Between
  <2>8. <<Between(table, a, u), gap>> \in StrictSubsetOrdering(table)
    BY <2>5, <2>6, <2>7 DEF StrictSubsetOrdering
  <2> HIDE DEF Gaps
  <2> QED
    BY <1>3, <2>4, <2>8
<1> QED
  BY <1>5, <1>7, <1>8 DEF HasPrefixPair

LEMMA NeighboursDecide ==
  ASSUME NEW table, IsFiniteSet(table), table \subseteq Seq(Nat)
  PROVE  HasPrefixPair(table) <=> \E s, t \in table : IsProperStart(s, t)
<1>1. ASSUME HasPrefixPair(table) PROVE \E s, t \in table : IsProperStart(s, t)
  <2>1. PICK s \in table, t \in table : Before(s, t) /\ IsStartOf(s, t)
    BY <1>1 DEF HasPrefixPair
  <2>2. s # t
    BY <2>1, BeforeIrreflexive
  <2> QED
    BY <2>1, <2>2 DEF IsProperStart
<1> QED
  BY <1>1, PrefixPairHasNeighbours

-----------------------------------------------------------------------------
(* BindingComposition. *)

\* The table is composed once, from everything that was contributed and chosen.
ComposedOnce == composed = NotComposed \/ composed = Composed

\* A host contributes finitely many sequences that fit the resolver.
Contributed ==
  /\ IsFiniteSet(host)
  /\ \A c \in host : c.keys \in HostKeys

CompositionInductive == ComposedOnce /\ Contributed

LEMMA HostKeysFit ==
  ASSUME CompositionAssumption, NEW keys \in HostKeys
  PROVE  keys \in Seq(Nat) /\ Len(keys) \in 1 .. SequenceMax
<1>1. PICK n \in 1 .. SequenceMax : keys \in [1 .. n -> BindingKeys]
  BY DEF HostKeys
<1>2. n \in Nat
  BY <1>1 DEF CompositionAssumption
<1>a. keys \in [1 .. n -> Nat]
  BY <1>1 DEF CompositionAssumption
<1>3. keys \in Seq(Nat) /\ Len(keys) = n
  BY <1>2, <1>a
<1> QED
  BY <1>1, <1>3

\* The bindings that one contribution projects.
ProjectedOf(c) == {Binding(scope, c.keys, "host", c.command, c.copy) : scope \in ProjectedScopes(c.layer)}

LEMMA ProjectedIsFinite ==
  ASSUME CompositionAssumption, Contributed
  PROVE  /\ IsFiniteSet(Projected)
         /\ \A b \in Projected : b.keys \in Seq(Nat) /\ Len(b.keys) \in 1 .. SequenceMax
<1>1. \A c : IsFiniteSet(ProjectedScopes(c.layer))
  <2>1. IsFiniteSet(EditorHostScopes)
    <3>1. IsFiniteSet({"normal"}) /\ IsFiniteSet({"visual"})
      BY FS_Singleton
    <3>2. {"normal", "visual"} = {"normal"} \cup {"visual"}
      OBVIOUS
    <3> QED
      BY <3>1, <3>2, FS_Union DEF EditorHostScopes
  <2>2. \A layer : IsFiniteSet({layer})
    BY FS_Singleton
  <2> QED
    BY <2>1, <2>2 DEF ProjectedScopes
<1>2. ASSUME NEW c PROVE IsFiniteSet(ProjectedOf(c))
  <2> DEFINE scopes == ProjectedScopes(c.layer)
             at == [scope \in scopes |-> Binding(scope, c.keys, "host", c.command, c.copy)]
  <2>1. IsFiniteSet(scopes)
    BY <1>1
  <2>2. at \in [scopes -> ProjectedOf(c)]
    BY DEF ProjectedOf
  <2>3. \A b \in ProjectedOf(c) : \E scope \in scopes : at[scope] = b
    BY DEF ProjectedOf
  <2>4. at \in Surjection(scopes, ProjectedOf(c))
    <3> HIDE DEF at, scopes
    <3> QED
      BY <2>2, <2>3 DEF Surjection
  <2> HIDE DEF at, scopes
  <2> QED
    BY <2>1, <2>4, FS_Surjection
<1>3. IsFiniteSet({ProjectedOf(c) : c \in host})
  <2> DEFINE parts == {ProjectedOf(c) : c \in host}
             of == [c \in host |-> ProjectedOf(c)]
  <2>1. of \in [host -> parts] /\ \A part \in parts : \E c \in host : of[c] = part
    OBVIOUS
  <2>2. of \in Surjection(host, parts)
    <3> HIDE DEF of, parts
    <3> QED
      BY <2>1 DEF Surjection
  <2>3. IsFiniteSet(host)
    BY DEF Contributed
  <2>4. IsFiniteSet(parts)
    <3> HIDE DEF of, parts
    <3> QED
      BY <2>2, <2>3, FS_Surjection
  <2> QED
    BY <2>4
<1>4. Projected = Manifest \cup UNION {ProjectedOf(c) : c \in host}
  BY DEF Projected, ProjectedOf
<1>5. IsFiniteSet(UNION {ProjectedOf(c) : c \in host})
  <2> DEFINE parts == {ProjectedOf(c) : c \in host}
  <2>1. \A part \in parts : IsFiniteSet(part)
    BY <1>2
  <2>2. IsFiniteSet(parts)
    BY <1>3
  <2> HIDE DEF parts
  <2>3. IsFiniteSet(UNION parts)
    BY <2>1, <2>2, FS_UNION
  <2> QED
    BY <2>3 DEF parts
<1>6. IsFiniteSet(Projected)
  BY <1>4, <1>5, FS_Union DEF CompositionAssumption
<1>7. ASSUME NEW b \in Projected PROVE b.keys \in Seq(Nat) /\ Len(b.keys) \in 1 .. SequenceMax
  <2>1. CASE b \in Manifest
    BY <2>1 DEF CompositionAssumption
  <2>2. CASE b \notin Manifest
    <3>1. PICK c \in host : b \in ProjectedOf(c)
      BY <2>2, <1>4
    <3>2. b.keys = c.keys
      BY <3>1 DEF ProjectedOf, Binding
    <3> QED
      BY <3>1, <3>2, HostKeysFit DEF Contributed
  <2> QED
    BY <2>1, <2>2
<1> QED
  BY <1>6, <1>7

LEMMA TableIsFinite ==
  ASSUME NEW bindings, IsFiniteSet(bindings), \A b \in bindings : b.keys \in Seq(Nat), NEW scope
  PROVE  IsFiniteSet(Table(bindings, scope)) /\ Table(bindings, scope) \subseteq Seq(Nat)
<1> DEFINE here == {c \in bindings : c.scope = scope}
           table == Table(bindings, scope)
           keys == [b \in here |-> b.keys]
<1>1. IsFiniteSet(here)
  BY FS_Subset
<1>2. table = {b.keys : b \in here}
  BY DEF Table
<1>3. keys \in [here -> table] /\ \A k \in table : \E b \in here : keys[b] = k
  BY <1>2
<1>4. keys \in Surjection(here, table)
  <2> HIDE DEF keys, here, table
  <2> QED
    BY <1>3 DEF Surjection
<1>5. IsFiniteSet(table)
  <2> HIDE DEF keys, here, table
  <2> QED
    BY <1>1, <1>4, FS_Surjection
<1>6. table \subseteq Seq(Nat)
  BY <1>2
<1> QED
  BY <1>5, <1>6

\* A model that is accepted is what the winners leave of the projection, and
\* none of the refusals before it applied.
LEMMA AcceptedMeans ==
  ASSUME composed = Composed, composed.refused = "no"
  PROVE  /\ composed.table = Projected \ Losers
         /\ Winners \cap Losers = {}
         /\ Uncovered = {}
         /\ RegistryAccepts(Projected \ Losers)
BY DEF Composed, Rejected, Accepted

LEMMA ConflictsFacts ==
  ASSUME NEW a, NEW b
  PROVE  Conflicts(a, b) <=> Conflicts(b, a)
BY DEF Conflicts

\* What the winners leave conflicts with nothing that they leave.
LEMMA NothingLeftConflicts ==
  ASSUME Uncovered = {}, NEW a \in Projected \ Losers, NEW b \in Projected \ Losers
  PROVE  ~Conflicts(a, b)
<1>1. SUFFICES ASSUME Conflicts(a, b) PROVE FALSE
  OBVIOUS
<1>2. <<a, b>> \in Projected \X Projected /\ <<a, b>>[1] = a /\ <<a, b>>[2] = b
  OBVIOUS
<1>3. <<a, b>> \in Uncovered
  BY <1>1, <1>2 DEF Uncovered
<1> QED
  BY <1>3

LEMMA CompositionInit_Inductive == CompositionInit => CompositionInductive
<1>1. IsFiniteSet({})
  BY FS_EmptySet
<1> QED
  BY <1>1 DEF CompositionInit, CompositionInductive, ComposedOnce, Contributed

LEMMA CompositionStep ==
  ASSUME CompositionInductive, [CompositionNext]_compositionVars
  PROVE  CompositionInductive'
<1>u. CASE UNCHANGED compositionVars
  <2>1. host' = host /\ overrides' = overrides /\ composed' = composed
    BY <1>u DEF compositionVars
  <2>2. Composed' = Composed
    BY <2>1 DEF Composed, Projected, Losers, Winners, Targets, Uncovered
  <2> QED
    BY <2>1, <2>2 DEF CompositionInductive, ComposedOnce, Contributed
<1>1. ASSUME NEW layer \in Layers, NEW keys \in HostKeys, NEW command \in HostCommands, NEW copy \in {1, 2},
             Contribute(layer, keys, command, copy)
      PROVE  CompositionInductive'
  <2> DEFINE made == [layer |-> layer, keys |-> keys, command |-> command, copy |-> copy]
  <2>1. composed' = NotComposed /\ host' = host \cup {made}
    BY <1>1 DEF Contribute
  <2>2. IsFiniteSet(host')
    BY <2>1, FS_AddElement DEF CompositionInductive, Contributed
  <2>3. \A c \in host' : c.keys \in HostKeys
    BY <2>1 DEF CompositionInductive, Contributed
  <2> QED
    BY <2>1, <2>2, <2>3 DEF CompositionInductive, ComposedOnce, Contributed
<1>2. ASSUME NEW b, Choose(b) PROVE CompositionInductive'
  BY <1>2 DEF Choose, CompositionInductive, ComposedOnce, Contributed
<1>3. CASE Compose
  <2>1. host' = host /\ overrides' = overrides /\ composed' = Composed
    BY <1>3 DEF Compose
  <2>2. Composed' = Composed
    BY <2>1 DEF Composed, Projected, Losers, Winners, Targets, Uncovered
  <2> QED
    BY <2>1, <2>2 DEF CompositionInductive, ComposedOnce, Contributed
<1> QED
  BY <1>u, <1>1, <1>2, <1>3 DEF CompositionNext

\* The table that a host reads was composed once, of all that it contributed
\* and chose (compose_with_overrides).
THEOREM CompositionInvariance == CompositionSpec => []CompositionInductive
<1>1. CompositionInductive /\ [CompositionNext]_compositionVars => CompositionInductive'
  BY CompositionStep
<1> QED
  BY CompositionInit_Inductive, <1>1, PTL DEF CompositionSpec

LEMMA AcceptedIsUnambiguous ==
  ASSUME ComposedOnce, composed.refused = "no"
  PROVE  /\ composed = Composed
         /\ \A a, b \in composed.table : ~Conflicts(a, b)
<1>a. NotComposed.refused = "not yet"
  BY DEF NotComposed, Rejected
<1>1. composed = Composed
  BY <1>a DEF ComposedOnce
<1> QED
  BY <1>1, AcceptedMeans, NothingLeftConflicts

LEMMA RegistryNeverRefuses ==
  ASSUME CompositionAssumption, Contributed, Uncovered = {}
  PROVE  RegistryAccepts(Projected \ Losers)
<1> DEFINE left == Projected \ Losers
<1>1. \A b \in left : b.keys \in Seq(Nat) /\ Len(b.keys) \in 1 .. SequenceMax
  BY ProjectedIsFinite
<1>2. ASSUME NEW a \in left, NEW b \in left, a.scope = b.scope, IsStartOf(a.keys, b.keys) PROVE a = b
  BY <1>2, NothingLeftConflicts DEF Conflicts
<1>3. ASSUME NEW a \in left, NEW b \in left, a.scope = b.scope, a.keys = b.keys PROVE a = b
  BY <1>1, <1>2, <1>3, StartsItself
<1>4. ASSUME NEW scope, HasPrefixPair(Table(left, scope)) PROVE FALSE
  <2>1. PICK s \in Table(left, scope), t \in Table(left, scope) : Before(s, t) /\ IsStartOf(s, t)
    BY <1>4 DEF HasPrefixPair
  <2>2. PICK a \in left : a.scope = scope /\ a.keys = s
    BY <2>1 DEF Table
  <2>3. PICK b \in left : b.scope = scope /\ b.keys = t
    BY <2>1 DEF Table
  <2>4. s = t
    BY <1>2, <2>1, <2>2, <2>3
  <2> QED
    BY <1>1, <2>1, <2>2, <2>4, BeforeIrreflexive
<1> QED
  BY <1>1, <1>3, <1>4 DEF RegistryAccepts

LEMMA NothingSurprises ==
  ASSUME CompositionAssumption, CompositionInductive
  PROVE  NoSurprise
<1>1. CASE composed = NotComposed
  BY <1>1 DEF NoSurprise, NotComposed, Rejected
<1>2. CASE composed = Composed
  <2>1. (\A v, w \in Winners : ~Conflicts(v, w)) => Winners \cap Losers = {}
    BY DEF Losers
  <2>2. Uncovered = {} => RegistryAccepts(Projected \ Losers)
    BY RegistryNeverRefuses DEF CompositionInductive
  <2> QED
    BY <1>2, <2>1, <2>2 DEF Composed, Rejected, Accepted, NoSurprise
<1> QED
  BY <1>1, <1>2 DEF CompositionInductive, ComposedOnce

LEMMA OnlyLosersAreGone ==
  ASSUME ComposedOnce
  PROVE  OnlyLosersGo
<1> SUFFICES ASSUME composed.refused = "no"
             PROVE  /\ composed.table \subseteq Projected /\ Winners \subseteq composed.table
                    /\ \A b \in Projected \ composed.table : \E w \in composed.table :
                         Conflicts(w, b) /\ \E o \in overrides : w \in Targets(o)
  BY DEF OnlyLosersGo
<1>1. composed.table = Projected \ Losers /\ Winners \cap Losers = {}
  BY AcceptedIsUnambiguous, AcceptedMeans
<1>2. Winners \subseteq Projected
  BY DEF Winners, Targets
<1>3. Winners \subseteq composed.table
  BY <1>1, <1>2
<1>4. ASSUME NEW b \in Projected \ composed.table
      PROVE  \E w \in composed.table : Conflicts(w, b) /\ \E o \in overrides : w \in Targets(o)
  <2>1. PICK w \in Winners : Conflicts(w, b)
    BY <1>1 DEF Losers
  <2>2. \E o \in overrides : w \in Targets(o)
    BY <2>1 DEF Winners
  <2> QED
    BY <1>3, <2>1, <2>2
<1> QED
  BY <1>1, <1>3, <1>4

LEMMA EscapesAreOfTheHost ==
  ASSUME CompositionAssumption, CompositionInductive
  PROVE  EscapeIsHost
<1> SUFFICES ASSUME NEW key \in BindingKeys, EscapeVerdict(key) = "Usable",
                    NEW b \in composed.table, b.scope = "global", IsStartOf(<<key>>, b.keys)
             PROVE  b.keys = <<key>> /\ b.owner = "host"
  BY DEF EscapeIsHost
<1> DEFINE table == {c \in composed.table : c.scope = "global"}
           bound == {c \in table : c.keys = <<key>>}
<1>1. bound # {} /\ ~(\E c \in table : IsProperStart(<<key>>, c.keys)) /\ \E c \in bound : c.owner = "host"
  BY DEF EscapeVerdict
<1>2. b.keys = <<key>>
  BY <1>1 DEF IsProperStart
<1>3. PICK c \in bound : c.owner = "host"
  BY <1>1
<1>4. composed.refused = "no"
  <2>a. NotComposed.table = {}
    BY DEF NotComposed, Rejected
  <2>1. composed = NotComposed => composed.table = {}
    BY <2>a
  <2>2. composed = Composed /\ composed.refused # "no" => composed.table = {}
    BY DEF Composed, Rejected, Accepted
  <2> QED
    BY <2>1, <2>2 DEF CompositionInductive, ComposedOnce
<1>5. ~Conflicts(b, c)
  BY <1>3, <1>4, AcceptedIsUnambiguous DEF CompositionInductive
<1>6. IsStartOf(<<key>>, <<key>>)
  <2>1. key \in Nat
    BY DEF CompositionAssumption
  <2>2. <<key>> \in Seq(Nat)
    BY <2>1
  <2> QED
    BY <2>2, StartsItself
<1>7. b = c
  BY <1>2, <1>3, <1>5, <1>6 DEF Conflicts
<1> QED
  BY <1>2, <1>3, <1>7

\* An accepted model means one thing for each sequence, loses only to winners
\* that the host named, is never refused by a check that the winners passed,
\* and the registry's look at neighbours alone finds every prefix pair
\* (compose_with_overrides, check_prefix_pairs).
THEOREM CompositionCorrect ==
  ASSUME CompositionAssumption
  PROVE  CompositionSpec => []CompositionInvariant
<1>1. CompositionInductive => CompositionInvariant
  <2> SUFFICES ASSUME CompositionInductive PROVE CompositionInvariant
    OBVIOUS
  <2>1. Unambiguous
    BY AcceptedIsUnambiguous DEF Unambiguous, CompositionInductive
  <2>2. NeighboursAreEnough
    <3>1. IsFiniteSet(Projected) /\ \A b \in Projected : b.keys \in Seq(Nat)
      BY ProjectedIsFinite DEF CompositionInductive
    <3>2. \A scope : IsFiniteSet(Table(Projected, scope)) /\ Table(Projected, scope) \subseteq Seq(Nat)
      BY <3>1, TableIsFinite
    <3> QED
      BY <3>2, NeighboursDecide DEF NeighboursAreEnough
  <2>3. OnlyLosersGo
    BY OnlyLosersAreGone DEF CompositionInductive
  <2> QED
    BY <2>1, <2>2, <2>3, NothingSurprises, EscapesAreOfTheHost DEF CompositionInvariant
<1> QED
  BY CompositionInvariance, <1>1, PTL

-----------------------------------------------------------------------------
(* The bindings of the editor. *)

LEMMA ShortTuples ==
  ASSUME NEW S, NEW x \in S, NEW y \in S, NEW z \in S
  PROVE  /\ <<x>> \in Seq(S) /\ Len(<<x>>) = 1
         /\ <<x, y>> \in Seq(S) /\ Len(<<x, y>>) = 2
         /\ <<x, y, z>> \in Seq(S) /\ Len(<<x, y, z>>) = 3
OBVIOUS

LEMMA ThreeFit ==
  ASSUME KeyInputAssumption
  PROVE  1 \in 1 .. KeysMax /\ 2 \in 1 .. KeysMax /\ 3 \in 1 .. KeysMax
<1>1. KeysMax \in Nat /\ KeysMax >= 3
  BY DEF KeyInputAssumption
<1> QED
  BY <1>1

Fits(c) == c.keys \in Seq(Keys) /\ Len(c.keys) \in 1 .. KeysMax

LEMMA ShortBindingsFit ==
  ASSUME KeyInputAssumption
  PROVE  \A command : \A x, y, z \in Keys :
           Fits(Bind(<<x>>, command)) /\ Fits(Bind(<<x, y>>, command)) /\ Fits(Bind(<<x, y, z>>, command))
<1> TAKE command
<1> TAKE x, y, z \in Keys
<1>1. \A k : Bind(k, command).keys = k
  BY DEF Bind
<1>2. \A k \in Seq(Keys) : Len(k) \in 1 .. KeysMax => Fits(Bind(k, command))
  BY <1>1 DEF Fits
<1>3. /\ <<x>> \in Seq(Keys) /\ <<x, y>> \in Seq(Keys) /\ <<x, y, z>> \in Seq(Keys)
      /\ Len(<<x>>) = 1 /\ Len(<<x, y>>) = 2 /\ Len(<<x, y, z>>) = 3
  BY ShortTuples
<1> QED
  BY <1>2, <1>3, ThreeFit

LEMMA BindingsFit ==
  ASSUME KeyInputAssumption, NEW scope, NEW b \in Bindings(scope)
  PROVE  Fits(b)
<1>1. \A c \in HostTable : Fits(c)
  BY DEF Fits, KeyInputAssumption
<1>2. /\ "1" \in Keys /\ "0" \in Keys /\ "w" \in Keys /\ "d" \in Keys /\ "g" \in Keys /\ "i" \in Keys
      /\ "v" \in Keys /\ "x" \in Keys /\ "r" \in Keys /\ ":" \in Keys /\ "p" \in Keys /\ "tab" \in Keys
      /\ "ret" \in Keys /\ "esc" \in Keys /\ "bs" \in Keys
  BY DEF Keys
<1>3. (\A c \in Motions : Fits(c)) /\ (\A c \in CountAndRegister : Fits(c)) /\ (\A c \in TextObjects : Fits(c))
  <2>1. /\ Fits(Bind(<<"w">>, "motion")) /\ Fits(Bind(<<"0">>, "first-column"))
        /\ Fits(Bind(<<"g", "g">>, "motion"))
    BY <1>2, ShortBindingsFit
  <2>2. /\ Fits(Bind(<<"1">>, "digit")) /\ Fits(Bind(<<"r">>, "register")) /\ Fits(Bind(<<"i", "w">>, "object"))
    BY <1>2, ShortBindingsFit
  <2>3. \A c \in Motions : Fits(c)
    BY <2>1, Zenon DEF Motions
  <2>4. (\A c \in CountAndRegister : Fits(c)) /\ (\A c \in TextObjects : Fits(c))
    BY <2>2, Zenon DEF CountAndRegister, TextObjects
  <2> QED
    BY <2>3, <2>4
<1>4. (\A c \in ModeKeys : Fits(c)) /\ (\A c \in NormalEdits : Fits(c))
  <2>1. /\ Fits(Bind(<<"i">>, "insert")) /\ Fits(Bind(<<"v">>, "visual")) /\ Fits(Bind(<<":">>, "command-line"))
    BY <1>2, ShortBindingsFit
  <2>2. /\ Fits(Bind(<<"d">>, "operator")) /\ Fits(Bind(<<"x">>, "edit")) /\ Fits(Bind(<<"esc">>, "end-search"))
    BY <1>2, ShortBindingsFit
  <2>3. \A c \in ModeKeys : Fits(c)
    BY <2>1, Zenon DEF ModeKeys
  <2>4. \A c \in NormalEdits : Fits(c)
    BY <2>2, Zenon DEF NormalEdits
  <2> QED
    BY <2>3, <2>4
<1>b. Fits(Bind(<<"g", "p">>, "picker")) /\ Fits(Bind(<<"g", "i", "w">>, "save"))
  BY <1>2, ShortBindingsFit
<1>a. (\A c \in Leaders : Fits(c)) /\ (\A c \in VisualKeys : Fits(c))
  <2>1. \A c \in VisualKeys : Fits(c)
    BY <1>2, ShortBindingsFit DEF VisualKeys
  <2> QED
    BY <1>b, <2>1 DEF Leaders
<1>5. \A c \in OperatorPending \cup InsertKeys \cup PromptKeys \cup PickerKeys \cup {Bind(<<"1">>, "digit")} :
         Fits(c)
  BY <1>2, <1>3, ShortBindingsFit DEF OperatorPending, InsertKeys, PromptKeys, PickerKeys
<1> QED
  BY <1>1, <1>3, <1>4, <1>a, <1>5 DEF Bindings

\* Only four scopes bind a sequence of several keys.
LEMMA ScopesThatExtend ==
  ASSUME KeyInputAssumption, NEW scope, NEW keys \in Seq(Keys), keys # <<>>, Extends(scope, keys)
  PROVE  scope \in {"global", "normal", "visual", "operator-pending"}
<1>1. PICK b \in Bindings(scope) : Len(keys) < Len(b.keys)
  BY DEF Extends
<1>2. Len(keys) \in Nat /\ Len(keys) # 0
  OBVIOUS
<1>3. \A x, command : Len(Bind(<<x>>, command).keys) = 1
  BY DEF Bind
<1>4. \A c \in InsertKeys \cup PromptKeys \cup PickerKeys : Len(c.keys) = 1
  BY <1>3 DEF InsertKeys, PromptKeys, PickerKeys
<1>5. b \notin InsertKeys \cup PromptKeys \cup PickerKeys
  <2> SUFFICES ASSUME Len(b.keys) = 1 PROVE FALSE
    BY <1>4
  <2> QED
    BY <1>1, <1>2
<1> QED
  BY <1>5 DEF Bindings

\* No scope of an open line or of a question binds an operator or a register,
\* and a waiting operator is offered no register.
LEMMA LinesBindNoOperator ==
  ASSUME NEW scope \in {"picker", "prompt", "confirmation", "operator-pending"}, NEW b \in Bindings(scope)
  PROVE  b.command # "register" /\ (scope # "operator-pending" => b.command # "operator")
<1>1. \A k, command : Bind(k, command).command = command
  BY DEF Bind
<1>2. \A c \in PromptKeys \cup PickerKeys : c.command \notin {"operator", "register"}
  BY <1>1 DEF PromptKeys, PickerKeys
<1>3. \A c \in OperatorPending \cup TextObjects \cup {Bind(<<"1">>, "digit")} : c.command # "register"
  BY <1>1 DEF OperatorPending, TextObjects, Motions
<1> QED
  BY <1>2, <1>3 DEF Bindings

-----------------------------------------------------------------------------
(* The resolver. *)

Scopes == {"none", "global", "picker", "normal", "visual", "insert", "operator-pending", "prompt",
           "register", "confirmation"}

\* The first scope of an order that is in a set of its scopes.
LEMMA FirstIsThere ==
  ASSUME NEW order \in Seq(Scopes), Len(order) <= 3,
         NEW scopes, scopes \subseteq ScopesOf(order), scopes # {}
  PROVE  First(order, scopes) \in scopes
<1> DEFINE IsFirst(n) == order[n] \in scopes /\ \A m \in 1 .. (n - 1) : order[m] \notin scopes
<1>1. DOMAIN order = 1 .. Len(order) /\ Len(order) \in Nat
  OBVIOUS
<1>2. PICK n \in DOMAIN order : order[n] \in scopes
  BY DEF ScopesOf
<1>3. n \in 1 .. 3 /\ \A m \in 1 .. n : m \in DOMAIN order
  BY <1>1
<1>4. \E m \in DOMAIN order : IsFirst(m)
  <2>1. CASE order[1] \in scopes
    BY <1>3, <2>1
  <2>2. CASE order[1] \notin scopes /\ n >= 2 /\ order[2] \in scopes
    <3>1. 2 \in DOMAIN order /\ \A m \in 1 .. (2 - 1) : m = 1
      BY <1>3, <2>2
    <3> QED
      BY <2>2, <3>1
  <2>3. CASE order[1] \notin scopes /\ ~(n >= 2 /\ order[2] \in scopes)
    <3>1. n = 3
      BY <1>2, <1>3, <2>3
    <3>2. \A m \in 1 .. (3 - 1) : m = 1 \/ m = 2
      OBVIOUS
    <3> QED
      BY <1>2, <2>3, <3>1, <3>2
  <2> QED
    BY <2>1, <2>2, <2>3
<1> QED
  BY <1>4 DEF First

Prefixes == [owner : Scopes, keys : Seq(Keys), order : Seq(Scopes), current : BOOLEAN]

\* A prefix that the resolver may hold: nothing that it is made of completes,
\* and its owner extends it.
IsPending(p) ==
  /\ p \in Prefixes /\ Len(p.order) <= 3
  /\ p.keys = <<>> => p.owner = "none"
  /\ p.keys # <<>> =>
       /\ p.owner = First(p.order, Extending(p.order, p.keys))
       /\ Extending(p.order, p.keys) # {}
       /\ \A n \in 1 .. Len(p.keys) : Completing(p.order, SubSeq(p.keys, 1, n)) = {}

LEMMA NoPrefixIsPending == IsPending(NoPrefix) /\ ~NoPrefix.current
<1>1. NoPrefix \in Prefixes
  BY DEF NoPrefix, Prefixes, Scopes
<1>2. NoPrefix.keys = <<>> /\ NoPrefix.order = <<>> /\ NoPrefix.owner = "none" /\ NoPrefix.current = FALSE
  BY DEF NoPrefix
<1> QED
  BY <1>1, <1>2 DEF IsPending

\* What the owner of a prefix is, and how long the prefix may be.
LEMMA PendingFacts ==
  ASSUME KeyInputAssumption, NEW p, IsPending(p), p.keys # <<>>
  PROVE  /\ p.owner \in {"global", "normal", "visual", "operator-pending"}
         /\ p.owner \in Extending(p.order, p.keys)
         /\ Len(p.keys) < KeysMax
         /\ Completing(p.order, p.keys) = {}
<1>1. /\ p.keys \in Seq(Keys) /\ p.order \in Seq(Scopes) /\ Len(p.order) <= 3
      /\ Extending(p.order, p.keys) \subseteq ScopesOf(p.order)
  BY DEF IsPending, Prefixes, Extending
<1>2. p.owner \in Extending(p.order, p.keys)
  BY <1>1, FirstIsThere DEF IsPending
<1>3. Extends(p.owner, p.keys)
  BY <1>2 DEF Extending
<1>4. PICK b \in Bindings(p.owner) : Len(p.keys) < Len(b.keys)
  BY <1>3 DEF Extends
<1>5. b.keys \in Seq(Keys) /\ Len(b.keys) \in 1 .. KeysMax
  BY BindingsFit DEF Fits
<1>6. KeysMax \in Nat /\ Len(p.keys) \in Nat
  BY <1>1 DEF KeyInputAssumption
<1>7. Len(p.keys) < KeysMax
  BY <1>4, <1>5, <1>6
<1>8. SubSeq(p.keys, 1, Len(p.keys)) = p.keys /\ Len(p.keys) \in 1 .. Len(p.keys)
  BY <1>1
<1> QED
  BY <1>1, <1>2, <1>3, <1>7, <1>8, ScopesThatExtend DEF IsPending

\* The start of a sequence, and the start of its start.
LEMMA StartsOfStarts ==
  ASSUME NEW S, NEW s \in Seq(S), NEW n \in 0 .. Len(s)
  PROVE  /\ SubSeq(s, 1, n) \in Seq(S) /\ Len(SubSeq(s, 1, n)) = n
         /\ \A m \in 0 .. n : SubSeq(SubSeq(s, 1, n), 1, m) = SubSeq(s, 1, m)
OBVIOUS

LEMMA StartsOfLonger ==
  ASSUME NEW S, NEW s \in Seq(S), NEW x \in S
  PROVE  /\ s \o <<x>> \in Seq(S) /\ Len(s \o <<x>>) = Len(s) + 1 /\ s \o <<x>> # <<>>
         /\ s \o <<x>> = Append(s, x)
         /\ SubSeq(s \o <<x>>, 1, Len(s) + 1) = s \o <<x>>
         /\ \A m \in 0 .. Len(s) : SubSeq(s \o <<x>>, 1, m) = SubSeq(s, 1, m)
OBVIOUS

LEMMA ExtendsItsStart ==
  ASSUME KeyInputAssumption, NEW scope, NEW keys \in Seq(Keys), NEW n \in 0 .. Len(keys), Extends(scope, keys)
  PROVE  Extends(scope, SubSeq(keys, 1, n))
<1>1. PICK b \in Bindings(scope) : Len(keys) < Len(b.keys) /\ SubSeq(b.keys, 1, Len(keys)) = keys
  BY DEF Extends
<1>2. b.keys \in Seq(Keys) /\ Len(b.keys) \in Nat /\ Len(keys) \in Nat
  BY BindingsFit DEF Fits
<1>3. /\ Len(SubSeq(keys, 1, n)) = n /\ n \in Nat /\ n < Len(b.keys)
      /\ SubSeq(b.keys, 1, n) = SubSeq(keys, 1, n)
  <2>1. Len(keys) \in 0 .. Len(b.keys)
    BY <1>1, <1>2
  <2>2. \A m \in 0 .. Len(keys) : SubSeq(SubSeq(b.keys, 1, Len(keys)), 1, m) = SubSeq(b.keys, 1, m)
    BY <1>2, <2>1, StartsOfStarts
  <2> QED
    BY <1>1, <1>2, <2>2, StartsOfStarts
<1> QED
  BY <1>3 DEF Extends

\* A step back leaves a prefix that its new owner extends (step_back).
LEMMA ShortenedIsPending ==
  ASSUME KeyInputAssumption, NEW p, IsPending(p), p.keys # <<>>
  PROVE  /\ IsPending(Shortened(p))
         /\ Shortened(p).current => p.current /\ Shortened(p).order = p.order
<1> DEFINE n == Len(p.keys) - 1
           keys == SubSeq(p.keys, 1, n)
<1>1. /\ p.keys \in Seq(Keys) /\ p.order \in Seq(Scopes) /\ Len(p.order) <= 3 /\ p \in Prefixes
      /\ n \in 0 .. Len(p.keys)
  BY DEF IsPending, Prefixes
<1>2. keys \in Seq(Keys) /\ Len(keys) = n /\ \A m \in 0 .. n : SubSeq(keys, 1, m) = SubSeq(p.keys, 1, m)
  BY <1>1, StartsOfStarts
<1>3. Extending(p.order, keys) # {} /\ Extending(p.order, keys) \subseteq ScopesOf(p.order)
  <2>1. p.owner \in ScopesOf(p.order) /\ Extends(p.owner, p.keys)
    BY PendingFacts DEF Extending
  <2>2. Extends(p.owner, keys)
    BY <1>1, <2>1, ExtendsItsStart
  <2> QED
    BY <2>1, <2>2 DEF Extending
<1>4. First(p.order, Extending(p.order, keys)) \in Scopes
  <2>1. First(p.order, Extending(p.order, keys)) \in ScopesOf(p.order)
    BY <1>1, <1>3, FirstIsThere
  <2> QED
    BY <1>1, <2>1 DEF ScopesOf
<1>5. \A m \in 1 .. Len(keys) : Completing(p.order, SubSeq(keys, 1, m)) = {}
  <2> TAKE m \in 1 .. Len(keys)
  <2>1. m \in 0 .. n /\ m \in 1 .. Len(p.keys)
    BY <1>1, <1>2
  <2> QED
    BY <1>2, <2>1 DEF IsPending
<1> DEFINE q == [p EXCEPT !.keys = keys, !.owner = First(p.order, Extending(p.order, keys))]
<1>6. /\ q \in Prefixes /\ q.keys = keys /\ q.order = p.order /\ q.current = p.current
      /\ q.owner = First(p.order, Extending(p.order, keys))
  BY <1>1, <1>2, <1>4 DEF Prefixes
<1>7. CASE keys = <<>>
  BY <1>7, NoPrefixIsPending DEF Shortened
<1>8. CASE keys # <<>>
  <2>1. Shortened(p) = q
    BY <1>8 DEF Shortened
  <2> HIDE DEF q
  <2>2. IsPending(q)
    BY <1>1, <1>3, <1>5, <1>6, <1>8 DEF IsPending
  <2> QED
    BY <1>6, <2>1, <2>2
<1> QED
  BY <1>7, <1>8

LEMMA CommandIsBound ==
  ASSUME NEW scope, NEW keys, Completes(scope, keys)
  PROVE  \E b \in Bindings(scope) : b.keys = keys /\ CommandOf(scope, keys) = b.command
BY DEF Completes, CommandOf

\* What one key makes of a prefix: the answer, and the prefix that it leaves
\* (start_sequence, continue_prefix).
LEMMA ResolvedFacts ==
  ASSUME KeyInputAssumption, NEW p, IsPending(p), NEW order \in Seq(Scopes), Len(order) <= 3,
         p.keys # <<>> => p.order = order, NEW key \in Keys, NEW fallback \in BOOLEAN
  PROVE  LET found == Resolve(p, order, key, fallback) IN
         /\ IsPending(found.prefix) /\ (found.prefix.current => found.prefix.order = order)
         /\ found.answer.kind \in {"host", "command", "pending", "text", "unbound", "interrupted"}
         /\ found.answer.kind = "command" =>
              \E s \in ScopesOf(order) \ {"global"} : \E b \in Bindings(s) : found.answer.command = b.command
         /\ (\/ Completing(order, Append(p.keys, key)) # {} \/ Extending(order, Append(p.keys, key)) # {}
             \/ p.keys # <<>> /\ Completing(Preceding(order, p.owner), <<key>>) # {})
            => found.answer.kind # "unbound"
<1> DEFINE keys == p.keys \o <<key>>
           found == Resolve(p, order, key, fallback)
<1>1. /\ p.keys \in Seq(Keys) /\ keys \in Seq(Keys) /\ Len(keys) = Len(p.keys) + 1 /\ keys # <<>>
      /\ keys = Append(p.keys, key) /\ SubSeq(keys, 1, Len(keys)) = keys /\ Len(p.keys) \in Nat
      /\ \A m \in 0 .. Len(p.keys) : SubSeq(keys, 1, m) = SubSeq(p.keys, 1, m)
  <2>1. p.keys \in Seq(Keys)
    BY DEF IsPending, Prefixes
  <2> QED
    BY <2>1, StartsOfLonger
<1>2. \A kind, command : /\ Answered(kind, command).kind = kind /\ Answered(kind, command).command = command
  BY DEF Answered
<1> HIDE DEF keys
<1>3. CASE Completing(order, keys) # {}
  <2> DEFINE s == First(order, Completing(order, keys))
  <2>1. found = [answer |-> Bound(s, keys), prefix |-> NoPrefix]
    BY <1>3 DEF Resolve, keys
  <2>2. s \in Completing(order, keys)
    BY <1>3, FirstIsThere DEF Completing
  <2> HIDE DEF s, found
  <2>3. s \in ScopesOf(order) /\ \E b \in Bindings(s) : CommandOf(s, keys) = b.command
    BY <2>2, CommandIsBound DEF Completing
  <2>4. Bound(s, keys) = Answered(IF s = "global" THEN "host" ELSE "command", CommandOf(s, keys))
    BY DEF Bound
  <2>5. /\ found.answer.kind = (IF s = "global" THEN "host" ELSE "command")
        /\ found.answer.command = CommandOf(s, keys) /\ found.prefix = NoPrefix
    BY <1>2, <2>1, <2>4
  <2> QED
    BY <2>3, <2>5, NoPrefixIsPending DEF found
<1>4. CASE Completing(order, keys) = {} /\ Extending(order, keys) # {}
  <2> DEFINE s == First(order, Extending(order, keys))
  <2>1. found = [answer |-> Answered("pending", "none"), prefix |-> Armed(s, keys, order)]
    BY <1>4 DEF Resolve, keys
  <2>2. s \in Extending(order, keys) /\ s \in Scopes
    <3>1. s \in Extending(order, keys)
      BY <1>4, FirstIsThere DEF Extending
    <3> QED
      BY <3>1 DEF Extending, ScopesOf
  <2> DEFINE q == Armed(s, keys, order)
  <2>3. /\ q \in Prefixes /\ q.owner = s /\ q.keys = keys /\ q.order = order
    BY <1>1, <2>2 DEF Armed, Prefixes
  <2> HIDE DEF q
  <2>4. \A n \in 1 .. Len(keys) : Completing(order, SubSeq(keys, 1, n)) = {}
    <3> TAKE n \in 1 .. Len(keys)
    <3>1. CASE n = Len(keys)
      BY <1>1, <1>4, <3>1
    <3>2. CASE n # Len(keys)
      <4>1. n \in 1 .. Len(p.keys) /\ n \in 0 .. Len(p.keys) /\ p.keys # <<>>
        BY <1>1, <3>2
      <4>2. Completing(p.order, SubSeq(p.keys, 1, n)) = {}
        BY <4>1 DEF IsPending
      <4> QED
        BY <1>1, <4>1, <4>2
    <3> QED
      BY <3>1, <3>2
  <2>5. IsPending(q)
    BY <1>1, <1>4, <2>2, <2>3, <2>4 DEF IsPending
  <2> HIDE DEF found
  <2>6. found.answer = Answered("pending", "none") /\ found.prefix = q
    BY <2>1 DEF q
  <2>7. found.answer.kind = "pending"
    BY <1>2, <2>6
  <2> QED
    BY <2>3, <2>5, <2>6, <2>7 DEF found
<1>5. CASE Completing(order, keys) = {} /\ Extending(order, keys) = {}
  <2> DEFINE before == Preceding(order, p.owner)
             taken == IF p.keys = <<>>
                      THEN IF key \in Typed /\ fallback THEN Answered("text", key) ELSE Answered("unbound", "none")
                      ELSE IF Completing(before, <<key>>) # {}
                      THEN Answered("interrupted", CommandOf(First(before, Completing(before, <<key>>)), <<key>>))
                      ELSE Answered("unbound", "none")
  <2>1. found = [answer |-> taken, prefix |-> NoPrefix]
    BY <1>5 DEF Resolve, keys
  <2>2. /\ taken.kind \in {"text", "unbound", "interrupted"}
        /\ p.keys # <<>> /\ Completing(before, <<key>>) # {} => taken.kind = "interrupted"
    BY <1>2
  <2> HIDE DEF taken, found
  <2>3. found.answer = taken /\ found.prefix = NoPrefix
    BY <2>1
  <2> QED
    BY <1>1, <1>5, <2>2, <2>3, NoPrefixIsPending DEF found
<1> QED
  BY <1>3, <1>4, <1>5

-----------------------------------------------------------------------------
(* The reducer and the session. *)

Lines == {"none", "command", "picker"}
Contexts == [question : BOOLEAN, line : Lines, mode : Modes]
Reducers == [context : Contexts, count : 0 .. CountMax, operator : BOOLEAN,
             register : {"empty", "selecting", "selected"}, object : BOOLEAN, renewed : BOOLEAN]
Sessions == [editing : [mode : Modes, waits : BOOLEAN], line : Lines \cup {"menu"}, question : BOOLEAN]

\* What a generation stands for is the same in the two reducers.
SameGeneration(r, q) ==
  q.context = r.context /\ q.count = r.count /\ q.operator = r.operator /\ q.register = r.register

GrammarIdle(r) == r.count = 0 /\ r.operator = FALSE /\ r.register = "empty" /\ r.object = FALSE

\* Neither a question nor a line has the keys.
IsOpen(context) == context.question = FALSE /\ context.line = "none"
\* An operator waits for a motion: it is offered no register any more.
OperatorIsOpen(r) == r.operator = TRUE => IsOpen(r.context) /\ r.register # "selecting"

LEMMA ReducerFields ==
  ASSUME NEW r \in Reducers
  PROVE  r.context \in Contexts /\ r.count \in 0 .. CountMax /\ r.operator \in BOOLEAN
         /\ r.register \in {"empty", "selecting", "selected"} /\ r.object \in BOOLEAN /\ r.renewed \in BOOLEAN
BY DEF Reducers

LEMMA SameFields ==
  ASSUME NEW r \in Reducers, NEW q \in Reducers, q.context = r.context, q.count = r.count,
         q.operator = r.operator, q.register = r.register, q.object = r.object, q.renewed = r.renewed
  PROVE  q = r
BY DEF Reducers

LEMMA SeenIsOfTheGeneration ==
  ASSUME NEW r \in Reducers, NEW q \in Reducers, SameGeneration(r, q)
  PROVE  /\ Seen(q) = Seen(r) /\ ActiveScope(q) = ActiveScope(r) /\ ScopeOrder(q) = ScopeOrder(r)
<1>1. ASSUME NEW t \in Reducers
      PROVE  /\ Seen(t) \in Reducers /\ Seen(t).context = t.context /\ Seen(t).count = t.count
             /\ Seen(t).operator = t.operator /\ Seen(t).register = t.register
             /\ Seen(t).object = FALSE /\ Seen(t).renewed = FALSE
  BY DEF Seen, Reducers
<1>2. Seen(q) = Seen(r)
  <2>1. /\ Seen(q).context = Seen(r).context /\ Seen(q).count = Seen(r).count
        /\ Seen(q).operator = Seen(r).operator /\ Seen(q).register = Seen(r).register
        /\ Seen(q).object = Seen(r).object /\ Seen(q).renewed = Seen(r).renewed
    BY <1>1 DEF SameGeneration
  <2>2. Seen(q) \in Reducers /\ Seen(r) \in Reducers
    BY <1>1
  <2> HIDE DEF Seen
  <2> QED
    BY <2>1, <2>2, SameFields
<1>3. ActiveScope(q) = ActiveScope(r)
  BY DEF ActiveScope, SameGeneration
<1> QED
  BY <1>2, <1>3 DEF ScopeOrder, SameGeneration

LEMMA ScopeIsKnown ==
  ASSUME NEW r \in Reducers
  PROVE  /\ ActiveScope(r) \in Scopes \ {"none", "global", "picker"}
         /\ ~IsOpen(r.context) => ActiveScope(r) \in {"prompt", "confirmation"}
<1>1. r.context.mode \in Modes /\ r.context.question \in BOOLEAN
  BY DEF Reducers, Contexts
<1> QED
  BY <1>1 DEF ActiveScope, OwningScope, Scopes, Modes, IsOpen

LEMMA JoinedPair ==
  ASSUME NEW S, NEW x \in S, NEW y \in S
  PROVE  <<x>> \o <<y>> = <<x, y>>
<1>1. <<x>> \o <<y>> \in Seq(S) /\ Len(<<x>> \o <<y>>) = 2
  OBVIOUS
<1>2. (<<x>> \o <<y>>)[1] = x /\ (<<x>> \o <<y>>)[2] = y
  OBVIOUS
<1>3. \A s \in Seq(S) : Len(s) = 2 => s = <<s[1], s[2]>>
  OBVIOUS
<1> QED
  BY <1>1, <1>2, <1>3

LEMMA JoinedTriple ==
  ASSUME NEW S, NEW x \in S, NEW y \in S, NEW z \in S
  PROVE  <<x, y>> \o <<z>> = <<x, y, z>>
<1>1. <<x, y>> \o <<z>> \in Seq(S) /\ Len(<<x, y>> \o <<z>>) = 3
  OBVIOUS
<1>2. (<<x, y>> \o <<z>>)[1] = x /\ (<<x, y>> \o <<z>>)[2] = y /\ (<<x, y>> \o <<z>>)[3] = z
  OBVIOUS
<1>3. \A s \in Seq(S) : Len(s) = 3 => s = <<s[1], s[2], s[3]>>
  OBVIOUS
<1> QED
  BY <1>1, <1>2, <1>3

LEMMA JoinedTuples ==
  ASSUME NEW S, NEW x \in S, NEW y \in S, NEW z \in S
  PROVE  /\ (<<>> \o <<>>) \o <<z>> = <<z>> /\ (<<>> \o <<y>>) \o <<z>> = <<y, z>>
         /\ (<<x>> \o <<>>) \o <<z>> = <<x, z>> /\ (<<x>> \o <<y>>) \o <<z>> = <<x, y, z>>
<1>1. <<>> \o <<>> = <<>>
  BY ConcatEmptySeq, EmptySeq
<1>2. <<>> \o <<z>> = <<z>> /\ <<>> \o <<y>> = <<y>> /\ <<x>> \o <<>> = <<x>>
  OBVIOUS
<1>3. <<y>> \o <<z>> = <<y, z>> /\ <<x>> \o <<z>> = <<x, z>> /\ <<x>> \o <<y>> = <<x, y>>
  BY JoinedPair
<1>4. <<x, y>> \o <<z>> = <<x, y, z>>
  BY JoinedTriple
<1> QED
  BY <1>1, <1>2, <1>3, <1>4

\* The order of the scopes that a key is offered to.
LEMMA OrderIsShort ==
  ASSUME NEW r \in Reducers
  PROVE  /\ ScopeOrder(r) \in Seq(Scopes) /\ Len(ScopeOrder(r)) <= 3
         /\ ScopesOf(ScopeOrder(r)) \subseteq {"picker", "global", ActiveScope(r)}
         /\ ~IsOpen(r.context) => ScopesOf(ScopeOrder(r)) \subseteq {"picker", "global", "prompt", "confirmation"}
<1> DEFINE s == ActiveScope(r)
<1>1. s \in Scopes /\ "picker" \in Scopes /\ "global" \in Scopes
  BY ScopeIsKnown DEF Scopes
<1>2. ScopeOrder(r) \in {<<s>>, <<"global", s>>, <<"picker", s>>, <<"picker", "global", s>>}
  <2>1. /\ (<<>> \o <<>>) \o <<s>> = <<s>> /\ (<<>> \o <<"global">>) \o <<s>> = <<"global", s>>
        /\ (<<"picker">> \o <<>>) \o <<s>> = <<"picker", s>>
        /\ (<<"picker">> \o <<"global">>) \o <<s>> = <<"picker", "global", s>>
    BY <1>1, JoinedTuples
  <2> QED
    BY <2>1 DEF ScopeOrder
<1> HIDE DEF s
<1>3. ASSUME NEW order \in {<<s>>, <<"global", s>>, <<"picker", s>>, <<"picker", "global", s>>}
      PROVE  order \in Seq(Scopes) /\ Len(order) <= 3 /\ ScopesOf(order) \subseteq {"picker", "global", s}
  <2>1. order \in Seq(Scopes) /\ Len(order) <= 3
    <3>1. /\ <<s>> \in Seq(Scopes) /\ Len(<<s>>) = 1
          /\ <<"global", s>> \in Seq(Scopes) /\ Len(<<"global", s>>) = 2
          /\ <<"picker", s>> \in Seq(Scopes) /\ Len(<<"picker", s>>) = 2
          /\ <<"picker", "global", s>> \in Seq(Scopes) /\ Len(<<"picker", "global", s>>) = 3
      BY <1>1, ShortTuples
    <3>2. ASSUME order = <<s>> PROVE order \in Seq(Scopes) /\ Len(order) <= 3
      BY <3>1, <3>2
    <3>3. ASSUME order = <<"global", s>> PROVE order \in Seq(Scopes) /\ Len(order) <= 3
      BY <3>1, <3>3
    <3>4. ASSUME order = <<"picker", s>> PROVE order \in Seq(Scopes) /\ Len(order) <= 3
      BY <3>1, <3>4
    <3>5. ASSUME order = <<"picker", "global", s>> PROVE order \in Seq(Scopes) /\ Len(order) <= 3
      BY <3>1, <3>5
    <3> QED
      BY <3>2, <3>3, <3>4, <3>5
  <2>2. DOMAIN order = 1 .. Len(order) /\ Len(order) \in Nat
    BY <2>1
  <2>3. \A n \in 1 .. 3 : n = 1 \/ n = 2 \/ n = 3
    OBVIOUS
  <2>4. \A n \in DOMAIN order : order[n] \in {"picker", "global", s}
    BY <1>1
  <2> QED
    BY <2>1, <2>4 DEF ScopesOf
<1> QED
  BY <1>2, <1>3, ScopeIsKnown DEF s

LEMMA FreshFacts ==
  ASSUME reducer \in Reducers
  PROVE  Fresh \in Reducers /\ Fresh.renewed = FALSE /\ SameGeneration(reducer, Fresh) /\ Fresh.object = reducer.object
BY DEF Fresh, Reducers, SameGeneration

LEMMA ResetFacts ==
  ASSUME NEW r \in Reducers, CountMax \in Nat
  PROVE  /\ Reset(r) \in Reducers /\ GrammarIdle(Reset(r)) /\ Reset(r).renewed = TRUE
         /\ Reset(r).context = r.context
BY DEF Reset, Reducers, GrammarIdle

LEMMA SetContextFacts ==
  ASSUME NEW r \in Reducers, NEW context \in Contexts, CountMax \in Nat
  PROVE  LET q == SetContext(r, context) IN
         /\ q \in Reducers /\ q.context = context
         /\ q = r \/ (GrammarIdle(q) /\ q.renewed = TRUE)
<1> DEFINE q == [r EXCEPT !.context = context]
<1>1. q \in Reducers /\ q.context = context
  BY DEF Reducers
<1> HIDE DEF q
<1>2. CASE context = r.context
  BY <1>2 DEF SetContext
<1>3. CASE context # r.context
  BY <1>1, <1>3, ResetFacts DEF SetContext, q
<1> QED
  BY <1>2, <1>3

\* What the reducer makes of an answer (command, text, reduce).
Kinds == {"prefix", "operation", "text", "unbound"}
IsReduction(r, d, command) ==
  /\ d.reducer \in Reducers /\ d.reducer.context = r.context
  /\ d.reducer.renewed = FALSE => SameGeneration(r, d.reducer)
  /\ d.kind \in Kinds
  /\ d.kind = "unbound" => GrammarIdle(d.reducer)
  /\ d.reducer.operator = TRUE =>
       /\ r.operator = TRUE \/ command = "operator"
       /\ d.reducer.register = "selecting" =>
            r.operator = TRUE /\ (r.register = "selecting" \/ command = "register")

LEMMA ReducedFields ==
  ASSUME NEW r, NEW kind, NEW command
  PROVE  /\ Reduced(r, kind, command).reducer = r /\ Reduced(r, kind, command).kind = kind
         /\ Reduced(r, kind, command).command = command
BY DEF Reduced

LEMMA UnboundIsReduction ==
  ASSUME NEW r \in Reducers, CountMax \in Nat, NEW command, NEW q \in Reducers, q.context = r.context
  PROVE  IsReduction(r, Reduced(Reset(q), "unbound", "none"), command)
<1>1. /\ Reset(q) \in Reducers /\ GrammarIdle(Reset(q)) /\ Reset(q).renewed = TRUE
      /\ Reset(q).context = r.context /\ Reset(q).operator = FALSE
  BY ResetFacts DEF GrammarIdle
<1> QED
  BY <1>1, ReducedFields DEF IsReduction, Kinds

LEMMA TextIsReduction ==
  ASSUME NEW r \in Reducers, CountMax \in Nat, NEW key, NEW command
  PROVE  IsReduction(r, Text(r, key), command)
<1>1. CASE r.register # "selecting"
  <2> DEFINE q == [r EXCEPT !.object = FALSE]
  <2>1. q \in Reducers /\ SameGeneration(r, q)
    BY DEF Reducers, SameGeneration
  <2>2. Text(r, key) = Reduced(q, "text", key)
    BY <1>1 DEF Text
  <2> HIDE DEF q
  <2> QED
    BY <2>1, <2>2, ReducedFields DEF IsReduction, Kinds, SameGeneration
<1>2. CASE r.register = "selecting" /\ key \in RegisterNames
  <2> DEFINE q == [r EXCEPT !.register = "selected", !.renewed = TRUE]
  <2>1. /\ q \in Reducers /\ q.context = r.context /\ q.operator = r.operator /\ q.renewed = TRUE
        /\ q.register = "selected"
    BY DEF Reducers
  <2>2. Text(r, key) = Reduced(q, "prefix", "none")
    BY <1>2 DEF Text
  <2> HIDE DEF q
  <2> QED
    BY <2>1, <2>2, ReducedFields DEF IsReduction, Kinds
<1>3. CASE r.register = "selecting" /\ key \notin RegisterNames
  BY <1>3, UnboundIsReduction DEF Text
<1> QED
  BY <1>1, <1>2, <1>3

LEMMA GrownIsReduction ==
  ASSUME NEW r \in Reducers, CountMax \in Nat, NEW digit \in {0, 1}, NEW command
  PROVE  IsReduction(r, GrowCount(r, digit), command)
<1> DEFINE next == r.count * 10 + digit
           q == [r EXCEPT !.count = next, !.renewed = TRUE]
<1>1. r.count \in Nat /\ next \in Nat
  BY DEF Reducers
<1>2. CASE next > CountMax
  BY <1>2, UnboundIsReduction DEF GrowCount
<1>3. CASE ~(next > CountMax)
  <2>1. next \in 0 .. CountMax
    BY <1>1, <1>3
  <2> HIDE DEF next
  <2>2. /\ q \in Reducers /\ q.context = r.context /\ q.operator = r.operator /\ q.renewed = TRUE
        /\ q.register = r.register
    BY <2>1 DEF Reducers
  <2>3. GrowCount(r, digit) = Reduced(q, "prefix", "none")
    BY <1>3 DEF GrowCount, next
  <2> HIDE DEF q
  <2> QED
    BY <2>2, <2>3, ReducedFields DEF IsReduction, Kinds
<1> QED
  BY <1>2, <1>3

LEMMA CompletedIsReduction ==
  ASSUME NEW r \in Reducers, CountMax \in Nat, NEW command
  PROVE  IsReduction(r, Complete(r, command), command)
<1> DEFINE q == [r EXCEPT !.object = FALSE]
<1>1. q \in Reducers /\ SameGeneration(r, q) /\ q.context = r.context /\ q.operator = r.operator
  BY DEF Reducers, SameGeneration
<1>2. \A d : IsReduction(q, d, command) => IsReduction(r, d, command)
  BY <1>1 DEF IsReduction, SameGeneration
<1> HIDE DEF q
<1>3. CASE command = "digit"
  BY <1>1, <1>2, <1>3, GrownIsReduction DEF Complete, q
<1>4. CASE command = "first-column" /\ r.count # 0
  BY <1>1, <1>2, <1>4, GrownIsReduction DEF Complete, q
<1>5. CASE command = "register"
  <2> DEFINE t == [q EXCEPT !.register = "selecting", !.renewed = TRUE]
  <2>1. t \in Reducers /\ t.context = q.context /\ t.operator = q.operator /\ t.renewed = TRUE
    BY <1>1 DEF Reducers
  <2>2. Complete(r, command) = Reduced(t, "prefix", "none")
    BY <1>5 DEF Complete, SelectRegister, q
  <2> HIDE DEF t
  <2> QED
    BY <1>1, <1>5, <2>1, <2>2, ReducedFields DEF IsReduction, Kinds
<1>6. CASE ~(command = "digit") /\ ~(command = "first-column" /\ r.count # 0) /\ ~(command = "register")
  <2> DEFINE operator == ~r.operator /\ command = "operator"
             t == [Reset(r) EXCEPT !.operator = operator]
  <2>1. /\ Reset(r) \in Reducers /\ Reset(r).context = r.context /\ Reset(r).renewed = TRUE
        /\ Reset(r).register = "empty"
    BY ResetFacts DEF GrammarIdle
  <2>a. operator \in BOOLEAN /\ (operator = TRUE => command = "operator")
    OBVIOUS
  <2>2. Complete(r, command) = Reduced(t, "operation", command)
    BY <1>6 DEF Complete
  <2> HIDE DEF operator
  <2>3. /\ t \in Reducers /\ t.context = r.context /\ t.renewed = TRUE /\ t.operator = operator
        /\ t.register = "empty"
    BY <2>1, <2>a DEF Reducers
  <2> HIDE DEF t
  <2> QED
    BY <2>a, <2>2, <2>3, ReducedFields DEF IsReduction, Kinds
<1> QED
  BY <1>3, <1>4, <1>5, <1>6

\* Every answer of the resolver (reduce).
LEMMA ReduceIsReduction ==
  ASSUME NEW r \in Reducers, CountMax \in Nat, NEW answer
  PROVE  /\ IsReduction(r, Reduce(r, answer), IF answer.kind = "command" THEN answer.command ELSE "none")
         /\ IsReduction(r, Reduced(r, "prefix", "none"), "none")
<1>1. IsReduction(r, Reduced(r, "prefix", "none"), "none")
  BY ReducedFields DEF IsReduction, Kinds, SameGeneration
<1>2. CASE answer.kind = "pending"
  <2> DEFINE object == BindsTextObjects(ActiveScope(r))
             t == [r EXCEPT !.object = object]
  <2>1. object \in BOOLEAN
    BY DEF BindsTextObjects
  <2>2. Reduce(r, answer) = Reduced(t, "prefix", "none")
    BY <1>2 DEF Reduce
  <2> HIDE DEF object
  <2>3. t \in Reducers /\ SameGeneration(r, t)
    BY <2>1 DEF Reducers, SameGeneration
  <2> HIDE DEF t
  <2> QED
    BY <1>1, <1>2, <2>2, <2>3, ReducedFields DEF IsReduction, Kinds, SameGeneration
<1>3. CASE answer.kind = "command"
  BY <1>1, <1>3, CompletedIsReduction DEF Reduce
<1>4. CASE answer.kind = "text"
  BY <1>1, <1>4, TextIsReduction DEF Reduce
<1>5. CASE answer.kind \notin {"pending", "command", "text"}
  BY <1>1, <1>5, UnboundIsReduction DEF Reduce
<1> QED
  BY <1>2, <1>3, <1>4, <1>5

\* The context of a reducer and the owners of the keys in a session.
IsLinked(r, s) == r.context.question = s.question /\ r.context.line = ContextOf(s).line

\* What a session makes of a reducer: it keeps it, or another context resets it.
IsOutcome(r, result) ==
  /\ result.reducer \in Reducers /\ result.session \in Sessions
  /\ IsLinked(result.reducer, result.session)
  /\ result.reducer = r \/ (GrammarIdle(result.reducer) /\ result.reducer.renewed = TRUE)

LEMMA ContextFacts ==
  ASSUME NEW s \in Sessions
  PROVE  /\ ContextOf(s) \in Contexts
         /\ ContextOf(s).question = s.question
         /\ ContextOf(s).line = (IF s.line = "menu" THEN "command" ELSE s.line)
BY DEF ContextOf, Contexts, Sessions, Lines

LEMMA SyncedFacts ==
  ASSUME NEW r \in Reducers, NEW s \in Sessions, CountMax \in Nat
  PROVE  IsOutcome(r, Synced(r, s)) /\ Synced(r, s).session = s
<1> DEFINE q == SetContext(r, ContextOf(s))
<1>1. Synced(r, s).reducer = q /\ Synced(r, s).session = s
  BY DEF Synced
<1>2. ContextOf(s) \in Contexts /\ ContextOf(s).question = s.question
  BY ContextFacts
<1>3. q \in Reducers /\ q.context = ContextOf(s) /\ (q = r \/ (GrammarIdle(q) /\ q.renewed = TRUE))
  BY <1>2, SetContextFacts
<1> HIDE DEF q
<1>4. IsLinked(q, s)
  BY <1>2, <1>3 DEF IsLinked
<1> QED
  BY <1>1, <1>3, <1>4 DEF IsOutcome

Editings == [mode : Modes, waits : BOOLEAN]

LEMMA EditFacts ==
  ASSUME NEW editing \in Editings, NEW command
  PROVE  Edit(editing, command) \in Editings /\ Edit(editing, "to-normal").waits = FALSE
<1>1. /\ [editing EXCEPT !.waits = FALSE] \in Editings /\ [editing EXCEPT !.waits = TRUE] \in Editings
      /\ \A mode \in Modes : [editing EXCEPT !.mode = mode] \in Editings
      /\ "normal" \in Modes /\ "insert" \in Modes /\ "visual" \in Modes
  BY DEF Editings, Modes
<1>2. Edit(editing, command) \in Editings
  BY <1>1 DEF Edit
<1>3. Edit(editing, "to-normal").waits = FALSE
  BY DEF Edit, Editings
<1> QED
  BY <1>2, <1>3

LEMMA SessionUpdates ==
  ASSUME NEW s \in Sessions
  PROVE  /\ \A line \in Lines \cup {"menu"} :
              /\ [s EXCEPT !.line = line] \in Sessions
              /\ [s EXCEPT !.line = line].question = s.question /\ [s EXCEPT !.line = line].line = line
              /\ [s EXCEPT !.line = line].editing = s.editing
         /\ \A editing \in Editings :
              [s EXCEPT !.editing = editing] \in Sessions /\ [s EXCEPT !.editing = editing].editing = editing
              /\ [s EXCEPT !.editing = editing].line = s.line /\ [s EXCEPT !.editing = editing].question = s.question
         /\ \A question \in BOOLEAN : [s EXCEPT !.question = question] \in Sessions
         /\ s.editing \in Editings /\ s.line \in Lines \cup {"menu"} /\ s.question \in BOOLEAN
BY DEF Sessions, Editings

LEMMA LineAfterFacts ==
  ASSUME NEW s \in Sessions, NEW command
  PROVE  LineAfter(s, command) \in Lines \cup {"menu"}
<1>1. s.line \in Lines \cup {"menu"} /\ "none" \in Lines /\ "command" \in Lines
  BY SessionUpdates DEF Lines
<1> QED
  BY <1>1 DEF LineAfter

LEMMA RunFacts ==
  ASSUME NEW r \in Reducers, NEW s \in Sessions, IsLinked(r, s), CountMax \in Nat, NEW command
  PROVE  /\ IsOutcome(r, Run(r, s, command))
         /\ IsOpen(r.context) => Run(r, s, "to-normal").session.editing.waits = FALSE
<1> DEFINE same == [reducer |-> r, session |-> s]
<1>1. IsOutcome(r, same)
  BY DEF IsOutcome
<1>2. \A line \in Lines \cup {"menu"} : IsOutcome(r, Synced(r, [s EXCEPT !.line = line]))
  BY SessionUpdates, SyncedFacts
<1>3. \A c : LET t == [s EXCEPT !.editing = Edit(s.editing, c)] IN
             IsOutcome(r, Synced(r, t)) /\ Synced(r, t).session = t /\ t.editing = Edit(s.editing, c)
  <2> TAKE c
  <2>1. Edit(s.editing, c) \in Editings
    BY SessionUpdates, EditFacts
  <2> QED
    BY <2>1, SessionUpdates, SyncedFacts
<1>4. "command" \in Lines /\ "picker" \in Lines /\ LineAfter(s, command) \in Lines \cup {"menu"}
  BY LineAfterFacts DEF Lines
<1>5. IsOutcome(r, Run(r, s, command))
  <2>1. CASE s.question
    BY <1>1, <2>1 DEF Run
  <2>2. CASE ~s.question /\ s.line # "none" /\ command \in LineCommands
    BY <1>2, <1>4, <2>2 DEF Run
  <2>3. CASE ~s.question /\ ~(s.line # "none" /\ command \in LineCommands) /\ s.line = "picker"
    BY <1>1, <2>3 DEF Run
  <2>4. CASE ~s.question /\ ~(s.line # "none" /\ command \in LineCommands) /\ s.line # "picker"
    BY <1>1, <1>2, <1>3, <1>4, <2>4 DEF Run
  <2> QED
    BY <2>1, <2>2, <2>3, <2>4
<1>6. ASSUME IsOpen(r.context) PROVE Run(r, s, "to-normal").session.editing.waits = FALSE
  <2>1. s.question = FALSE /\ s.line = "none"
    BY <1>6, ContextFacts, SessionUpdates DEF IsOpen, IsLinked, Lines
  <2> DEFINE t == [s EXCEPT !.editing = Edit(s.editing, "to-normal")]
  <2>2. Run(r, s, "to-normal") = Synced(r, t)
    BY <2>1 DEF Run
  <2>a. Edit(s.editing, "to-normal") \in Editings /\ Edit(s.editing, "to-normal").waits = FALSE
    BY SessionUpdates, EditFacts
  <2>3. t.editing.waits = FALSE
    BY <2>a, SessionUpdates
  <2> QED
    BY <1>3, <2>2, <2>3
<1> QED
  BY <1>5, <1>6

\* apply_resolution
LEMMA AppliedFacts ==
  ASSUME NEW d, d.reducer \in Reducers, NEW s \in Sessions, IsLinked(d.reducer, s), CountMax \in Nat
  PROVE  /\ IsOutcome(d.reducer, Applied(d, s))
         /\ d.kind = "operation" => Applied(d, s) = Run(d.reducer, s, d.command)
         /\ d.kind \notin {"operation", "text"} => Applied(d, s).reducer = d.reducer
<1> DEFINE same == [reducer |-> d.reducer, session |-> s]
           back == [s EXCEPT !.line = "command"]
<1>1. IsOutcome(d.reducer, same)
  BY DEF IsOutcome
<1>2. CASE d.kind = "operation"
  BY <1>2, RunFacts DEF Applied
<1>3. CASE d.kind = "text" /\ s.line = "menu"
  <2>1. /\ back \in Sessions /\ back.line = "command" /\ back.question = s.question
    BY SessionUpdates DEF Lines
  <2>2. ContextOf(back).line = ContextOf(s).line
    BY <1>3, <2>1, ContextFacts
  <2>3. Applied(d, s) = [reducer |-> d.reducer, session |-> back]
    BY <1>3 DEF Applied
  <2> HIDE DEF back
  <2>4. IsLinked(d.reducer, back)
    BY <2>1, <2>2 DEF IsLinked
  <2> QED
    BY <1>3, <2>1, <2>3, <2>4 DEF IsOutcome
<1>4. CASE d.kind # "operation" /\ ~(d.kind = "text" /\ s.line = "menu")
  <2>1. Applied(d, s) = same
    BY <1>4 DEF Applied
  <2> QED
    BY <1>1, <1>4, <2>1
<1> QED
  BY <1>2, <1>3, <1>4

\* A cancel, and input that the terminal cannot name.
LEMMA CancelledFacts ==
  ASSUME NEW r \in Reducers, CountMax \in Nat, NEW d \in {Cancel(r), Unsupported(r)}
  PROVE  /\ d.reducer \in Reducers /\ d.reducer.context = r.context
         /\ GrammarIdle(d.reducer) /\ d.reducer.renewed = TRUE
         /\ r.operator = TRUE /\ (d = Unsupported(r) => ActiveScope(r) = "operator-pending")
              => d.kind = "operation" /\ d.command = "to-normal"
<1>1. /\ Reset(r) \in Reducers /\ Reset(r).context = r.context /\ GrammarIdle(Reset(r))
      /\ Reset(r).renewed = TRUE
  BY ResetFacts
<1>2. CASE d = Cancel(r)
  <2>1. d = Reduced(Reset(r), IF r.operator THEN "operation" ELSE "cancelled",
                    IF r.operator THEN "to-normal" ELSE "none")
    BY <1>2 DEF Cancel
  <2>2. /\ d.reducer = Reset(r) /\ d.kind = (IF r.operator THEN "operation" ELSE "cancelled")
        /\ d.command = (IF r.operator THEN "to-normal" ELSE "none")
    BY <2>1, ReducedFields
  <2> QED
    BY <1>1, <2>2
<1>3. CASE d = Unsupported(r)
  <2>1. CASE ActiveScope(r) = "operator-pending"
    <3>1. d = Reduced(Reset(r), "operation", "to-normal")
      BY <1>3, <2>1 DEF Unsupported
    <3> QED
      BY <1>1, <3>1, ReducedFields
  <2>2. CASE ActiveScope(r) # "operator-pending"
    <3>1. d = Reduced(Reset(r), "unbound", "none")
      BY <1>3, <2>2 DEF Unsupported
    <3> QED
      BY <1>1, <1>3, <2>2, <3>1, ReducedFields
  <2> QED
    BY <2>1, <2>2
<1> QED
  BY <1>2, <1>3

-----------------------------------------------------------------------------
(* The invariant of the keys. *)

\* What a command may be where it is decided: no scope that has the keys binds
\* an operator below a line, or a register behind an operator.
Allowed(r, command) ==
  (command = "operator" => IsOpen(r.context)) /\ (command = "register" => r.operator = FALSE)

IsHeld(d) == d \in [kind : {d.kind}, command : {d.command}, current : BOOLEAN, seen : {d.seen}]

KeyShapes ==
  hosted \in BOOLEAN /\ reducer \in Reducers /\ session \in Sessions /\ IsPending(prefix) /\ IsHeld(held)
HeldIsAllowed ==
  held.current = TRUE => held.seen = Seen(reducer) /\ (held.kind = "command" => Allowed(reducer, held.command))
PrefixIsInOrder == prefix.current = TRUE => prefix.order = ScopeOrder(reducer)
LastIsReset == last \in {"unbound", "cancelled", "unsupported"} => GrammarIdle(reducer)

KeyInductive ==
  /\ KeyShapes /\ HeldIsAllowed /\ PrefixIsInOrder /\ LastIsReset
  /\ OperatorIsOpen(reducer) /\ IsLinked(reducer, session)

\* What an action may make of the reducer and the session.
Follows(result) ==
  /\ result.reducer \in Reducers /\ result.session \in Sessions
  /\ result.reducer.renewed = FALSE => SameGeneration(reducer, result.reducer)
  /\ OperatorIsOpen(result.reducer) /\ IsLinked(result.reducer, result.session)

LEMMA AllowedInTheGeneration ==
  ASSUME NEW r, NEW q, SameGeneration(r, q), NEW command, Allowed(r, command)
  PROVE  Allowed(q, command)
BY DEF Allowed, SameGeneration, IsOpen

\* A command that a scope of the published order binds is allowed.
LEMMA BoundIsAllowed ==
  ASSUME NEW r \in Reducers, OperatorIsOpen(r), NEW command,
         NEW s \in ScopesOf(ScopeOrder(r)) \ {"global"}, NEW b \in Bindings(s), b.command = command
  PROVE  Allowed(r, command)
<1>1. s \in {"picker", ActiveScope(r)}
  BY OrderIsShort
<1>2. ASSUME command = "operator", ~IsOpen(r.context) PROVE FALSE
  <2>1. s \in {"picker", "prompt", "confirmation"}
    BY <1>1, <1>2, ScopeIsKnown
  <2> QED
    BY <1>2, <2>1, LinesBindNoOperator
<1>3. ASSUME command = "register", r.operator = TRUE PROVE FALSE
  <2>1. IsOpen(r.context) /\ r.register # "selecting"
    BY <1>3 DEF OperatorIsOpen
  <2>2. r.context.mode \in Modes
    BY DEF Reducers, Contexts
  <2>3. ActiveScope(r) = "operator-pending"
    BY <1>3, <2>1, <2>2 DEF ActiveScope, OwningScope, IsOpen, Modes
  <2> QED
    BY <1>1, <1>3, <2>3, LinesBindNoOperator
<1>4. r.operator \in BOOLEAN
  BY ReducerFields
<1> QED
  BY <1>2, <1>3, <1>4 DEF Allowed

LEMMA ReductionIsOpen ==
  ASSUME NEW r \in Reducers, OperatorIsOpen(r), NEW command, Allowed(r, command), NEW d, IsReduction(r, d, command)
  PROVE  OperatorIsOpen(d.reducer)
BY DEF OperatorIsOpen, Allowed, IsReduction

LEMMA LinkedContext ==
  ASSUME NEW r, NEW q, q.context = r.context, NEW s, IsLinked(r, s)
  PROVE  IsLinked(q, s)
BY DEF IsLinked

\* The session runs what the reducer made of an answer.
LEMMA AppliedFollows ==
  ASSUME KeyInductive, CountMax \in Nat, NEW command, Allowed(reducer, command),
         NEW d, IsReduction(Fresh, d, command)
  PROVE  LET result == Applied(d, session) IN
         /\ Follows(result)
         /\ d.kind = "unbound" => GrammarIdle(result.reducer)
<1> DEFINE result == Applied(d, session)
<1>1. /\ reducer \in Reducers /\ session \in Sessions /\ OperatorIsOpen(reducer) /\ IsLinked(reducer, session)
  BY DEF KeyInductive, KeyShapes
<1>2. /\ Fresh \in Reducers /\ SameGeneration(reducer, Fresh) /\ Fresh.context = reducer.context
      /\ OperatorIsOpen(Fresh) /\ Allowed(Fresh, command)
  BY <1>1, FreshFacts, AllowedInTheGeneration DEF SameGeneration, OperatorIsOpen
<1>3. /\ d.reducer \in Reducers /\ d.reducer.context = Fresh.context /\ OperatorIsOpen(d.reducer)
      /\ d.reducer.renewed = FALSE => SameGeneration(Fresh, d.reducer)
      /\ d.kind = "unbound" => GrammarIdle(d.reducer)
  BY <1>2, ReductionIsOpen DEF IsReduction
<1>4. IsLinked(d.reducer, session)
  BY <1>1, <1>2, <1>3, LinkedContext
<1>5. IsOutcome(d.reducer, result) /\ (d.kind \notin {"operation", "text"} => result.reducer = d.reducer)
  BY <1>1, <1>3, <1>4, AppliedFacts
<1> HIDE DEF result
<1>6. OperatorIsOpen(result.reducer)
  BY <1>3, <1>5 DEF IsOutcome, OperatorIsOpen, GrammarIdle
<1>7. result.reducer.renewed = FALSE => SameGeneration(reducer, result.reducer)
  BY <1>2, <1>3, <1>5 DEF IsOutcome, SameGeneration
<1>8. Follows(result)
  BY <1>5, <1>6, <1>7 DEF Follows, IsOutcome
<1> QED
  BY <1>3, <1>5, <1>8 DEF result

\* Another session, and the context that it publishes.
LEMMA SyncedFollows ==
  ASSUME KeyInductive, CountMax \in Nat, NEW s \in Sessions,
         NEW r \in {Fresh, Reset(Fresh)}
  PROVE  Follows(Synced(r, s))
<1>1. reducer \in Reducers /\ OperatorIsOpen(reducer)
  BY DEF KeyInductive, KeyShapes
<1>2. Fresh \in Reducers /\ SameGeneration(reducer, Fresh) /\ OperatorIsOpen(Fresh)
  BY <1>1, FreshFacts DEF SameGeneration, OperatorIsOpen
<1>3. /\ r \in Reducers /\ OperatorIsOpen(r) /\ (r.renewed = FALSE => SameGeneration(reducer, r))
  BY <1>2, ResetFacts DEF GrammarIdle, OperatorIsOpen
<1>4. IsOutcome(r, Synced(r, s))
  BY <1>3, SyncedFacts
<1>5. OperatorIsOpen(Synced(r, s).reducer)
  BY <1>3, <1>4 DEF IsOutcome, OperatorIsOpen, GrammarIdle
<1> QED
  BY <1>3, <1>4, <1>5 DEF Follows, IsOutcome

LEMMA OutdatedFacts ==
  ASSUME NEW d, IsHeld(d), NEW r \in Reducers, NEW q, q = Outdated(d, r)
  PROVE  /\ IsHeld(q) /\ q.kind = d.kind /\ q.command = d.command /\ q.seen = d.seen
         /\ q.current = TRUE => d.current = TRUE /\ r.renewed = FALSE
<1> DEFINE flag == d.current /\ ~r.renewed
           o == [d EXCEPT !.current = flag]
<1>1. flag \in BOOLEAN /\ (flag = TRUE => d.current = TRUE /\ r.renewed = FALSE)
  BY ReducerFields DEF IsHeld
<1>2. q = o
  BY DEF Outdated
<1> HIDE DEF flag
<1>3. o \in [kind : {d.kind}, command : {d.command}, current : BOOLEAN, seen : {d.seen}] /\ o.current = flag
  BY <1>1 DEF IsHeld
<1> HIDE DEF o
<1>4. o.kind = d.kind /\ o.command = d.command /\ o.seen = d.seen
  BY <1>3
<1> QED
  BY <1>1, <1>2, <1>3, <1>4 DEF IsHeld

LEMMA PrefixAfterFacts ==
  ASSUME NEW p, IsPending(p), NEW r \in Reducers
  PROVE  LET q == PrefixAfter(p, r) IN
         /\ IsPending(q)
         /\ q.current = TRUE => p.current = TRUE /\ r.renewed = FALSE /\ q.order = p.order
<1> DEFINE flag == p.current /\ ~r.renewed
           q == [p EXCEPT !.current = flag]
<1>1. CASE hosted
  <2>0. p \in Prefixes
    BY DEF IsPending
  <2>1. flag \in BOOLEAN /\ (flag = TRUE => p.current = TRUE /\ r.renewed = FALSE)
    BY <2>0, ReducerFields DEF Prefixes
  <2>2. PrefixAfter(p, r) = q
    BY <1>1 DEF PrefixAfter
  <2> HIDE DEF flag
  <2>3. q \in Prefixes /\ q.current = flag /\ q.keys = p.keys /\ q.order = p.order /\ q.owner = p.owner
    BY <2>0, <2>1 DEF Prefixes
  <2> HIDE DEF q
  <2>4. IsPending(q)
    BY <2>3 DEF IsPending
  <2> QED
    BY <2>1, <2>2, <2>3, <2>4
<1>2. CASE ~hosted
  BY <1>2, NoPrefixIsPending DEF PrefixAfter
<1> QED
  BY <1>1, <1>2

\* Every action that reduces something leaves the rest in step with it.
LEMMA LeavesKeeps ==
  ASSUME KeyInductive, NEW p, IsPending(p), p.current = TRUE => p.order = ScopeOrder(reducer),
         NEW result, Follows(result), NEW input,
         input \in {"unbound", "cancelled", "unsupported"} => GrammarIdle(result.reducer),
         Leaves(p, result, input)
  PROVE  KeyInductive'
<1>1. /\ reducer' = result.reducer /\ session' = result.session /\ hosted' = hosted /\ last' = input
      /\ prefix' = PrefixAfter(p, result.reducer) /\ held' = Outdated(held, result.reducer)
  BY DEF Leaves
<1>2. /\ reducer \in Reducers /\ reducer' \in Reducers /\ session' \in Sessions /\ reducer'.renewed \in BOOLEAN
      /\ reducer'.renewed = FALSE => SameGeneration(reducer, reducer')
      /\ OperatorIsOpen(reducer)' /\ IsLinked(reducer, session)'
  <2>1. OperatorIsOpen(result.reducer) /\ IsLinked(result.reducer, result.session)
    BY DEF Follows
  <2> QED
    BY <1>1, <2>1, ReducerFields DEF Follows, KeyInductive, KeyShapes, OperatorIsOpen, IsLinked, ContextOf
<1>3. IsHeld(held) /\ HeldIsAllowed /\ hosted \in BOOLEAN
  BY DEF KeyInductive, KeyShapes
<1>4. IsHeld(held') /\ HeldIsAllowed'
  <2>1. /\ IsHeld(held') /\ held'.kind = held.kind /\ held'.command = held.command /\ held'.seen = held.seen
        /\ held'.current = TRUE => held.current = TRUE /\ reducer'.renewed = FALSE
    <3>1. result.reducer \in Reducers
      BY <1>1, <1>2
    <3>2. held' = Outdated(held, result.reducer)
      BY <1>1
    <3>3. IsHeld(held') /\ held'.kind = held.kind /\ held'.command = held.command /\ held'.seen = held.seen
      BY <1>3, <3>1, <3>2, OutdatedFacts
    <3>4. held'.current = TRUE => held.current = TRUE /\ result.reducer.renewed = FALSE
      BY <1>3, <3>1, <3>2, OutdatedFacts
    <3> QED
      BY <1>1, <3>3, <3>4
  <2>2. ASSUME held'.current = TRUE
        PROVE  held'.seen = Seen(reducer') /\ (held'.kind = "command" => Allowed(reducer', held'.command))
    <3>1. SameGeneration(reducer, reducer') /\ held.current = TRUE
      BY <1>2, <2>1, <2>2
    <3>2. Seen(reducer') = Seen(reducer)
      BY <1>2, <3>1, SeenIsOfTheGeneration
    <3> QED
      BY <1>3, <2>1, <3>1, <3>2, AllowedInTheGeneration DEF HeldIsAllowed
  <2> QED
    BY <2>1, <2>2 DEF HeldIsAllowed
<1>5. IsPending(prefix') /\ PrefixIsInOrder'
  <2>1. /\ IsPending(prefix')
        /\ prefix'.current = TRUE => p.current = TRUE /\ reducer'.renewed = FALSE /\ prefix'.order = p.order
    <3>1. result.reducer \in Reducers
      BY <1>1, <1>2
    <3> DEFINE q == PrefixAfter(p, result.reducer)
    <3>2. /\ IsPending(q)
          /\ q.current = TRUE => p.current = TRUE /\ result.reducer.renewed = FALSE /\ q.order = p.order
      BY <3>1, PrefixAfterFacts
    <3> HIDE DEF q
    <3>3. prefix' = q
      BY <1>1 DEF q
    <3> QED
      BY <1>1, <3>2, <3>3
  <2>2. ASSUME prefix'.current = TRUE PROVE prefix'.order = ScopeOrder(reducer')
    <3>1. SameGeneration(reducer, reducer')
      BY <1>2, <2>1, <2>2
    <3> QED
      BY <1>2, <2>1, <2>2, <3>1, SeenIsOfTheGeneration
  <2>3. ScopeOrder(reducer') = (ScopeOrder(reducer))'
    BY <1>1 DEF ScopeOrder
  <2> QED
    BY <2>1, <2>2, <2>3 DEF PrefixIsInOrder
<1> QED
  BY <1>1, <1>2, <1>3, <1>4, <1>5 DEF KeyInductive, KeyShapes, LastIsReset, IsHeld, IsPending

\* What one dispatch of the shared resolver finds (dispatch).
LEMMA DispatchedFacts ==
  ASSUME KeyInputAssumption, KeyInductive, NEW key \in Keys
  PROVE  LET found == Dispatched(prefix, ScopeOrder(reducer), key, TextFallback(ActiveScope(reducer))) IN
         /\ IsPending(found.prefix)
         /\ found.prefix.current = TRUE => found.prefix.order = ScopeOrder(reducer)
         /\ found.answer.kind \in {"host", "command", "pending", "text", "unbound", "interrupted"}
         /\ found.answer.kind = "command" => Allowed(reducer, found.answer.command)
<1> DEFINE order == ScopeOrder(reducer)
           p == IF SameContext(prefix, order) THEN prefix ELSE NoPrefix
           fallback == TextFallback(ActiveScope(reducer))
           found == Resolve(p, order, key, fallback)
<1>1. /\ reducer \in Reducers /\ IsPending(prefix) /\ OperatorIsOpen(reducer)
  BY DEF KeyInductive, KeyShapes
<1>2. order \in Seq(Scopes) /\ Len(order) <= 3
  BY <1>1, OrderIsShort
<1>3. IsPending(p) /\ (p.keys # <<>> => p.order = order)
  <2>1. NoPrefix.keys = <<>>
    BY DEF NoPrefix
  <2> QED
    BY <1>1, <2>1, NoPrefixIsPending DEF SameContext
<1> HIDE DEF p, order, fallback
<1>4. /\ IsPending(found.prefix) /\ (found.prefix.current => found.prefix.order = order)
      /\ found.answer.kind \in {"host", "command", "pending", "text", "unbound", "interrupted"}
      /\ found.answer.kind = "command" =>
           \E s \in ScopesOf(order) \ {"global"} : \E b \in Bindings(s) : found.answer.command = b.command
  <2>1. fallback \in BOOLEAN
    BY DEF fallback, TextFallback
  <2>2. ASSUME NEW flag \in BOOLEAN PROVE IsPending(Resolve(p, order, key, flag).prefix)
    BY <1>2, <1>3, ResolvedFacts
  <2>3. ASSUME NEW flag \in BOOLEAN
        PROVE  LET it == Resolve(p, order, key, flag) IN it.prefix.current => it.prefix.order = order
    BY <1>2, <1>3, ResolvedFacts
  <2>4. ASSUME NEW flag \in BOOLEAN
        PROVE  Resolve(p, order, key, flag).answer.kind
                 \in {"host", "command", "pending", "text", "unbound", "interrupted"}
    BY <1>2, <1>3, ResolvedFacts
  <2>5. ASSUME NEW flag \in BOOLEAN
        PROVE  LET it == Resolve(p, order, key, flag) IN it.answer.kind = "command" =>
                 \E s \in ScopesOf(order) \ {"global"} : \E b \in Bindings(s) : it.answer.command = b.command
    BY <1>2, <1>3, ResolvedFacts
  <2> QED
    BY <2>1, <2>2, <2>3, <2>4, <2>5
<1> HIDE DEF found
<1>5. found.answer.kind = "command" => Allowed(reducer, found.answer.command)
  BY <1>1, <1>4, BoundIsAllowed DEF order
<1>6. Dispatched(prefix, order, key, TextFallback(ActiveScope(reducer))) = found
  BY DEF Dispatched, found, p, fallback
<1> QED
  BY <1>4, <1>5, <1>6 DEF order

LEMMA KeyInit_Inductive ==
  ASSUME KeyInputAssumption, KeyInit
  PROVE  KeyInductive
<1>1. session \in Sessions
  BY DEF KeyInit, NewEditing, Sessions, Lines, Modes
<1>2. ContextOf(session) \in Contexts
  BY <1>1, ContextFacts
<1>3. /\ reducer \in Reducers /\ GrammarIdle(reducer) /\ reducer.context = ContextOf(session)
      /\ OperatorIsOpen(reducer)
  <2>1. CountMax \in Nat
    BY DEF KeyInputAssumption
  <2> QED
    BY <1>2, <2>1 DEF KeyInit, Reducers, GrammarIdle, OperatorIsOpen
<1>4. IsLinked(reducer, session)
  BY <1>1, <1>3, ContextFacts DEF IsLinked
<1>5. IsHeld(held) /\ held.current = FALSE
  BY DEF KeyInit, NoDecision, IsHeld
<1>6. IsPending(prefix) /\ ~prefix.current /\ hosted \in BOOLEAN /\ last = "none"
  BY NoPrefixIsPending DEF KeyInit
<1> QED
  BY <1>1, <1>3, <1>4, <1>5, <1>6
  DEF KeyInductive, KeyShapes, HeldIsAllowed, PrefixIsInOrder, LastIsReset

\* The decisions that a host takes and returns.
LEMMA DecisionFacts ==
  ASSUME NEW kind, NEW command
  PROVE  /\ IsHeld(Decision(kind, command)) /\ Decision(kind, command).kind = kind
         /\ Decision(kind, command).command = command /\ Decision(kind, command).seen = Seen(reducer)
         /\ IsHeld(NoDecision) /\ NoDecision.current = FALSE
BY DEF Decision, NoDecision, IsHeld

\* A step that leaves the reducer, the session and the prefix alone.
LEMMA HostStepKeeps ==
  ASSUME KeyInductive, UNCHANGED <<hosted, reducer, session>>,
         IsPending(prefix'), prefix'.current = TRUE => prefix'.order = ScopeOrder(reducer),
         IsHeld(held'),
         held'.current = TRUE => held'.seen = Seen(reducer),
         held'.current = TRUE /\ held'.kind = "command" => Allowed(reducer, held'.command),
         last' \notin {"unbound", "cancelled", "unsupported"}
  PROVE  KeyInductive'
<1>1. ScopeOrder(reducer)' = ScopeOrder(reducer) /\ Seen(reducer)' = Seen(reducer)
  BY DEF ScopeOrder, Seen, ActiveScope
<1> QED
  BY <1>1 DEF KeyInductive, KeyShapes, HeldIsAllowed, PrefixIsInOrder, LastIsReset, OperatorIsOpen, IsLinked,
              IsHeld, IsPending, Allowed, ContextOf

\* A cancel resets the grammar, whatever the session then runs.
LEMMA CancelFollows ==
  ASSUME KeyInductive, CountMax \in Nat, NEW d \in {Cancel(Fresh), Unsupported(Fresh)}
  PROVE  LET result == Applied(d, session) IN Follows(result) /\ GrammarIdle(result.reducer)
<1> DEFINE result == Applied(d, session)
<1>1. reducer \in Reducers /\ session \in Sessions /\ IsLinked(reducer, session)
  BY DEF KeyInductive, KeyShapes
<1>2. Fresh \in Reducers /\ Fresh.context = reducer.context
  BY <1>1, FreshFacts DEF SameGeneration
<1>3. /\ d.reducer \in Reducers /\ d.reducer.context = reducer.context
      /\ GrammarIdle(d.reducer) /\ d.reducer.renewed = TRUE
  BY <1>2, CancelledFacts
<1>4. IsLinked(d.reducer, session)
  BY <1>1, <1>3, LinkedContext
<1>5. IsOutcome(d.reducer, result)
  BY <1>1, <1>3, <1>4, AppliedFacts
<1> HIDE DEF result
<1>6. GrammarIdle(result.reducer) /\ result.reducer.renewed = TRUE
  BY <1>3, <1>5 DEF IsOutcome
<1> QED
  BY <1>5, <1>6 DEF IsOutcome, Follows, OperatorIsOpen, GrammarIdle, result

\* A decision that was submitted is held no longer.
LEMMA SubmitKeeps ==
  ASSUME KeyInductive, NEW result, Follows(result),
         reducer' = result.reducer, session' = result.session, UNCHANGED hosted,
         prefix' = PrefixAfter(prefix, result.reducer), held' = NoDecision,
         last' \notin {"cancelled", "unsupported"}, last' = "unbound" => GrammarIdle(result.reducer)
  PROVE  KeyInductive'
<1>1. /\ reducer \in Reducers /\ IsPending(prefix) /\ PrefixIsInOrder /\ hosted \in BOOLEAN
      /\ IsHeld(NoDecision) /\ NoDecision.current = FALSE
  BY DecisionFacts DEF KeyInductive, KeyShapes
<1>2. /\ reducer' \in Reducers /\ session' \in Sessions /\ reducer'.renewed \in BOOLEAN
      /\ reducer'.renewed = FALSE => SameGeneration(reducer, reducer')
      /\ OperatorIsOpen(reducer)' /\ IsLinked(reducer, session)'
  <2>1. OperatorIsOpen(result.reducer) /\ IsLinked(result.reducer, result.session)
    BY DEF Follows
  <2> QED
    BY <2>1, ReducerFields DEF Follows, OperatorIsOpen, IsLinked, ContextOf
<1>3. IsPending(prefix') /\ PrefixIsInOrder'
  <2>1. /\ IsPending(prefix')
        /\ prefix'.current = TRUE => prefix.current = TRUE /\ reducer'.renewed = FALSE /\ prefix'.order = prefix.order
    <3>1. result.reducer \in Reducers
      BY DEF Follows
    <3> DEFINE q == PrefixAfter(prefix, result.reducer)
    <3>2. /\ IsPending(q)
          /\ q.current = TRUE => prefix.current = TRUE /\ result.reducer.renewed = FALSE /\ q.order = prefix.order
      BY <1>1, <3>1, PrefixAfterFacts
    <3> HIDE DEF q
    <3>3. prefix' = q
      BY DEF q
    <3> QED
      BY <3>2, <3>3
  <2>2. ASSUME prefix'.current = TRUE PROVE prefix'.order = ScopeOrder(reducer')
    <3>1. SameGeneration(reducer, reducer')
      BY <1>2, <2>1, <2>2
    <3> QED
      BY <1>1, <1>2, <2>1, <2>2, <3>1, SeenIsOfTheGeneration DEF PrefixIsInOrder
  <2>3. ScopeOrder(reducer') = (ScopeOrder(reducer))'
    BY DEF ScopeOrder
  <2> QED
    BY <2>1, <2>2, <2>3 DEF PrefixIsInOrder
<1> QED
  BY <1>1, <1>2, <1>3
  DEF KeyInductive, KeyShapes, HeldIsAllowed, LastIsReset, IsHeld, IsPending

\* The cancel that a host submits: the question, the line, then the grammar.
LEMMA CancelPendingFollows ==
  ASSUME KeyInductive, CountMax \in Nat
  PROVE  Follows(CancelPending(Fresh, session))
<1> DEFINE answered == IF session.question THEN Synced(Fresh, [session EXCEPT !.question = FALSE])
                       ELSE [reducer |-> Fresh, session |-> session]
           closed == IF session.line # "none"
                     THEN Synced(answered.reducer, [answered.session EXCEPT !.line = LineAfter(session, "cancel")])
                     ELSE answered
           d == Cancel(closed.reducer)
           result == Applied(d, closed.session)
<1>1. reducer \in Reducers /\ session \in Sessions /\ IsLinked(reducer, session)
  BY DEF KeyInductive, KeyShapes
<1>2. Fresh \in Reducers /\ IsLinked(Fresh, session)
  BY <1>1, FreshFacts, LinkedContext DEF SameGeneration
<1>3. /\ answered.reducer \in Reducers /\ answered.session \in Sessions
      /\ IsLinked(answered.reducer, answered.session)
  <2>1. IsOutcome(Fresh, Synced(Fresh, [session EXCEPT !.question = FALSE]))
    BY <1>1, <1>2, SessionUpdates, SyncedFacts
  <2> QED
    BY <1>1, <1>2, <2>1 DEF IsOutcome
<1> HIDE DEF answered
<1>4. closed.reducer \in Reducers /\ closed.session \in Sessions /\ IsLinked(closed.reducer, closed.session)
  <2> DEFINE s == [answered.session EXCEPT !.line = LineAfter(session, "cancel")]
  <2>1. s \in Sessions
    BY <1>1, <1>3, LineAfterFacts, SessionUpdates
  <2> HIDE DEF s
  <2>2. IsOutcome(answered.reducer, Synced(answered.reducer, s))
    BY <1>3, <2>1, SyncedFacts
  <2> QED
    BY <1>3, <2>2 DEF IsOutcome, s
<1> HIDE DEF closed
<1>5. /\ d.reducer \in Reducers /\ d.reducer.context = closed.reducer.context
      /\ GrammarIdle(d.reducer) /\ d.reducer.renewed = TRUE
  BY <1>4, CancelledFacts
<1>6. IsLinked(d.reducer, closed.session)
  BY <1>4, <1>5, LinkedContext
<1> HIDE DEF d
<1>7. IsOutcome(d.reducer, result)
  BY <1>4, <1>5, <1>6, AppliedFacts
<1>8. CancelPending(Fresh, session) = result
  BY DEF CancelPending, result, d, closed, answered
<1> HIDE DEF result
<1>9. GrammarIdle(result.reducer) /\ result.reducer.renewed = TRUE
  BY <1>5, <1>7 DEF IsOutcome
<1> QED
  BY <1>7, <1>8, <1>9 DEF IsOutcome, Follows, OperatorIsOpen, GrammarIdle

LEMMA KeyStep ==
  ASSUME KeyInputAssumption, KeyInductive, [KeyNext]_keyVars
  PROVE  KeyInductive'
<1>0. /\ CountMax \in Nat /\ reducer \in Reducers /\ session \in Sessions /\ OperatorIsOpen(reducer)
      /\ IsPending(prefix) /\ (prefix.current = TRUE => prefix.order = ScopeOrder(reducer)) /\ IsHeld(held)
      /\ held.current = TRUE => held.seen = Seen(reducer)
      /\ held.current = TRUE /\ held.kind = "command" => Allowed(reducer, held.command)
      /\ IsLinked(reducer, session)
  BY DEF KeyInputAssumption, KeyInductive, KeyShapes, HeldIsAllowed, PrefixIsInOrder
<1>n. Allowed(reducer, "none")
  BY DEF Allowed
<1>u. CASE UNCHANGED keyVars
  BY <1>u DEF keyVars, KeyInductive, KeyShapes, HeldIsAllowed, PrefixIsInOrder, LastIsReset, OperatorIsOpen,
              IsLinked, IsHeld, IsPending, Allowed, ContextOf, ScopeOrder, Seen, ActiveScope
<1>1. ASSUME NEW key \in Keys, Press(key) PROVE KeyInductive'
  <2> DEFINE found == Dispatched(prefix, ScopeOrder(reducer), key, TextFallback(ActiveScope(reducer)))
             command == IF found.answer.kind = "command" THEN found.answer.command ELSE "none"
             d == Reduce(Fresh, found.answer)
             result == Applied(d, session)
  <2>1. Leaves(found.prefix, result, d.kind)
    BY <1>1 DEF Press
  <2>2. /\ IsPending(found.prefix)
        /\ found.prefix.current = TRUE => found.prefix.order = ScopeOrder(reducer)
        /\ found.answer.kind = "command" => Allowed(reducer, found.answer.command)
    BY DispatchedFacts
  <2> HIDE DEF found
  <2>3. Allowed(reducer, command)
    BY <1>n, <2>2
  <2>4. IsReduction(Fresh, d, command)
    BY <1>0, FreshFacts, ReduceIsReduction
  <2> HIDE DEF command, d
  <2>5. Follows(result) /\ (d.kind = "unbound" => GrammarIdle(result.reducer))
    BY <1>0, <2>3, <2>4, AppliedFollows
  <2>6. d.kind \notin {"cancelled", "unsupported"}
    BY <2>4 DEF IsReduction, Kinds
  <2> HIDE DEF result
  <2> QED
    BY <2>1, <2>2, <2>5, <2>6, LeavesKeeps
<1>2. ASSUME NEW key \in Keys, Decide(key) PROVE KeyInductive'
  <2> DEFINE found == Dispatched(prefix, ScopeOrder(reducer), key, TextFallback(ActiveScope(reducer)))
             q == Decision(found.answer.kind, found.answer.command)
  <2>1. /\ prefix' = found.prefix /\ (held' = NoDecision \/ held' = q) /\ last' = "decided"
        /\ UNCHANGED <<hosted, reducer, session>>
    BY <1>2 DEF Decide
  <2>2. /\ IsPending(found.prefix)
        /\ found.prefix.current = TRUE => found.prefix.order = ScopeOrder(reducer)
        /\ found.answer.kind = "command" => Allowed(reducer, found.answer.command)
    BY DispatchedFacts
  <2> HIDE DEF found
  <2>3. /\ IsHeld(q) /\ q.kind = found.answer.kind /\ q.command = found.answer.command
        /\ q.seen = Seen(reducer) /\ IsHeld(NoDecision) /\ NoDecision.current = FALSE
    <3>1. IsHeld(q) /\ IsHeld(NoDecision) /\ NoDecision.current = FALSE
      BY DecisionFacts
    <3>2. q.kind = found.answer.kind /\ q.command = found.answer.command /\ q.seen = Seen(reducer)
      BY DEF Decision
    <3> QED
      BY <3>1, <3>2
  <2> HIDE DEF q
  <2> QED
    BY <2>1, <2>2, <2>3, HostStepKeeps
<1>3. CASE PressCancel
  <2> DEFINE d == Cancel(Fresh)
             result == Applied(d, session)
  <2>1. Leaves(NoPrefix, result, "cancelled")
    BY <1>3 DEF PressCancel
  <2>2. Follows(result) /\ GrammarIdle(result.reducer)
    BY <1>0, CancelFollows
  <2> HIDE DEF result
  <2> QED
    BY <2>1, <2>2, NoPrefixIsPending, LeavesKeeps
<1>4. CASE PressUnsupported
  <2> DEFINE d == Unsupported(Fresh)
             result == Applied(d, session)
  <2>1. Leaves(NoPrefix, result, "unsupported")
    BY <1>4 DEF PressUnsupported
  <2>2. Follows(result) /\ GrammarIdle(result.reducer)
    BY <1>0, CancelFollows
  <2> HIDE DEF result
  <2> QED
    BY <2>1, <2>2, NoPrefixIsPending, LeavesKeeps
<1>5. CASE PressBack \/ HostBack
  <2> DEFINE result == [reducer |-> Fresh, session |-> session]
  <2>1. prefix.keys # <<>> /\ Leaves(Shortened(prefix), result, "back")
    BY <1>5 DEF PressBack, HostBack, StepBack
  <2>2. /\ IsPending(Shortened(prefix))
        /\ Shortened(prefix).current = TRUE => Shortened(prefix).order = ScopeOrder(reducer)
    BY <1>0, <2>1, ShortenedIsPending
  <2>3. Follows(result)
    <3>1. Fresh \in Reducers /\ SameGeneration(reducer, Fresh) /\ OperatorIsOpen(Fresh) /\ IsLinked(Fresh, session)
      BY <1>0, FreshFacts, LinkedContext DEF SameGeneration, OperatorIsOpen
    <3> QED
      BY <1>0, <3>1 DEF Follows
  <2> HIDE DEF result
  <2> QED
    BY <2>1, <2>2, <2>3, LeavesKeeps
<1>6. CASE Refused
  <2>1. /\ held' = NoDecision /\ last' = "refused" /\ UNCHANGED <<hosted, prefix, reducer, session>>
    BY <1>6 DEF Refused
  <2> QED
    BY <1>0, <2>1, DecisionFacts, HostStepKeeps
<1>7. CASE SubmitDecision
  <2> DEFINE pending == held.kind = "pending" /\ ~BindsTextObjects(ActiveScope(reducer))
             command == IF held.kind = "command" THEN held.command ELSE "none"
             d == IF pending THEN Reduced(Fresh, "prefix", "none") ELSE Reduce(Fresh, held)
             result == Applied(d, session)
  <2>1. /\ reducer' = result.reducer /\ session' = result.session
        /\ prefix' = PrefixAfter(prefix, result.reducer) /\ last' = d.kind
        /\ held' = NoDecision /\ UNCHANGED hosted /\ held.current = TRUE
    BY <1>0, <1>7 DEF SubmitDecision, Current, IsHeld
  <2>2. Allowed(reducer, command)
    BY <1>0, <1>n, <2>1
  <2>3. IsReduction(Fresh, d, command)
    <3>1. /\ IsReduction(Fresh, Reduce(Fresh, held), command)
          /\ IsReduction(Fresh, Reduced(Fresh, "prefix", "none"), "none")
      BY <1>0, FreshFacts, ReduceIsReduction
    <3>2. held.kind = "pending" => command = "none"
      OBVIOUS
    <3> QED
      BY <3>1, <3>2
  <2> HIDE DEF command, d
  <2>4. Follows(result) /\ (d.kind = "unbound" => GrammarIdle(result.reducer))
    BY <1>0, <2>2, <2>3, AppliedFollows
  <2>5. d.kind \notin {"cancelled", "unsupported"}
    BY <2>3 DEF IsReduction, Kinds
  <2> HIDE DEF result
  <2> QED
    BY <1>0, <2>1, <2>4, <2>5, SubmitKeeps
<1>8. CASE SubmitInterruption
  <2>1. CASE held' = NoDecision /\ last' = "refused" /\ UNCHANGED <<hosted, prefix, reducer, session>>
    BY <1>0, <2>1, DecisionFacts, HostStepKeeps
  <2>2. CASE /\ held' = [held EXCEPT !.kind = "proposal"] /\ last' = "proposed"
             /\ UNCHANGED <<hosted, prefix, reducer, session>>
    <3>1. /\ IsHeld(held') /\ held'.kind = "proposal" /\ held'.seen = held.seen /\ held'.current = held.current
      BY <1>0, <2>2 DEF IsHeld
    <3> QED
      BY <1>0, <2>2, <3>1, HostStepKeeps
  <2> QED
    BY <1>8, <2>1, <2>2 DEF SubmitInterruption
<1>9. CASE Propose
  <2>1. /\ held' = Decision("proposal", "none") /\ last' = "proposed"
        /\ UNCHANGED <<hosted, prefix, reducer, session>>
    BY <1>9 DEF Propose
  <2>2. IsHeld(held') /\ held'.kind = "proposal" /\ held'.seen = Seen(reducer)
    BY <2>1, DecisionFacts DEF Decision
  <2> QED
    BY <1>0, <2>1, <2>2, HostStepKeeps
<1>10. CASE SubmitCancel
  <2> DEFINE result == CancelPending(Fresh, session)
  <2>1. /\ reducer' = result.reducer /\ session' = result.session
        /\ prefix' = PrefixAfter(prefix, result.reducer) /\ last' = "resumed"
        /\ held' = NoDecision /\ UNCHANGED hosted
    BY <1>10 DEF SubmitCancel
  <2>2. Follows(result)
    BY <1>0, CancelPendingFollows
  <2> HIDE DEF result
  <2> QED
    BY <1>0, <2>1, <2>2, SubmitKeeps
<1>11. CASE Ask \/ AnswerQuestion
  <2>1. PICK question \in BOOLEAN : Leaves(prefix, Synced(Fresh, [session EXCEPT !.question = question]), "none")
    BY <1>11 DEF Ask, AnswerQuestion, Quietly
  <2> DEFINE s == [session EXCEPT !.question = question]
  <2>2. s \in Sessions
    BY <1>0, SessionUpdates
  <2> HIDE DEF s
  <2>3. Follows(Synced(Fresh, s))
    BY <1>0, <2>2, SyncedFollows
  <2> QED
    BY <1>0, <2>1, <2>3, LeavesKeeps DEF s
<1>12. CASE OpenCompletes
  <2> DEFINE s == [session EXCEPT !.editing = NewEditing]
             result == [reducer |-> Fresh, session |-> s]
  <2>1. Leaves(prefix, result, "none")
    BY <1>12 DEF OpenCompletes, Quietly
  <2>2. s \in Sessions /\ s.line = session.line /\ s.question = session.question
    <3>1. NewEditing \in Editings
      BY DEF NewEditing, Editings, Modes
    <3> QED
      BY <1>0, <3>1, SessionUpdates
  <2> HIDE DEF s
  <2>3. Fresh \in Reducers /\ SameGeneration(reducer, Fresh) /\ OperatorIsOpen(Fresh) /\ Fresh.context = reducer.context
    BY <1>0, FreshFacts DEF SameGeneration, OperatorIsOpen
  <2>4. IsLinked(Fresh, s)
    BY <1>0, <2>2, <2>3, ContextFacts DEF IsLinked
  <2>5. Follows(result)
    BY <2>2, <2>3, <2>4 DEF Follows
  <2> HIDE DEF result
  <2> QED
    BY <1>0, <2>1, <2>5, LeavesKeeps
<1>13. ASSUME NEW otherWindow \in BOOLEAN, NEW otherBuffer \in BOOLEAN, Click(otherWindow, otherBuffer)
       PROVE  KeyInductive'
  <2> DEFINE editing == IF otherBuffer THEN NewEditing
                        ELSE IF session.editing.mode = "visual" THEN [session.editing EXCEPT !.mode = "normal"]
                        ELSE session.editing
             s == [session EXCEPT !.editing = editing]
             r == IF otherWindow THEN Reset(Fresh) ELSE Fresh
             p == IF hosted \/ ~otherWindow THEN prefix ELSE NoPrefix
  <2>1. Leaves(p, Synced(r, s), "clicked")
    BY <1>13 DEF Click
  <2>2. s \in Sessions
    <3>1. NewEditing \in Editings /\ [session.editing EXCEPT !.mode = "normal"] \in Editings /\ session.editing \in Editings
      BY <1>0, SessionUpdates DEF NewEditing, Editings, Modes
    <3>2. editing \in Editings
      BY <3>1
    <3> HIDE DEF editing
    <3> QED
      BY <1>0, <3>2, SessionUpdates
  <2> HIDE DEF s
  <2>3. r \in {Fresh, Reset(Fresh)}
    OBVIOUS
  <2>4. IsPending(p) /\ (p.current = TRUE => p.order = ScopeOrder(reducer))
    BY <1>0, NoPrefixIsPending
  <2> HIDE DEF r, p
  <2>5. Follows(Synced(r, s))
    BY <1>0, <2>2, <2>3, SyncedFollows
  <2> QED
    BY <2>1, <2>4, <2>5, LeavesKeeps
<1> QED
  BY <1>u, <1>1, <1>2, <1>3, <1>4, <1>5, <1>6, <1>7, <1>8, <1>9, <1>10, <1>11, <1>12, <1>13 DEF KeyNext

\* The keys, the prefix, the reducer and the session stay in step, whatever is
\* typed, decided, asked and clicked, and in whatever order.
THEOREM KeyInvariance ==
  ASSUME KeyInputAssumption
  PROVE  KeySpec => []KeyInductive
<1>1. KeyInit => KeyInductive
  BY KeyInit_Inductive
<1>2. KeyInductive /\ [KeyNext]_keyVars => KeyInductive'
  BY KeyStep
<1> QED
  BY <1>1, <1>2, PTL DEF KeySpec

LEMMA ListedHintsAnswer ==
  ASSUME KeyInputAssumption, KeyInductive
  PROVE  HintsAnswer
<1> SUFFICES ASSUME SameContext(prefix, ScopeOrder(reducer)), prefix.keys # <<>>, NEW key \in Keys,
                    \/ \E s \in ScopesOf(prefix.order) : \E b \in Bindings(s) :
                         Len(prefix.keys) < Len(b.keys)
                         /\ SubSeq(b.keys, 1, Len(prefix.keys) + 1) = Append(prefix.keys, key)
                    \/ Completing(Preceding(prefix.order, prefix.owner), <<key>>) # {}
             PROVE  Dispatched(prefix, prefix.order, key, FALSE).answer.kind # "unbound"
  BY DEF HintsAnswer
<1> DEFINE order == prefix.order
           next == Append(prefix.keys, key)
<1>1. /\ IsPending(prefix) /\ prefix.keys \in Seq(Keys) /\ order \in Seq(Scopes) /\ Len(order) <= 3
  BY DEF KeyInductive, KeyShapes, IsPending, Prefixes
<1>2. Dispatched(prefix, order, key, FALSE) = Resolve(prefix, order, key, FALSE)
  BY DEF Dispatched, SameContext
<1>3. \/ Completing(order, next) # {} \/ Extending(order, next) # {}
      \/ Completing(Preceding(order, prefix.owner), <<key>>) # {}
  <2> SUFFICES ASSUME NEW s \in ScopesOf(order), NEW b \in Bindings(s), Len(prefix.keys) < Len(b.keys),
                      SubSeq(b.keys, 1, Len(prefix.keys) + 1) = next
               PROVE  Completes(s, next) \/ Extends(s, next)
    BY DEF Completing, Extending
  <2>1. b.keys \in Seq(Keys) /\ Len(b.keys) \in Nat /\ Len(prefix.keys) \in Nat
    BY <1>1, BindingsFit DEF Fits
  <2>2. Len(next) = Len(prefix.keys) + 1
    BY <1>1
  <2>3. CASE Len(b.keys) = Len(prefix.keys) + 1
    <3>1. SubSeq(b.keys, 1, Len(b.keys)) = b.keys
      BY <2>1
    <3> QED
      BY <2>3, <3>1 DEF Completes
  <2>4. CASE Len(b.keys) > Len(prefix.keys) + 1
    BY <2>2, <2>4 DEF Extends
  <2> QED
    BY <2>1, <2>3, <2>4
<1> HIDE DEF order, next
<1>4. Resolve(prefix, order, key, FALSE).answer.kind # "unbound"
  BY <1>1, <1>3, ResolvedFacts DEF next, order
<1> QED
  BY <1>2, <1>4 DEF order

\* What a key, a prefix and a decision promise, for every table of a host that
\* the registry takes and every bound of a count (dispatch, step_back, hints,
\* reduce, semantic_dispatch).
THEOREM KeyInputCorrect ==
  ASSUME KeyInputAssumption
  PROVE  KeySpec => []KeyInputInvariant
<1>1. KeyInductive => KeyInputInvariant
  <2> SUFFICES ASSUME KeyInductive PROVE KeyInputInvariant
    OBVIOUS
  <2>1. /\ reducer \in Reducers /\ session \in Sessions /\ IsPending(prefix) /\ IsHeld(held)
    BY DEF KeyInductive, KeyShapes
  <2>2. KeyTypes
    <3>1. prefix.owner \in {"none", "global", "picker", "normal", "visual", "operator-pending"}
      BY <2>1, PendingFacts DEF IsPending
    <3>2. reducer.count \in 0 .. CountMax /\ reducer.register \in {"empty", "selecting", "selected"}
      BY <2>1, ReducerFields
    <3> QED
      BY <2>1, <3>1, <3>2 DEF KeyTypes, Sessions, Lines
  <2>3. PrefixIsLive
    BY <2>1, PendingFacts DEF IsPending, PrefixIsLive
  <2>4. ResetIsComplete
    <3> DEFINE phases == Phases(reducer)
    <3>1. /\ phases["count"] = (reducer.count # 0) /\ phases["operator"] = reducer.operator
          /\ phases["register"] = (reducer.register # "empty") /\ phases["object"] = reducer.object
      BY Zenon DEF Phases
    <3> HIDE DEF phases
    <3>2. CASE last \in {"unbound", "cancelled", "unsupported"}
      <4>1. reducer.count = 0 /\ reducer.operator = FALSE /\ reducer.register = "empty" /\ reducer.object = FALSE
        BY <3>2 DEF KeyInductive, LastIsReset, GrammarIdle
      <4>2. ~phases["count"] /\ ~phases["operator"] /\ ~phases["register"] /\ ~phases["object"]
        BY <3>1, <4>1, Zenon
      <4> QED
        BY <4>2, Zenon DEF ResetIsComplete, phases
    <3> QED
      BY <3>2, Zenon DEF ResetIsComplete
  <2>5. CurrentMeansUnchanged
    BY DEF KeyInductive, HeldIsAllowed, PrefixIsInOrder, CurrentMeansUnchanged
  <2> QED
    BY <2>2, <2>3, <2>4, <2>5, ListedHintsAnswer DEF KeyInputInvariant
<1> QED
  BY KeyInvariance, <1>1, PTL

\* The operator that a cancel takes from the reducer ends in the editor too.
LEMMA TakenOperatorEnds ==
  ASSUME KeyInductive, CountMax \in Nat, reducer.operator = TRUE, NEW d \in {Cancel(Fresh), Unsupported(Fresh)}
  PROVE  Applied(d, session).session.editing.waits = FALSE
<1>1. /\ reducer \in Reducers /\ session \in Sessions /\ IsLinked(reducer, session)
      /\ IsOpen(reducer.context) /\ reducer.register # "selecting"
  BY DEF KeyInductive, KeyShapes, OperatorIsOpen
<1>2. Fresh \in Reducers /\ Fresh.context = reducer.context /\ Fresh.operator = TRUE /\ Fresh.register # "selecting"
  BY <1>1, FreshFacts DEF SameGeneration
<1>3. ActiveScope(Fresh) = "operator-pending"
  <2>1. Fresh.context.mode \notin {"prompt", "confirmation"}
    BY <1>2 DEF Reducers, Contexts, Modes
  <2>2. OwningScope(Fresh.context) = Fresh.context.mode
    BY <1>1, <1>2 DEF OwningScope, IsOpen
  <2> QED
    BY <1>2, <2>1, <2>2 DEF ActiveScope
<1>4. /\ d.reducer \in Reducers /\ d.reducer.context = reducer.context
      /\ d.kind = "operation" /\ d.command = "to-normal"
  BY <1>2, <1>3, CancelledFacts
<1>5. IsLinked(d.reducer, session)
  BY <1>1, <1>4, LinkedContext
<1>6. Applied(d, session) = Run(d.reducer, session, "to-normal")
  BY <1>1, <1>4, <1>5, AppliedFacts
<1> QED
  BY <1>1, <1>4, <1>5, <1>6, RunFacts

\* A host cancels an operator behind no question and no line.
LEMMA CancelPendingIsCancel ==
  ASSUME KeyInductive, reducer.operator = TRUE
  PROVE  CancelPending(Fresh, session) = Applied(Cancel(Fresh), session)
<1>1. /\ session \in Sessions /\ IsLinked(reducer, session) /\ IsOpen(reducer.context)
  BY DEF KeyInductive, KeyShapes, OperatorIsOpen
<1>2. session.question = FALSE /\ session.line = "none"
  BY <1>1, ContextFacts, SessionUpdates DEF IsOpen, IsLinked, Lines
<1> QED
  BY <1>2 DEF CancelPending

\* What CancelReachesEditor says of one step.
CancelEnds ==
  last' \in {"cancelled", "unsupported", "resumed"} /\ reducer.operator => ~session'.editing.waits

LEMMA CancelStep ==
  ASSUME KeyInputAssumption, KeyInductive, KeyNext
  PROVE  CancelEnds
<1> SUFFICES ASSUME last' \in {"cancelled", "unsupported", "resumed"}, reducer.operator = TRUE
             PROVE  session'.editing.waits = FALSE
  BY DEF CancelEnds, KeyInductive, KeyShapes, Reducers
<1>0. CountMax \in Nat /\ reducer \in Reducers /\ session \in Sessions
  BY DEF KeyInputAssumption, KeyInductive, KeyShapes
<1>1. ASSUME NEW key \in Keys, Press(key) PROVE FALSE
  <2> DEFINE found == Dispatched(prefix, ScopeOrder(reducer), key, TextFallback(ActiveScope(reducer)))
             command == IF found.answer.kind = "command" THEN found.answer.command ELSE "none"
             d == Reduce(Fresh, found.answer)
  <2>1. last' = d.kind
    BY <1>1 DEF Press, Leaves
  <2> HIDE DEF found
  <2>2. IsReduction(Fresh, d, command)
    BY <1>0, FreshFacts, ReduceIsReduction
  <2> HIDE DEF command, d
  <2> QED
    BY <2>1, <2>2 DEF IsReduction, Kinds
<1>2. CASE PressCancel
  <2>1. session' = Applied(Cancel(Fresh), session).session
    BY <1>2 DEF PressCancel, Leaves
  <2> QED
    BY <1>0, <2>1, TakenOperatorEnds
<1>3. CASE PressUnsupported
  <2>1. session' = Applied(Unsupported(Fresh), session).session
    BY <1>3 DEF PressUnsupported, Leaves
  <2> QED
    BY <1>0, <2>1, TakenOperatorEnds
<1>4. CASE SubmitCancel
  <2>1. session' = CancelPending(Fresh, session).session
    BY <1>4 DEF SubmitCancel
  <2> QED
    BY <1>0, <2>1, CancelPendingIsCancel, TakenOperatorEnds
<1>5. CASE SubmitDecision
  <2> DEFINE pending == held.kind = "pending" /\ ~BindsTextObjects(ActiveScope(reducer))
             command == IF held.kind = "command" THEN held.command ELSE "none"
             d == IF pending THEN Reduced(Fresh, "prefix", "none") ELSE Reduce(Fresh, held)
  <2>1. last' = d.kind
    BY <1>5 DEF SubmitDecision
  <2>2. /\ IsReduction(Fresh, Reduce(Fresh, held), command)
        /\ IsReduction(Fresh, Reduced(Fresh, "prefix", "none"), "none")
    BY <1>0, FreshFacts, ReduceIsReduction
  <2>3. d.kind \in Kinds
    BY <2>2 DEF IsReduction
  <2> HIDE DEF command, d
  <2> QED
    BY <2>1, <2>3 DEF Kinds
<1>6. ASSUME NEW key \in Keys, Decide(key) PROVE FALSE
  BY <1>6 DEF Decide
<1>7. CASE PressBack \/ HostBack
  BY <1>7 DEF PressBack, HostBack, StepBack, Leaves
<1>8. CASE Refused \/ SubmitInterruption \/ Propose
  BY <1>8 DEF Refused, SubmitInterruption, Propose
<1>9. CASE Ask \/ AnswerQuestion \/ OpenCompletes
  BY <1>9 DEF Ask, AnswerQuestion, OpenCompletes, Quietly, Leaves
<1>10. ASSUME NEW otherWindow \in BOOLEAN, NEW otherBuffer \in BOOLEAN, Click(otherWindow, otherBuffer) PROVE FALSE
  BY <1>10 DEF Click, Leaves
<1> QED
  BY <1>1, <1>2, <1>3, <1>4, <1>5, <1>6, <1>7, <1>8, <1>9, <1>10 DEF KeyNext

\* Whatever cancels - the key, input that the terminal cannot name, or a host -
\* the operator ends in the editing state with the one of the reducer (cancel,
\* unsupported, cancel_pending).
THEOREM CancelCorrect ==
  ASSUME KeyInputAssumption
  PROVE  KeySpec => CancelReachesEditor
<1>1. KeyInductive /\ [KeyNext]_keyVars => [CancelEnds]_keyVars
  BY CancelStep
<1>2. KeyInductive /\ [KeyNext]_keyVars
        => [last' \in {"cancelled", "unsupported", "resumed"} /\ reducer.operator => ~session'.editing.waits]_keyVars
  BY <1>1 DEF CancelEnds
<1> QED
  BY KeyInvariance, <1>2, PTL DEF KeySpec, CancelReachesEditor

-----------------------------------------------------------------------------
(* The two together. *)

\* What MCHosting checks of the input of a hosted editor, for every table of
\* the editor and of its host.
THEOREM InputCorrect ==
  ASSUME CompositionAssumption, KeyInputAssumption
  PROVE  InputSpec => []InputInvariant
BY CompositionCorrect, KeyInputCorrect, PTL DEF InputSpec, InputInvariant

=============================================================================
