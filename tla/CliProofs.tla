----------------------------- MODULE CliProofs ------------------------------
(***************************************************************************)
(* What holds of the command whatever its arguments and files are: the     *)
(* order of its stages, what is measured and the exit code; and of the     *)
(* presets under it: Resolve's recursion over includes against the         *)
(* expansion of a preset, which needs no walk.                             *)
(***************************************************************************)
EXTENDS Cli, ConcatProofs, FiniteSetTheorems

-----------------------------------------------------------------------------
(* The presets that files are merged into. *)

SoundPresets(p) ==
    /\ DOMAIN p \subseteq Names
    /\ \A n \in DOMAIN p : p[n].targets \in Seq(Entries) /\ p[n].include \in Seq(Keys)

SoundSet(s) == s.default \in Keys /\ SoundPresets(s.presets)

\* A merge of well-formed presets is well formed.
LEMMA MergeFileSound ==
    ASSUME NEW s, SoundSet(s), NEW doc, WellFormed(doc)
    PROVE  SoundSet(MergeFile(s, doc))
<1>1. CASE ~IsFile(doc)
  BY <1>1 DEF MergeFile
<1>2. CASE IsFile(doc)
  <2>1. MergeFile(s, doc) = Merge(s, doc)
    BY <1>2 DEF MergeFile
  <2>2. /\ doc.default \in Keys
        /\ DOMAIN doc.presets \subseteq Names
        /\ \A n \in DOMAIN doc.presets :
            doc.presets[n].targets \in Seq(Entries) /\ doc.presets[n].include \in Seq(Keys)
    BY <1>2 DEF WellFormed
  <2>3. Merge(s, doc).default \in Keys
    BY <2>2 DEF Merge, SoundSet, SoundPresets
  <2>4. DOMAIN Merge(s, doc).presets = DOMAIN s.presets \cup DOMAIN doc.presets
    BY DEF Merge
  <2>5. ASSUME NEW n \in DOMAIN s.presets \cup DOMAIN doc.presets
        PROVE  /\ Merge(s, doc).presets[n].targets \in Seq(Entries)
               /\ Merge(s, doc).presets[n].include \in Seq(Keys)
    <3>1. Merge(s, doc).presets[n] =
            IF n \in DOMAIN doc.presets THEN doc.presets[n] ELSE s.presets[n]
      BY DEF Merge
    <3>2. QED
      BY <2>2, <3>1 DEF SoundSet, SoundPresets
  <2>6. QED
    BY <2>1, <2>2, <2>3, <2>4, <2>5 DEF SoundSet, SoundPresets
<1>3. QED
  BY <1>1, <1>2

\* The entry Lookup finds is one for the host, as a file wrote it.
LEMMA LookupFinds ==
    ASSUME SoundSet(set), NEW host
    PROVE  \/ Lookup(host) = <<>>
           \/ \E t \in Entries : Lookup(host) = <<t>> /\ t.host = host
<1>1. CASE Defining(host) = {}
  BY <1>1 DEF Lookup
<1>2. CASE Defining(host) # {}
  <2> DEFINE n == CHOOSE n \in Defining(host) : \A m \in Defining(host) : n <= m
             ts == set.presets[n].targets
             Starts(i) == /\ ts[i].host = host
                          /\ \A j \in 1..i-1 : ts[j].host # host
             first == CHOOSE i \in DOMAIN ts : Starts(i)
  <2>1. Defining(host) \subseteq Nat
    BY PresetsAssumption DEF Defining, SoundSet, SoundPresets, Names
  <2>2. n \in Defining(host)
    BY <1>2, <2>1, Least
  <2>3. ts \in Seq(Entries) /\ host \in Hosts(ts)
    BY <2>2 DEF Defining, SoundSet, SoundPresets
  <2>4. Lookup(host) = <<ts[first]>>
    BY <1>2 DEF Lookup
  <2> HIDE DEF n, ts
  <2>5. \E i \in DOMAIN ts : Starts(i)
    <3> DEFINE Has(i) == ts[i].host = host
               Here == {i \in DOMAIN ts : Has(i)}
    <3>1. Here \in SUBSET Nat /\ Here # {}
      BY <2>3 DEF Hosts
    <3>2. PICK i \in Here : \A j \in Here : i <= j
      BY <3>1, Least
    <3>3. QED
      <4>1. i \in DOMAIN ts /\ ts[i].host = host /\ i \in Nat
        BY <3>1, <3>2
      <4>2. ASSUME NEW j \in 1..i-1, ts[j].host = host PROVE FALSE
        <5>1. j \in Nat /\ j < i
          BY <4>1
        <5>2. j \in DOMAIN ts
          BY <2>3, <4>1, <5>1
        <5>3. i <= j
          BY <3>2, <4>2, <5>2
        <5>4. QED
          BY <4>1, <5>1, <5>3
      <4>3. QED
        BY <4>1, <4>2
  <2>6. first \in DOMAIN ts /\ ts[first].host = host
    BY <2>5
  <2>7. ts[first] \in Entries
    BY <2>3, <2>6
  <2>8. QED
    BY <2>4, <2>6, <2>7
<1>3. QED
  BY <1>1, <1>2

-----------------------------------------------------------------------------
(* What the recursive definitions of Presets stand for. *)

LEMMA PresetTypes ==
    ASSUME NEW p, SoundPresets(p), NEW n
    PROVE  /\ TargetsOf(p, n) \in Seq(Entries)
           /\ IncludesOf(p, n) \in Seq(Keys)
           /\ ToSet(IncludesOf(p, n)) \subseteq Keys
<1>1. TargetsOf(p, n) \in Seq(Entries) /\ IncludesOf(p, n) \in Seq(Keys)
  <2>1. CASE n \in DOMAIN p
    BY <2>1 DEF SoundPresets, TargetsOf, IncludesOf
  <2>2. CASE n \notin DOMAIN p
    BY <2>2 DEF TargetsOf, IncludesOf
  <2>3. QED
    BY <2>1, <2>2
<1>2. ASSUME NEW i \in DOMAIN IncludesOf(p, n) PROVE IncludesOf(p, n)[i] \in Keys
  BY <1>1, ElementOfSeq
<1>3. QED
  BY <1>1, <1>2 DEF ToSet

Expansions == [Keys -> Seq(Entries)]

LEMMA IncludedIs ==
    ASSUME NEW p, SoundPresets(p), NEW e \in Expansions, NEW m
    PROVE  /\ Included(p, m, e) \in Seq(Seq(Entries))
           /\ Len(Included(p, m, e)) = Len(IncludesOf(p, m))
           /\ \A i \in DOMAIN IncludesOf(p, m) : Included(p, m, e)[i] = e[IncludesOf(p, m)[i]]
<1> DEFINE inc == IncludesOf(p, m)
<1>1. inc \in Seq(Keys) /\ Len(inc) \in Nat /\ DOMAIN inc = 1..Len(inc)
  BY PresetTypes
<1> HIDE DEF inc
<1>2. ASSUME NEW i \in DOMAIN inc PROVE e[inc[i]] \in Seq(Entries)
  <2>1. inc[i] \in Keys
    BY <1>1, ElementOfSeq
  <2>2. QED
    BY <2>1 DEF Expansions
<1> DEFINE s == [i \in DOMAIN inc |-> e[inc[i]]]
<1>3. s \in [1..Len(inc) -> Seq(Entries)]
  BY <1>1, <1>2
<1>4. s \in Seq(Seq(Entries)) /\ Len(s) = Len(inc)
  BY <1>1, <1>3, LenProperties
<1>5. Included(p, m, e) = s
  BY DEF Included, inc
<1>6. QED
  BY <1>4, <1>5 DEF inc

LEMMA DeeperIs ==
    ASSUME NEW p, SoundPresets(p), NEW e \in Expansions
    PROVE  Deeper(p, e) \in Expansions
<1>1. ASSUME NEW m \in Keys
      PROVE  Joined(Included(p, m, e))[Len(IncludesOf(p, m))] \o TargetsOf(p, m) \in Seq(Entries)
  <2>1. /\ Included(p, m, e) \in Seq(Seq(Entries))
        /\ Len(Included(p, m, e)) = Len(IncludesOf(p, m))
    BY IncludedIs
  <2>2. Len(IncludesOf(p, m)) \in 0..Len(Included(p, m, e))
    BY <2>1
  <2>3. Joined(Included(p, m, e))[Len(IncludesOf(p, m))] \in Seq(Entries)
    BY <2>1, <2>2, JoinedIs
  <2>4. TargetsOf(p, m) \in Seq(Entries)
    BY PresetTypes
  <2>5. QED
    BY <2>3, <2>4
<1>2. QED
  BY <1>1 DEF Deeper, Expansions

LEMMA LevelsAre ==
    ASSUME NEW p, SoundPresets(p)
    PROVE  /\ \A k \in Nat : Levels(p)[k] \in Expansions
           /\ \A k \in Nat : Levels(p)[k+1] = Deeper(p, Levels(p)[k])
<1> DEFINE base == [m \in Keys |-> <<>>]
           deeper == [e \in Expansions |-> Deeper(p, e)]
           step == [k \in Nat |-> deeper]
           Good(g) == g = [k \in Nat |-> IF k = 0 THEN base ELSE Deeper(p, g[k-1])]
<1>1. base \in Expansions
  BY DEF Expansions
<1>2. deeper \in [Expansions -> Expansions]
  BY DeeperIs
<1>3. step \in [Nat -> [Expansions -> Expansions]]
  BY <1>2
<1>4. \A k \in Nat : step[k] = deeper
  OBVIOUS
<1> HIDE DEF base, step
<1>5. PICK f : AllSteps(Expansions, base, step, f)
  BY <1>1, <1>3, Recursion
<1>6. /\ f \in [Nat -> Expansions]
      /\ f[0] = base
      /\ \A k \in Nat : f[k+1] = Deeper(p, f[k])
  <2>1. /\ f \in [Nat -> Expansions] /\ f[0] = base
        /\ \A k \in Nat : f[k+1] = step[k][f[k]]
    BY <1>5 DEF AllSteps
  <2>2. ASSUME NEW k \in Nat PROVE f[k+1] = Deeper(p, f[k])
    <3>1. f[k+1] = deeper[f[k]] /\ f[k] \in Expansions
      BY <1>4, <2>1
    <3>2. QED
      BY <3>1
  <2>3. QED
    BY <2>1, <2>2
<1>7. Good(f)
  <2>1. ASSUME NEW k \in Nat, k # 0 PROVE f[k] = Deeper(p, f[k-1])
    <3>1. k - 1 \in Nat /\ (k-1) + 1 = k
      BY <2>1
    <3>2. QED
      BY <1>6, <3>1
  <2>2. \A k \in Nat : f[k] = IF k = 0 THEN base ELSE Deeper(p, f[k-1])
    BY <1>6, <2>1
  <2>3. QED
    BY <1>6, <2>2
<1>8. Levels(p) = CHOOSE g : Good(g)
  BY DEF Levels, base
<1> DEFINE levels == Levels(p)
<1>9. Good(levels)
  BY <1>7, <1>8
<1> HIDE DEF levels
<1>10. levels = [k \in Nat |-> IF k = 0 THEN base ELSE Deeper(p, levels[k-1])]
  BY <1>9
<1>11. ASSUME NEW k \in Nat PROVE levels[k+1] = Deeper(p, levels[k])
  <2>1. k + 1 \in Nat /\ k + 1 # 0 /\ (k+1) - 1 = k
    OBVIOUS
  <2>2. QED
    BY <1>10, <2>1
<1>12. \A k \in Nat : levels[k] \in Expansions
  <2> DEFINE Bad == {k \in Nat : levels[k] \notin Expansions}
  <2>1. SUFFICES ASSUME Bad # {} PROVE FALSE
    OBVIOUS
  <2>2. Bad \in SUBSET Nat
    OBVIOUS
  <2>3. PICK k \in Bad : \A l \in Bad : k <= l
    BY <2>1, <2>2, Least
  <2>4. k # 0
    BY <1>1, <1>10, <2>3
  <2>5. k - 1 \in Nat /\ k - 1 \notin Bad /\ (k-1) + 1 = k
    BY <2>3, <2>4
  <2>6. levels[k-1] \in Expansions
    BY <2>5
  <2>7. levels[k] = Deeper(p, levels[k-1])
    BY <1>11, <2>5
  <2>8. QED
    BY <2>3, <2>6, <2>7, DeeperIs
<1>13. QED
  BY <1>11, <1>12 DEF levels

-----------------------------------------------------------------------------
(* The presets as a graph. *)

LEMMA BelowClosed ==
    ASSUME NEW p, SoundPresets(p), NEW n \in Keys
    PROVE  /\ n \in Below(p, n) /\ Below(p, n) \subseteq Keys
           /\ Closed(p, Below(p, n))
<1>1. n \in Below(p, n) /\ Below(p, n) \subseteq Keys
  BY DEF Below
<1>2. ASSUME NEW m \in Below(p, n), NEW k \in ToSet(IncludesOf(p, m)) PROVE k \in Below(p, n)
  <2>1. k \in Keys
    BY PresetTypes
  <2>2. ASSUME NEW ns \in SUBSET Keys, n \in ns, Closed(p, ns) PROVE k \in ns
    <3>1. m \in ns
      BY <2>2 DEF Below
    <3>2. QED
      BY <2>2, <3>1 DEF Closed
  <2>3. QED
    BY <2>1, <2>2 DEF Below
<1>3. QED
  BY <1>1, <1>2 DEF Closed

LEMMA BelowLeast ==
    ASSUME NEW p, NEW n, NEW ns \in SUBSET Keys, n \in ns, Closed(p, ns)
    PROVE  Below(p, n) \subseteq ns
BY DEF Below

LEMMA BelowWithin ==
    ASSUME NEW p, SoundPresets(p), NEW n \in Keys, NEW m \in Below(p, n)
    PROVE  Below(p, m) \subseteq Below(p, n)
BY BelowClosed, BelowLeast

\* What is below a preset is the preset or below one of its includes.
LEMMA BelowSplits ==
    ASSUME NEW p, SoundPresets(p), NEW n \in Keys, NEW m \in Below(p, n), m # n
    PROVE  \E k \in ToSet(IncludesOf(p, n)) : m \in Below(p, k)
<1> DEFINE inc == ToSet(IncludesOf(p, n))
           ns == {n} \cup UNION {Below(p, k) : k \in inc}
<1>1. inc \subseteq Keys
  BY PresetTypes
<1>2. ns \in SUBSET Keys /\ n \in ns
  BY <1>1 DEF Below
<1>3. ASSUME NEW l \in ns, NEW k \in ToSet(IncludesOf(p, l)) PROVE k \in ns
  <2>1. CASE l = n
    <3>1. k \in inc /\ k \in Below(p, k)
      BY <1>1, <1>3, <2>1, BelowClosed
    <3>2. QED
      BY <3>1
  <2>2. CASE l # n
    <3>1. PICK j \in inc : l \in Below(p, j)
      BY <1>3, <2>2
    <3>2. k \in Below(p, j)
      BY <1>1, <1>3, <3>1, BelowClosed DEF Closed
    <3>3. QED
      BY <3>2
  <2>3. QED
    BY <2>1, <2>2
<1>4. Closed(p, ns)
  BY <1>3 DEF Closed
<1>5. m \in ns
  BY <1>2, <1>4, BelowLeast
<1>6. QED
  BY <1>5

\* A preset is whole exactly when it exists and all its includes are; it is then not
\* below any of them.
LEMMA WholeIncludes ==
    ASSUME NEW p, SoundPresets(p), NEW n \in Keys, ~Broken(p, n)
    PROVE  /\ n \in DOMAIN p /\ Below(p, n) \subseteq DOMAIN p
           /\ \A k \in ToSet(IncludesOf(p, n)) :
                ~Broken(p, k) /\ Below(p, k) \subseteq Below(p, n) /\ n \notin Below(p, k)
<1>1. n \in Below(p, n) /\ Below(p, n) \subseteq DOMAIN p
  BY BelowClosed DEF Broken, Incomplete
<1>2. ASSUME NEW k \in ToSet(IncludesOf(p, n))
      PROVE  ~Broken(p, k) /\ Below(p, k) \subseteq Below(p, n) /\ n \notin Below(p, k)
  <2>1. k \in Below(p, n)
    BY <1>1, BelowClosed DEF Closed
  <2>2. Below(p, k) \subseteq Below(p, n)
    BY <2>1, BelowWithin
  <2>3. n \notin Below(p, k)
    BY <1>1 DEF Broken, Cyclic
  <2>4. ~Broken(p, k)
    BY <2>2 DEF Broken, Cyclic, Incomplete
  <2>5. QED
    BY <2>2, <2>3, <2>4
<1>3. QED
  BY <1>1, <1>2

LEMMA WholeWhenIncludesAre ==
    ASSUME NEW p, SoundPresets(p), NEW n \in DOMAIN p,
           \A k \in ToSet(IncludesOf(p, n)) : ~Broken(p, k)
    PROVE  ~Broken(p, n)
<1>1. n \in Keys /\ ToSet(IncludesOf(p, n)) \subseteq Keys
  BY PresetTypes DEF SoundPresets, Keys
<1>2. ~Incomplete(p, n)
  <2>1. ASSUME NEW m \in Below(p, n), m # n PROVE m \in DOMAIN p
    <3>1. PICK k \in ToSet(IncludesOf(p, n)) : m \in Below(p, k)
      BY <1>1, <2>1, BelowSplits
    <3>2. QED
      BY <3>1 DEF Broken, Incomplete
  <2>2. QED
    BY <2>1 DEF Incomplete
<1>3. ASSUME NEW m \in Below(p, n), NEW k \in ToSet(IncludesOf(p, m)), m \in Below(p, k)
      PROVE  FALSE
  <2>1. PICK j \in ToSet(IncludesOf(p, n)) : m \in Below(p, j)
    <3>1. CASE m = n
      BY <1>3, <3>1
    <3>2. CASE m # n
      BY <1>1, <3>2, BelowSplits
    <3>3. QED
      BY <3>1, <3>2
  <2>2. Cyclic(p, j)
    BY <1>3, <2>1 DEF Cyclic
  <2>3. QED
    BY <2>2 DEF Broken
<1>4. QED
  BY <1>2, <1>3 DEF Broken, Cyclic

-----------------------------------------------------------------------------
(* The expansion of a whole preset: its includes' expansions and its targets. *)

Size(p, n) == Cardinality(Below(p, n))

LEMMA SizeShrinks ==
    ASSUME NEW p, SoundPresets(p), NEW n \in Keys, ~Broken(p, n)
    PROVE  /\ Size(p, n) \in Nat /\ Size(p, n) <= NumNames /\ Size(p, n) # 0
           /\ \A k \in ToSet(IncludesOf(p, n)) : Size(p, k) \in Nat /\ Size(p, k) < Size(p, n)
<1>1. n \in Below(p, n) /\ Below(p, n) \subseteq Names
  BY WholeIncludes, BelowClosed DEF SoundPresets
<1>2. IsFiniteSet(Names) /\ Cardinality(Names) = NumNames
  BY FS_Interval, PresetsAssumption DEF Names
<1>3. IsFiniteSet(Below(p, n)) /\ Cardinality(Below(p, n)) <= NumNames
  BY <1>1, <1>2, FS_Subset
<1>4. Size(p, n) \in Nat /\ Size(p, n) # 0
  BY <1>1, <1>3, FS_CardinalityType, FS_EmptySet DEF Size
<1>5. ASSUME NEW k \in ToSet(IncludesOf(p, n)) PROVE Size(p, k) \in Nat /\ Size(p, k) < Size(p, n)
  <2>1. Below(p, k) \subseteq Below(p, n) /\ n \notin Below(p, k)
    BY WholeIncludes
  <2>2. /\ IsFiniteSet(Below(p, k)) /\ Cardinality(Below(p, k)) <= Cardinality(Below(p, n))
        /\ Cardinality(Below(p, k)) = Cardinality(Below(p, n)) => Below(p, k) = Below(p, n)
    BY <1>3, <2>1, FS_Subset
  <2>3. Cardinality(Below(p, k)) # Cardinality(Below(p, n))
    BY <1>1, <2>1, <2>2
  <2>4. Cardinality(Below(p, k)) \in Nat
    BY <2>2, FS_CardinalityType
  <2>5. QED
    BY <1>4, <2>2, <2>3, <2>4 DEF Size
<1>6. QED
  BY <1>3, <1>4, <1>5 DEF Size

\* From its size on the level makes no difference.
LEMMA LevelsSettle ==
    ASSUME NEW p, SoundPresets(p)
    PROVE  \A k \in Nat : \A n \in Keys :
                ~Broken(p, n) /\ Size(p, n) <= k => Levels(p)[k+1][n] = Levels(p)[k][n]
<1> DEFINE L == Levels(p)
           Settled(k, n) == ~Broken(p, n) /\ Size(p, n) <= k => L[k+1][n] = L[k][n]
           Bad == {k \in Nat : ~(\A n \in Keys : Settled(k, n))}
<1>1. SUFFICES ASSUME Bad # {} PROVE FALSE
  OBVIOUS
<1>2. Bad \in SUBSET Nat
  OBVIOUS
<1>3. PICK k \in Bad : \A l \in Bad : k <= l
  BY <1>1, <1>2, Least
<1>4. PICK n \in Keys : ~Broken(p, n) /\ Size(p, n) <= k /\ L[k+1][n] # L[k][n]
  BY <1>3
<1>5. /\ Size(p, n) \in Nat /\ Size(p, n) # 0
      /\ \A i \in ToSet(IncludesOf(p, n)) : Size(p, i) \in Nat /\ Size(p, i) < Size(p, n)
  BY <1>4, SizeShrinks
<1>6. k \in Nat /\ k # 0 /\ k - 1 \in Nat /\ k - 1 \notin Bad /\ (k-1) + 1 = k
  BY <1>3, <1>4, <1>5
<1>7. /\ L[k+1] = Deeper(p, L[k]) /\ L[(k-1)+1] = Deeper(p, L[k-1])
  BY <1>6, LevelsAre
<1>8. ASSUME NEW i \in ToSet(IncludesOf(p, n)) PROVE L[k][i] = L[k-1][i]
  <2>1. i \in Keys /\ ~Broken(p, i)
    BY <1>4, PresetTypes, WholeIncludes
  <2>2. Size(p, i) <= k - 1
    BY <1>4, <1>5, <1>6
  <2>3. Settled(k - 1, i)
    BY <1>6, <2>1
  <2>4. L[(k-1)+1][i] = L[k-1][i]
    BY <2>1, <2>2, <2>3
  <2>5. QED
    BY <1>6, <2>4
<1> HIDE DEF L
<1>9. Included(p, n, L[k]) = Included(p, n, L[k-1])
  BY <1>8 DEF Included, ToSet
<1>10. Deeper(p, L[k])[n] = Deeper(p, L[k-1])[n]
  BY <1>9 DEF Deeper
<1>11. QED
  BY <1>4, <1>6, <1>7, <1>10

\* The targets of a preset's first k includes.
Partial(p, n, k) == Joined(Included(p, n, Levels(p)[NumNames]))[k]

LEMMA ExpansionIs ==
    ASSUME NEW p, SoundPresets(p), NEW n \in Keys, ~Broken(p, n)
    PROVE  Expansion(p, n) = Partial(p, n, Len(IncludesOf(p, n))) \o TargetsOf(p, n)
<1> DEFINE L == Levels(p)
<1>1. NumNames \in Nat
  BY PresetsAssumption
<1>2. L[NumNames + 1][n] = L[NumNames][n]
  BY <1>1, SizeShrinks, LevelsSettle
<1>3. L[NumNames + 1] = Deeper(p, L[NumNames])
  BY <1>1, LevelsAre
<1> HIDE DEF L
<1>4. Deeper(p, L[NumNames])[n] = Joined(Included(p, n, L[NumNames]))[Len(IncludesOf(p, n))] \o TargetsOf(p, n)
  BY DEF Deeper
<1>5. QED
  BY <1>2, <1>3, <1>4 DEF Expansion, Partial, L

LEMMA ExpansionTyped ==
    ASSUME NEW p, SoundPresets(p), NEW n \in Keys
    PROVE  Expansion(p, n) \in Seq(Entries)
<1>1. Levels(p)[NumNames] \in [Keys -> Seq(Entries)]
  BY PresetsAssumption, LevelsAre DEF Expansions
<1>2. QED
  BY <1>1 DEF Expansion

LEMMA PartialIs ==
    ASSUME NEW p, SoundPresets(p), NEW n
    PROVE  /\ \A k \in 0..Len(IncludesOf(p, n)) : Partial(p, n, k) \in Seq(Entries)
           /\ Partial(p, n, 0) = <<>>
           /\ \A k \in 1..Len(IncludesOf(p, n)) :
                Partial(p, n, k) = Partial(p, n, k-1) \o Expansion(p, IncludesOf(p, n)[k])
<1> DEFINE e == Levels(p)[NumNames]
           seqs == Included(p, n, e)
           inc == IncludesOf(p, n)
<1>1. e \in Expansions
  BY PresetsAssumption, LevelsAre
<1>2. inc \in Seq(Keys) /\ DOMAIN inc = 1..Len(inc)
  BY PresetTypes
<1> HIDE DEF e
<1>3. /\ seqs \in Seq(Seq(Entries)) /\ Len(seqs) = Len(inc)
      /\ \A i \in DOMAIN inc : seqs[i] = e[inc[i]]
  BY <1>1, IncludedIs
<1> HIDE DEF seqs, inc
<1>4. /\ Joined(seqs) \in [0..Len(seqs) -> Seq(Entries)]
      /\ Joined(seqs)[0] = <<>>
      /\ \A k \in 1..Len(seqs) : Joined(seqs)[k] = Joined(seqs)[k-1] \o seqs[k]
  BY <1>3, JoinedIs
<1>5. \A k : Partial(p, n, k) = Joined(seqs)[k]
  BY DEF Partial, seqs, e
<1>6. \A k \in 1..Len(inc) : seqs[k] = Expansion(p, inc[k])
  BY <1>2, <1>3 DEF Expansion, e
<1>7. \A k \in 0..Len(inc) : Partial(p, n, k) \in Seq(Entries)
  BY <1>3, <1>4, <1>5
<1>8. Partial(p, n, 0) = <<>>
  BY <1>4, <1>5
<1>9. ASSUME NEW k \in 1..Len(inc)
      PROVE  Partial(p, n, k) = Partial(p, n, k-1) \o Expansion(p, inc[k])
  <2>1. k \in 1..Len(seqs)
    BY <1>3
  <2>2. Joined(seqs)[k] = Joined(seqs)[k-1] \o seqs[k]
    BY <1>4, <2>1
  <2>3. seqs[k] = Expansion(p, inc[k])
    BY <1>6
  <2>4. Partial(p, n, k) = Joined(seqs)[k] /\ Partial(p, n, k-1) = Joined(seqs)[k-1]
    BY <1>5
  <2>5. QED
    BY <2>2, <2>3, <2>4
<1>10. QED
  BY <1>7, <1>8, <1>9 DEF inc

-----------------------------------------------------------------------------
(* The first target of each host. *)

\* A host's first target.
LEMMA FirstOf ==
    ASSUME NEW ts \in Seq(Entries), NEW h \in Hosts(ts)
    PROVE  \E i \in DOMAIN ts : IsFirst(ts, i) /\ ts[i].host = h
<1> DEFINE Has(i) == ts[i].host = h
           Here == {i \in DOMAIN ts : Has(i)}
<1>1. DOMAIN ts = 1..Len(ts) /\ Len(ts) \in Nat
  OBVIOUS
<1>2. Here \in SUBSET Nat
  BY <1>1
<1>3. Here # {}
  BY DEF Hosts
<1>4. PICK i \in Here : \A j \in Here : i <= j
  BY <1>2, <1>3, Least
<1>5. i \in DOMAIN ts /\ ts[i].host = h
  BY <1>4
<1>6. ASSUME NEW j \in 1..i-1 PROVE ts[j].host # ts[i].host
  <2>1. j \in DOMAIN ts /\ ~(i <= j)
    BY <1>1, <1>5
  <2>2. j \notin Here
    BY <1>4, <2>1
  <2>3. QED
    BY <1>5, <2>1, <2>2
<1>7. QED
  BY <1>5, <1>6 DEF IsFirst

LEMMA FirstsOfNone == FirstOfEachHost(<<>>, <<>>)
<1>1. DOMAIN <<>> = {}
  OBVIOUS
<1>2. QED
  BY <1>1 DEF FirstOfEachHost

\* Hosts and first targets with one target more.
LEMMA OneTargetMore ==
    ASSUME NEW ts \in Seq(Entries), NEW t \in Entries
    PROVE  /\ Append(ts, t) \in Seq(Entries)
           /\ Hosts(Append(ts, t)) = Hosts(ts) \cup {t.host}
           /\ DOMAIN Append(ts, t) = DOMAIN ts \cup {Len(ts) + 1}
           /\ \A i \in DOMAIN ts : Append(ts, t)[i] = ts[i]
                                 /\ (IsFirst(Append(ts, t), i) <=> IsFirst(ts, i))
           /\ Append(ts, t)[Len(ts) + 1] = t
           /\ IsFirst(Append(ts, t), Len(ts) + 1) <=> t.host \notin Hosts(ts)
<1> DEFINE more == Append(ts, t)
<1>1. /\ more \in Seq(Entries) /\ Len(ts) \in Nat /\ DOMAIN ts = 1..Len(ts)
      /\ DOMAIN more = DOMAIN ts \cup {Len(ts) + 1}
      /\ \A i \in DOMAIN ts : more[i] = ts[i]
      /\ more[Len(ts) + 1] = t
  OBVIOUS
<1> HIDE DEF more
<1>2. Hosts(more) = Hosts(ts) \cup {t.host}
  BY <1>1 DEF Hosts
<1>3. ASSUME NEW i \in DOMAIN ts PROVE IsFirst(more, i) <=> IsFirst(ts, i)
  <2>1. \A j \in 1..i-1 : j \in DOMAIN ts /\ more[j] = ts[j]
    BY <1>1
  <2>2. more[i] = ts[i]
    BY <1>1
  <2>3. QED
    BY <2>1, <2>2 DEF IsFirst
<1>4. IsFirst(more, Len(ts) + 1) <=> t.host \notin Hosts(ts)
  <2>1. 1..(Len(ts) + 1) - 1 = DOMAIN ts
    BY <1>1
  <2>2. QED
    BY <1>1, <2>1 DEF IsFirst, Hosts
<1>5. QED
  BY <1>1, <1>2, <1>3, <1>4 DEF more

\* Collecting one target more keeps the first target of each host, in their order.
LEMMA FirstsOfOneMore ==
    ASSUME NEW some \in Seq(Entries), NEW ts \in Seq(Entries), NEW t \in Entries,
           FirstOfEachHost(some, ts)
    PROVE  /\ AppendNew(some, t) \in Seq(Entries)
           /\ FirstOfEachHost(AppendNew(some, t), Append(ts, t))
<1> DEFINE more == Append(ts, t)
           last == Len(ts) + 1
<1>1. /\ Hosts(some) = Hosts(ts)
      /\ \A k \in DOMAIN some : \E i \in DOMAIN ts : IsFirst(ts, i) /\ some[k] = ts[i]
      /\ \A k, l \in DOMAIN some : \A i, j \in DOMAIN ts :
            k < l /\ IsFirst(ts, i) /\ some[k] = ts[i] /\ IsFirst(ts, j) /\ some[l] = ts[j] => i < j
  BY DEF FirstOfEachHost
<1>2. /\ more \in Seq(Entries)
      /\ Hosts(more) = Hosts(ts) \cup {t.host}
      /\ DOMAIN more = DOMAIN ts \cup {last}
      /\ \A i \in DOMAIN ts : more[i] = ts[i] /\ (IsFirst(more, i) <=> IsFirst(ts, i))
      /\ more[last] = t
      /\ IsFirst(more, last) <=> t.host \notin Hosts(ts)
  BY OneTargetMore
<1>3. /\ \A i \in DOMAIN ts : i < last
      /\ \A k \in DOMAIN some : some[k].host \in Hosts(ts)
  BY <1>1 DEF Hosts
<1> HIDE DEF more, last
<1>4. CASE t.host \in Hosts(some)
  <2>1. AppendNew(some, t) = some /\ ~IsFirst(more, last)
    BY <1>1, <1>2, <1>4 DEF AppendNew
  <2>2. Hosts(some) = Hosts(more)
    BY <1>1, <1>2, <1>4
  <2>3. \A k \in DOMAIN some : \E i \in DOMAIN more : IsFirst(more, i) /\ some[k] = more[i]
    BY <1>1, <1>2
  <2>4. \A k, l \in DOMAIN some : \A i, j \in DOMAIN more :
            k < l /\ IsFirst(more, i) /\ some[k] = more[i] /\ IsFirst(more, j) /\ some[l] = more[j] => i < j
    <3>1. \A i \in DOMAIN more : IsFirst(more, i) => i \in DOMAIN ts
      BY <1>2, <2>1
    <3>2. QED
      BY <1>1, <1>2, <3>1
  <2>5. FirstOfEachHost(some, more)
    BY <2>2, <2>3, <2>4 DEF FirstOfEachHost
  <2>6. QED
    BY <2>1, <2>5 DEF more
<1>5. CASE t.host \notin Hosts(some)
  <2> DEFINE grown == Append(some, t)
             new == Len(some) + 1
  <2>1. AppendNew(some, t) = grown /\ IsFirst(more, last)
    BY <1>1, <1>2, <1>5 DEF AppendNew
  <2>2. /\ grown \in Seq(Entries)
        /\ Hosts(grown) = Hosts(some) \cup {t.host}
        /\ DOMAIN grown = DOMAIN some \cup {new}
        /\ \A k \in DOMAIN some : grown[k] = some[k]
        /\ grown[new] = t
    BY OneTargetMore
  <2>3. \A k \in DOMAIN some : k < new
    OBVIOUS
  <2>4. DOMAIN some \subseteq Int /\ DOMAIN ts \subseteq Int /\ new \in Int /\ last \in Int
    BY DEF last
  <2> HIDE DEF grown, new
  <2>5. Hosts(grown) = Hosts(more)
    BY <1>1, <1>2, <2>2
  <2>6. \A k \in DOMAIN grown : \E i \in DOMAIN more : IsFirst(more, i) /\ grown[k] = more[i]
    <3>1. ASSUME NEW k \in DOMAIN some
          PROVE  \E i \in DOMAIN more : IsFirst(more, i) /\ grown[k] = more[i]
      <4>1. PICK i \in DOMAIN ts : IsFirst(ts, i) /\ some[k] = ts[i]
        BY <1>1
      <4>2. QED
        BY <1>2, <2>2, <4>1
    <3>2. last \in DOMAIN more /\ IsFirst(more, last) /\ grown[new] = more[last]
      BY <1>2, <2>1, <2>2
    <3>3. QED
      BY <2>2, <3>1, <3>2, Zenon
  <2>7. ASSUME NEW k \in DOMAIN grown, NEW l \in DOMAIN grown,
               NEW i \in DOMAIN more, NEW j \in DOMAIN more, k < l,
               IsFirst(more, i), grown[k] = more[i], IsFirst(more, j), grown[l] = more[j]
        PROVE  i < j
    <3>1. k \in DOMAIN some
      BY <2>2, <2>3, <2>4, <2>7
    <3>2. i \in DOMAIN ts /\ some[k] = ts[i] /\ IsFirst(ts, i)
      <4>1. grown[k].host # t.host
        BY <1>1, <1>3, <1>5, <2>2, <3>1
      <4>2. i # last
        BY <1>2, <2>7, <4>1
      <4>3. QED
        BY <1>2, <2>2, <2>7, <3>1, <4>2
    <3>3. CASE l = new
      <4>1. more[j].host = t.host
        BY <2>2, <2>7, <3>3
      <4>2. j \notin DOMAIN ts
        <5>1. SUFFICES ASSUME j \in DOMAIN ts PROVE FALSE
          OBVIOUS
        <5>2. ts[j].host \in Hosts(ts)
          BY <5>1 DEF Hosts
        <5>3. QED
          BY <1>1, <1>2, <1>5, <4>1, <5>1, <5>2
      <4>3. QED
        BY <1>2, <1>3, <3>2, <4>2
    <3>4. CASE l # new
      <4>1. l \in DOMAIN some
        BY <2>2, <3>4
      <4>2. grown[l].host # t.host
        BY <1>1, <1>3, <1>5, <2>2, <4>1
      <4>3. j # last
        BY <1>2, <2>7, <4>2
      <4>4. j \in DOMAIN ts /\ some[l] = ts[j] /\ IsFirst(ts, j)
        BY <1>2, <2>2, <2>7, <4>1, <4>3
      <4>5. QED
        BY <1>1, <2>7, <3>1, <3>2, <4>1, <4>4
    <3>5. QED
      BY <3>3, <3>4
  <2>8. FirstOfEachHost(grown, more)
    BY <2>5, <2>6, <2>7 DEF FirstOfEachHost
  <2>9. QED
    BY <2>1, <2>2, <2>8 DEF more
<1>6. QED
  BY <1>4, <1>5

LEMMA UpTo ==
    ASSUME NEW n \in Nat
    PROVE  IsFiniteSet(1..n) /\ Cardinality(1..n) = n
BY FS_Interval

\* They are as many as there are hosts.
LEMMA FirstsCount ==
    ASSUME NEW some \in Seq(Entries), NEW ts \in Seq(Entries), FirstOfEachHost(some, ts)
    PROVE  Len(some) = Cardinality(Hosts(ts))
<1> DEFINE f == [k \in 1..Len(some) |-> some[k].host]
<1>1. /\ Hosts(some) = Hosts(ts)
      /\ \A k \in DOMAIN some : \E i \in DOMAIN ts : IsFirst(ts, i) /\ some[k] = ts[i]
      /\ \A k, l \in DOMAIN some : \A i, j \in DOMAIN ts :
            k < l /\ IsFirst(ts, i) /\ some[k] = ts[i] /\ IsFirst(ts, j) /\ some[l] = ts[j] => i < j
  BY DEF FirstOfEachHost
<1>2. DOMAIN some = 1..Len(some) /\ Len(some) \in Nat /\ DOMAIN ts = 1..Len(ts) /\ Len(ts) \in Nat
  OBVIOUS
<1>3. ASSUME NEW k \in DOMAIN some, NEW l \in DOMAIN some, k < l PROVE some[k].host # some[l].host
  <2>1. PICK i \in DOMAIN ts : IsFirst(ts, i) /\ some[k] = ts[i]
    BY <1>1
  <2>2. PICK j \in DOMAIN ts : IsFirst(ts, j) /\ some[l] = ts[j]
    BY <1>1
  <2>3. i < j
    BY <1>1, <1>3, <2>1, <2>2
  <2>4. i \in 1..j-1
    BY <1>2, <2>3
  <2>5. QED
    BY <2>1, <2>2, <2>4 DEF IsFirst
<1>4. f \in Bijection(1..Len(some), Hosts(some))
  <2>1. f \in Injection(1..Len(some), Hosts(some))
    <3>1. f \in [1..Len(some) -> Hosts(some)]
      BY <1>2 DEF Hosts
    <3>2. ASSUME NEW k \in 1..Len(some), NEW l \in 1..Len(some), f[k] = f[l] PROVE k = l
      <4>1. ~(k < l) /\ ~(l < k)
        BY <1>2, <1>3, <3>2
      <4>2. QED
        BY <4>1
    <3>3. QED
      BY <3>1, <3>2 DEF Injection, IsInjective
  <2>2. f \in Surjection(1..Len(some), Hosts(some))
    BY <1>2, <2>1 DEF Hosts, Surjection, Injection
  <2>3. QED
    BY <2>1, <2>2 DEF Bijection
<1>5. IsFiniteSet(1..Len(some))
  BY <1>2, UpTo
<1>6. Cardinality(1..Len(some)) = Len(some)
  BY <1>2, UpTo
<1> HIDE DEF f
<1>7. Cardinality(Hosts(some)) = Cardinality(1..Len(some))
  BY <1>4, <1>5, FS_Bijection DEF ExistsBijection
<1>8. QED
  BY <1>1, <1>6, <1>7

-----------------------------------------------------------------------------
(* Where Resolve is: the calls in s, for the presets p. *)

CallsOf(p) == [name : DOMAIN p, next : Nat \ {0}, target : Nat \ {0}]

\* A call is within its preset; its includes came to an end, but for the one that is open
\* (left is how many are), and its targets come after them.
CallInOrder(p, f, left) ==
    /\ f.next <= Len(IncludesOf(p, f.name)) + 1
    /\ f.target <= Len(TargetsOf(p, f.name)) + 1
    /\ f.target > 1 => f.next > Len(IncludesOf(p, f.name))
    /\ \A j \in 1..f.next - 1 - left : ~Broken(p, IncludesOf(p, f.name)[j])

\* A call below the top is at the include the next call is for.
Opens(p, f, g) == f.next > 1 /\ f.target = 1 /\ IncludesOf(p, f.name)[f.next - 1] = g.name

Chain(p, s, r) ==
    /\ s \in Seq(CallsOf(p)) /\ s # <<>>
    /\ s[1].name = r
    /\ CallInOrder(p, s[Len(s)], 0)
    /\ \A i \in 1..Len(s) - 1 : CallInOrder(p, s[i], 1) /\ Opens(p, s[i], s[i+1])
    /\ \A i, j \in 1..Len(s) : i <= j => s[j].name \in Below(p, s[i].name)

\* The targets of what is done before the calls in s, one by one.
Before(p, s, pre) ==
    /\ pre \in [1..Len(s) -> Seq(Entries)]
    /\ pre[1] = <<>>
    /\ \A i \in 1..Len(s) - 1 : pre[i+1] = pre[i] \o Partial(p, s[i].name, s[i].next - 2)

Gathered(p, f, before) ==
    (before \o Partial(p, f.name, f.next - 1)) \o SubSeq(TargetsOf(p, f.name), 1, f.target - 1)

\* The targets so far are the first ones of what Resolve has been through.
SoFar(p, s, o) ==
    \E pre : Before(p, s, pre) /\ FirstOfEachHost(o, Gathered(p, s[Len(s)], pre[Len(s)]))

\* The last call of a chain.
LEMMA ChainTop ==
    ASSUME NEW p, SoundPresets(p), NEW s, NEW r, Chain(p, s, r)
    PROVE  /\ Len(s) \in Nat \ {0} /\ DOMAIN s = 1..Len(s)
           /\ \A i \in 1..Len(s) : s[i] \in CallsOf(p) /\ s[i].name \in DOMAIN p
                /\ s[i].name \in Keys /\ s[i].next \in Nat \ {0} /\ s[i].target \in Nat \ {0}
           /\ r \in Keys
<1>1. Len(s) \in Nat \ {0} /\ DOMAIN s = 1..Len(s)
  BY EmptySeq DEF Chain
<1>2. ASSUME NEW i \in 1..Len(s)
      PROVE  s[i] \in CallsOf(p) /\ s[i].name \in DOMAIN p
             /\ s[i].name \in Keys /\ s[i].next \in Nat \ {0} /\ s[i].target \in Nat \ {0}
  <2>1. s[i] \in CallsOf(p)
    BY <1>2, ElementOfSeq DEF Chain
  <2>2. s[i].name \in DOMAIN p /\ s[i].next \in Nat \ {0} /\ s[i].target \in Nat \ {0}
    BY <2>1 DEF CallsOf
  <2>3. QED
    BY <2>1, <2>2 DEF SoundPresets, Keys
<1>3. r \in Keys
  BY <1>1, <1>2 DEF Chain
<1>4. QED
  BY <1>1, <1>2, <1>3

\* The first call.
LEMMA ChainBegins ==
    ASSUME NEW p, SoundPresets(p), NEW n \in DOMAIN p
    PROVE  LET s == <<[name |-> n, next |-> 1, target |-> 1]>>
           IN  Chain(p, s, n) /\ SoFar(p, s, <<>>)
<1> DEFINE call == [name |-> n, next |-> 1, target |-> 1]
           s == <<call>>
           pre == [i \in 1..1 |-> <<>>]
<1>1. call \in CallsOf(p) /\ call.name = n /\ call.next = 1 /\ call.target = 1
  BY DEF CallsOf
<1> HIDE DEF call
<1>2. s \in Seq(CallsOf(p)) /\ s # <<>> /\ Len(s) = 1 /\ s[1] = call
  BY <1>1
<1> HIDE DEF s
<1>3. n \in Keys
  BY DEF SoundPresets, Keys
<1>4. n \in Below(p, n)
  BY <1>3, BelowClosed
<1>5. /\ IncludesOf(p, n) \in Seq(Keys) /\ Len(IncludesOf(p, n)) \in Nat
      /\ TargetsOf(p, n) \in Seq(Entries) /\ Len(TargetsOf(p, n)) \in Nat
  BY PresetTypes
<1>6. CallInOrder(p, call, 0)
  BY <1>1, <1>5 DEF CallInOrder
<1>7. Chain(p, s, n)
  BY <1>1, <1>2, <1>4, <1>6 DEF Chain
<1>8. Before(p, s, pre)
  <2>1. <<>> \in Seq(Entries)
    OBVIOUS
  <2>2. QED
    BY <1>2, <2>1 DEF Before
<1>9. Gathered(p, call, <<>>) = <<>>
  <2>1. Partial(p, n, 0) = <<>>
    BY PartialIs
  <2>2. SubSeq(TargetsOf(p, n), 1, 0) = <<>>
    BY SubSeqEmpty
  <2>3. QED
    BY <1>1, <2>1, <2>2 DEF Gathered
<1>10. SoFar(p, s, <<>>)
  <2>1. pre[1] = <<>>
    OBVIOUS
  <2> HIDE DEF pre
  <2>2. QED
    BY <1>2, <1>8, <1>9, <2>1, FirstsOfNone DEF SoFar
<1>11. QED
  BY <1>7, <1>10 DEF s, call

\* An include is entered.
LEMMA ChainEnters ==
    ASSUME NEW p, SoundPresets(p), NEW s, NEW r, Chain(p, s, r), NEW o, SoFar(p, s, o),
           NEW t \in Seq(CallsOf(p)), Len(t) = Len(s) + 1,
           s[Len(s)].next <= Len(IncludesOf(p, s[Len(s)].name)),
           \A i \in 1..Len(s) - 1 : t[i] = s[i],
           t[Len(s)].name = s[Len(s)].name, t[Len(s)].next = s[Len(s)].next + 1,
           t[Len(s)].target = s[Len(s)].target,
           t[Len(s) + 1].name = IncludesOf(p, s[Len(s)].name)[s[Len(s)].next],
           t[Len(s) + 1].next = 1, t[Len(s) + 1].target = 1
    PROVE  Chain(p, t, r) /\ SoFar(p, t, o)
<1> DEFINE l == Len(s)
           n == s[l].name
           inc == IncludesOf(p, n)
           k == s[l].next
           new == inc[k]
<1>1. /\ l \in Nat \ {0} /\ l \in 1..l
      /\ n \in Keys /\ k \in Nat \ {0} /\ s[l].target \in Nat \ {0}
  BY ChainTop
<1>2. /\ inc \in Seq(Keys) /\ Len(inc) \in Nat /\ DOMAIN inc = 1..Len(inc)
      /\ ToSet(inc) \subseteq Keys
  BY PresetTypes
<1>3. k \in 1..Len(inc) /\ new \in ToSet(inc) /\ new \in Keys
  BY <1>1, <1>2 DEF ToSet
<1>4. Len(t) = l + 1
  OBVIOUS
<1>5. \A i \in 1..l - 1 : t[i] = s[i]
  OBVIOUS
<1>6. t[l].name = n /\ t[l].next = k + 1 /\ t[l].target = s[l].target
  OBVIOUS
<1>7. t[l+1].name = new /\ t[l+1].next = 1 /\ t[l+1].target = 1
  OBVIOUS
<1>8. /\ s[1].name = r
      /\ CallInOrder(p, s[l], 0)
      /\ \A i \in 1..l - 1 : CallInOrder(p, s[i], 1) /\ Opens(p, s[i], s[i+1])
      /\ \A i, j \in 1..l : i <= j => s[j].name \in Below(p, s[i].name)
  BY DEF Chain
<1>9. s[l].target = 1
  <2>1. s[l].target > 1 => k > Len(inc)
    BY <1>8 DEF CallInOrder
  <2>2. QED
    BY <1>1, <1>2, <1>3, <2>1
<1>10. PICK pre : Before(p, s, pre) /\ FirstOfEachHost(o, Gathered(p, s[l], pre[l]))
  BY DEF SoFar
<1>11. \A i \in 1..l : t[i].name = s[i].name
  BY <1>1, <1>5, <1>6
<1>12. \A i \in 1..l : s[i].name \in Keys
  BY ChainTop
<1> HIDE DEF l, n, k, inc, new
<1>13. t # <<>> /\ t[1].name = r
  BY <1>1, <1>4, <1>8, <1>11
<1>14. CallInOrder(p, t[l+1], 0)
  <2>1. /\ Len(IncludesOf(p, new)) \in Nat /\ Len(TargetsOf(p, new)) \in Nat
    BY PresetTypes
  <2>2. QED
    BY <1>7, <2>1 DEF CallInOrder
<1>15. CallInOrder(p, t[l], 1) /\ Opens(p, t[l], t[l+1])
  <2>1. /\ s[l].target <= Len(TargetsOf(p, n)) + 1
        /\ \A j \in 1..k - 1 : ~Broken(p, inc[j])
    BY <1>1, <1>8 DEF CallInOrder, inc, k, n
  <2>2. \A j \in 1..(k + 1) - 1 - 1 : ~Broken(p, inc[j])
    BY <1>1, <2>1
  <2>3. CallInOrder(p, t[l], 1)
    BY <1>2, <1>3, <1>6, <1>9, <2>1, <2>2 DEF CallInOrder, inc
  <2>4. t[l].next > 1 /\ t[l].next - 1 = k
    BY <1>1, <1>6
  <2>5. Opens(p, t[l], t[l+1])
    BY <1>6, <1>7, <1>9, <2>4 DEF Opens, inc, new
  <2>6. QED
    BY <2>3, <2>5
<1>16. ASSUME NEW i \in 1..Len(t) - 1
       PROVE  CallInOrder(p, t[i], 1) /\ Opens(p, t[i], t[i+1])
  <2>1. CASE i = l
    BY <1>15, <2>1
  <2>2. CASE i # l
    <3>1. i \in 1..l - 1 /\ i + 1 \in 1..l
      BY <1>1, <1>4, <2>2
    <3>2. t[i] = s[i] /\ t[i+1].name = s[i+1].name
      BY <1>5, <1>11, <3>1
    <3>3. CallInOrder(p, s[i], 1) /\ Opens(p, s[i], s[i+1])
      BY <1>8, <3>1
    <3>4. QED
      BY <3>2, <3>3 DEF Opens
  <2>3. QED
    BY <2>1, <2>2
<1>17. ASSUME NEW i \in 1..Len(t), NEW j \in 1..Len(t), i <= j
       PROVE  t[j].name \in Below(p, t[i].name)
  <2>1. CASE j \in 1..l
    <3>1. i \in 1..l
      BY <1>1, <1>17, <2>1
    <3>2. s[j].name \in Below(p, s[i].name)
      BY <1>8, <1>17, <2>1, <3>1
    <3>3. QED
      BY <1>11, <2>1, <3>1, <3>2
  <2>2. CASE j = l + 1
    <3>1. CASE i = l + 1
      BY <1>3, <1>7, <2>2, <3>1, BelowClosed
    <3>2. CASE i \in 1..l
      <4>1. n \in Below(p, s[i].name)
        BY <1>1, <1>8, <3>2 DEF n
      <4>2. new \in Below(p, s[i].name)
        BY <1>3, <1>12, <3>2, <4>1, BelowClosed DEF Closed, inc
      <4>3. QED
        BY <1>7, <1>11, <2>2, <3>2, <4>2
    <3>3. QED
      BY <1>1, <1>4, <3>1, <3>2
  <2>3. QED
    BY <1>1, <1>4, <2>1, <2>2
<1>18. Chain(p, t, r)
  BY <1>4, <1>13, <1>14, <1>16, <1>17 DEF Chain
<1>19. /\ pre \in [1..l -> Seq(Entries)] /\ pre[1] = <<>>
       /\ \A i \in 1..l - 1 : pre[i+1] = pre[i] \o Partial(p, s[i].name, s[i].next - 2)
       /\ pre[l] \in Seq(Entries)
  BY <1>1, <1>10 DEF Before, l
<1>20. Partial(p, n, k - 1) \in Seq(Entries)
  BY <1>1, <1>3, PartialIs DEF inc
<1> DEFINE so == pre[l] \o Partial(p, n, k - 1)
           pre2 == [i \in 1..l + 1 |-> IF i <= l THEN pre[i] ELSE so]
<1>21. so \in Seq(Entries)
  BY <1>19, <1>20, ConcatProperties
<1> HIDE DEF so
<1>22. Before(p, t, pre2)
  <2>1. pre2 \in [1..l + 1 -> Seq(Entries)]
    BY <1>19, <1>21
  <2>2. pre2[1] = <<>> /\ pre2[l+1] = so /\ pre2[l] = pre[l]
    BY <1>1, <1>19
  <2>3. ASSUME NEW i \in 1..l PROVE pre2[i+1] = pre2[i] \o Partial(p, t[i].name, t[i].next - 2)
    <3>1. CASE i = l
      <4>1. t[l].next - 2 = k - 1
        BY <1>1, <1>6
      <4>2. QED
        BY <1>6, <2>2, <3>1, <4>1 DEF so
    <3>2. CASE i # l
      <4>1. i \in 1..l - 1 /\ t[i] = s[i] /\ pre2[i+1] = pre[i+1] /\ pre2[i] = pre[i]
        BY <1>1, <1>5, <3>2
      <4>2. QED
        BY <1>19, <4>1
    <3>3. QED
      BY <3>1, <3>2
  <2> HIDE DEF pre2
  <2>4. Len(t) - 1 = l
    BY <1>1, <1>4
  <2>5. QED
    BY <1>4, <2>1, <2>2, <2>3, <2>4 DEF Before
<1>23. pre2[l+1] = so
  BY <1>1
<1> HIDE DEF pre2
<1>24. Gathered(p, t[l+1], so) = so
  <2>1. Partial(p, new, 0) = <<>> /\ SubSeq(TargetsOf(p, new), 1, 0) = <<>>
    BY PartialIs, SubSeqEmpty
  <2>2. so \o <<>> = so
    BY <1>21, ConcatEmptySeq
  <2>3. t[l+1].next - 1 = 0 /\ t[l+1].target - 1 = 0
    BY <1>7
  <2>4. QED
    BY <1>7, <2>1, <2>2, <2>3 DEF Gathered
<1>25. Gathered(p, s[l], pre[l]) = so
  <2>1. SubSeq(TargetsOf(p, n), 1, 0) = <<>>
    BY SubSeqEmpty
  <2>2. so \o <<>> = so
    BY <1>21, ConcatEmptySeq
  <2>3. s[l].target - 1 = 0
    BY <1>9
  <2>4. QED
    BY <2>1, <2>2, <2>3 DEF Gathered, so, n, k
<1>26. SoFar(p, t, o)
  BY <1>4, <1>10, <1>22, <1>23, <1>24, <1>25 DEF SoFar
<1>27. QED
  BY <1>18, <1>26

LEMMA TargetsAssociate ==
    ASSUME NEW a \in Seq(Entries), NEW b \in Seq(Entries), NEW c \in Seq(Entries)
    PROVE  (a \o b) \o c = a \o (b \o c)
BY ConcatAssociative

\* What has been gathered before a call, and by it.
LEMMA GatheredIs ==
    ASSUME NEW p, SoundPresets(p), NEW s, NEW r, Chain(p, s, r), NEW pre, Before(p, s, pre)
    PROVE  /\ \A i \in 1..Len(s) : pre[i] \in Seq(Entries)
           /\ Partial(p, s[Len(s)].name, s[Len(s)].next - 1) \in Seq(Entries)
           /\ Gathered(p, s[Len(s)], pre[Len(s)]) \in Seq(Entries)
<1> DEFINE l == Len(s)
           n == s[l].name
           k == s[l].next
           m == s[l].target
           ts == TargetsOf(p, n)
<1>1. l \in Nat \ {0} /\ l \in 1..l /\ n \in Keys /\ k \in Nat \ {0} /\ m \in Nat \ {0}
  BY ChainTop
<1>2. \A i \in 1..l : pre[i] \in Seq(Entries)
  BY DEF Before
<1>3. Len(IncludesOf(p, n)) \in Nat /\ ts \in Seq(Entries) /\ Len(ts) \in Nat
  BY PresetTypes
<1>4. k <= Len(IncludesOf(p, n)) + 1 /\ m <= Len(ts) + 1
  BY DEF Chain, CallInOrder
<1> HIDE DEF l, n, k, m, ts
<1>5. k - 1 \in 0..Len(IncludesOf(p, n))
  BY <1>1, <1>3, <1>4
<1>6. Partial(p, n, k - 1) \in Seq(Entries)
  BY <1>5, PartialIs
<1>7. SubSeq(ts, 1, m - 1) \in Seq(Entries)
  <2>1. \A i \in 1..m - 1 : ts[i] \in Entries
    BY <1>1, <1>3, <1>4, ElementOfSeq
  <2>2. QED
    BY <1>1, <2>1, SubSeqProperties
<1>8. (pre[l] \o Partial(p, n, k - 1)) \o SubSeq(ts, 1, m - 1) \in Seq(Entries)
  <2>1. pre[l] \o Partial(p, n, k - 1) \in Seq(Entries)
    BY <1>1, <1>2, <1>6, ConcatProperties
  <2>2. QED
    BY <1>7, <2>1, ConcatProperties
<1>9. QED
  BY <1>2, <1>6, <1>8 DEF Gathered, l, n, k, m, ts

\* A target is collected.
LEMMA ChainCollects ==
    ASSUME NEW p, SoundPresets(p), NEW s, NEW r, Chain(p, s, r),
           NEW o \in Seq(Entries), SoFar(p, s, o),
           NEW t \in Seq(CallsOf(p)), Len(t) = Len(s),
           s[Len(s)].next > Len(IncludesOf(p, s[Len(s)].name)),
           s[Len(s)].target <= Len(TargetsOf(p, s[Len(s)].name)),
           \A i \in 1..Len(s) - 1 : t[i] = s[i],
           t[Len(s)].name = s[Len(s)].name, t[Len(s)].next = s[Len(s)].next,
           t[Len(s)].target = s[Len(s)].target + 1,
           NEW more, more = AppendNew(o, TargetsOf(p, s[Len(s)].name)[s[Len(s)].target])
    PROVE  Chain(p, t, r) /\ more \in Seq(Entries) /\ SoFar(p, t, more)
<1> DEFINE l == Len(s)
           n == s[l].name
           k == s[l].next
           m == s[l].target
           ts == TargetsOf(p, n)
           inc == IncludesOf(p, n)
<1>1. l \in Nat \ {0} /\ l \in 1..l /\ n \in Keys /\ k \in Nat \ {0} /\ m \in Nat \ {0}
  BY ChainTop
<1>2. inc \in Seq(Keys) /\ Len(inc) \in Nat /\ ts \in Seq(Entries) /\ Len(ts) \in Nat
  BY PresetTypes
<1>3. /\ s[1].name = r
      /\ CallInOrder(p, s[l], 0)
      /\ \A i \in 1..l - 1 : CallInOrder(p, s[i], 1) /\ Opens(p, s[i], s[i+1])
      /\ \A i, j \in 1..l : i <= j => s[j].name \in Below(p, s[i].name)
  BY DEF Chain
<1>4. Len(t) = l /\ \A i \in 1..l - 1 : t[i] = s[i]
  OBVIOUS
<1>5. t[l].name = n /\ t[l].next = k /\ t[l].target = m + 1
  OBVIOUS
<1>6. k > Len(inc) /\ m <= Len(ts) /\ more = AppendNew(o, ts[m])
  OBVIOUS
<1>7. PICK pre : Before(p, s, pre) /\ FirstOfEachHost(o, Gathered(p, s[l], pre[l]))
  BY DEF SoFar
<1>8. \A i \in 1..l : t[i].name = s[i].name
  <2>1. ASSUME NEW i \in 1..l, i # l PROVE t[i].name = s[i].name
    <3>1. i \in 1..l - 1
      BY <1>1, <2>1
    <3>2. QED
      BY <1>4, <3>1
  <2>2. t[l].name = s[l].name
    BY <1>5
  <2>3. QED
    BY <2>1, <2>2
<1>9. /\ pre[l] \in Seq(Entries) /\ Partial(p, n, k - 1) \in Seq(Entries)
      /\ Gathered(p, s[l], pre[l]) \in Seq(Entries)
  BY <1>1, <1>7, GatheredIs
<1>10. ts[m] \in Entries
  BY <1>1, <1>2, <1>6, ElementOfSeq
<1>11. k <= Len(inc) + 1 /\ \A j \in 1..k - 1 : ~Broken(p, inc[j])
  <2>1. k - 1 - 0 = k - 1
    BY <1>1
  <2>2. QED
    BY <1>3, <2>1 DEF CallInOrder
<1> HIDE DEF l, n, k, m, ts, inc
<1>12. CallInOrder(p, t[l], 0)
  <2>1. k - 1 - 0 = k - 1 /\ m + 1 <= Len(ts) + 1
    BY <1>1, <1>2, <1>6
  <2>2. QED
    BY <1>5, <1>6, <1>11, <2>1 DEF CallInOrder, inc, ts
<1>13. ASSUME NEW i \in 1..Len(t) - 1
       PROVE  CallInOrder(p, t[i], 1) /\ Opens(p, t[i], t[i+1])
  <2>1. i \in 1..l - 1 /\ i + 1 \in 1..l
    BY <1>1, <1>4
  <2>2. t[i] = s[i] /\ t[i+1].name = s[i+1].name
    BY <1>4, <1>8, <2>1
  <2>3. CallInOrder(p, s[i], 1) /\ Opens(p, s[i], s[i+1])
    BY <1>3, <2>1
  <2>4. QED
    BY <2>2, <2>3 DEF Opens
<1>14. Chain(p, t, r)
  <2>1. t # <<>>
    BY <1>1, <1>4
  <2>2. t[1].name = r
    BY <1>1, <1>3, <1>8
  <2>3. \A i, j \in 1..Len(t) : i <= j => t[j].name \in Below(p, t[i].name)
    BY <1>3, <1>4, <1>8
  <2>4. QED
    BY <1>4, <1>12, <1>13, <2>1, <2>2, <2>3 DEF Chain
<1>15. Before(p, t, pre)
  <2>1. /\ pre \in [1..l -> Seq(Entries)] /\ pre[1] = <<>>
        /\ \A i \in 1..l - 1 : pre[i+1] = pre[i] \o Partial(p, s[i].name, s[i].next - 2)
    BY <1>7 DEF Before, l
  <2>2. QED
    BY <1>4, <2>1 DEF Before
<1>16. Gathered(p, t[l], pre[l]) = Append(Gathered(p, s[l], pre[l]), ts[m])
  <2> DEFINE a == pre[l] \o Partial(p, n, k - 1)
             b == SubSeq(ts, 1, m - 1)
  <2>1. a \in Seq(Entries)
    BY <1>9, ConcatProperties
  <2>2. b \in Seq(Entries)
    <3>1. \A i \in 1..m - 1 : ts[i] \in Entries
      BY <1>1, <1>2, <1>6, ElementOfSeq
    <3>2. QED
      BY <1>1, <3>1, SubSeqProperties
  <2>3. SubSeq(ts, 1, m) = b \o <<ts[m]>>
    <3>1. 1 \in 1..Len(ts) /\ m \in 1..Len(ts)
      BY <1>1, <1>2, <1>6
    <3>2. QED
      BY <1>2, <3>1, SubSeqRecursiveSecond
  <2>4. Gathered(p, s[l], pre[l]) = a \o b
    BY DEF Gathered, n, k, m, ts
  <2>5. Gathered(p, t[l], pre[l]) = a \o SubSeq(ts, 1, m)
    <3>1. (m + 1) - 1 = m
      BY <1>1
    <3>2. QED
      BY <1>5, <3>1 DEF Gathered, ts
  <2> HIDE DEF a, b
  <2>6. <<ts[m]>> \in Seq(Entries)
    BY <1>10
  <2>7. a \o (b \o <<ts[m]>>) = (a \o b) \o <<ts[m]>>
    BY <2>1, <2>2, <2>6, TargetsAssociate
  <2>8. Append(a \o b, ts[m]) = (a \o b) \o <<ts[m]>>
    <3>1. a \o b \in Seq(Entries)
      BY <2>1, <2>2, ConcatProperties
    <3>2. QED
      BY <1>10, <3>1, AppendIsConcat
  <2>9. QED
    BY <2>3, <2>4, <2>5, <2>7, <2>8
<1>17. more \in Seq(Entries) /\ FirstOfEachHost(more, Gathered(p, t[l], pre[l]))
  BY <1>6, <1>7, <1>9, <1>10, <1>16, FirstsOfOneMore
<1>18. SoFar(p, t, more)
  BY <1>4, <1>15, <1>17 DEF SoFar
<1>19. QED
  BY <1>14, <1>17, <1>18

\* A call that is at its end is for a whole preset, and has added its expansion.
LEMMA ChainWhole ==
    ASSUME NEW p, SoundPresets(p), NEW s, NEW r, Chain(p, s, r),
           NEW pre, Before(p, s, pre),
           s[Len(s)].next > Len(IncludesOf(p, s[Len(s)].name)),
           s[Len(s)].target > Len(TargetsOf(p, s[Len(s)].name))
    PROVE  /\ ~Broken(p, s[Len(s)].name)
           /\ Expansion(p, s[Len(s)].name) \in Seq(Entries)
           /\ Gathered(p, s[Len(s)], pre[Len(s)]) = pre[Len(s)] \o Expansion(p, s[Len(s)].name)
<1> DEFINE l == Len(s)
           n == s[l].name
           k == s[l].next
           m == s[l].target
           ts == TargetsOf(p, n)
           inc == IncludesOf(p, n)
<1>1. /\ l \in Nat \ {0} /\ l \in 1..l /\ n \in Keys /\ n \in DOMAIN p
      /\ k \in Nat \ {0} /\ m \in Nat \ {0}
  BY ChainTop
<1>2. /\ inc \in Seq(Keys) /\ Len(inc) \in Nat /\ DOMAIN inc = 1..Len(inc)
      /\ ts \in Seq(Entries) /\ Len(ts) \in Nat
  BY PresetTypes
<1>3. CallInOrder(p, s[l], 0) /\ k > Len(inc) /\ m > Len(ts)
  BY DEF Chain
<1>4. k <= Len(inc) + 1 /\ m <= Len(ts) + 1 /\ \A j \in 1..k - 1 - 0 : ~Broken(p, inc[j])
  BY <1>3 DEF CallInOrder
<1>5. pre[l] \in Seq(Entries) /\ Partial(p, n, k - 1) \in Seq(Entries)
  BY <1>1, GatheredIs
<1>6. Gathered(p, s[l], pre[l]) = (pre[l] \o Partial(p, n, k - 1)) \o SubSeq(ts, 1, m - 1)
  BY DEF Gathered
<1> HIDE DEF l, n, k, m, ts, inc
<1>7. k - 1 = Len(inc) /\ m - 1 = Len(ts) /\ k - 1 - 0 = Len(inc)
  BY <1>1, <1>2, <1>3, <1>4
<1>8. ~Broken(p, n)
  <2>1. ASSUME NEW i \in ToSet(inc) PROVE ~Broken(p, i)
    <3>1. PICK j \in DOMAIN inc : i = inc[j]
      BY DEF ToSet
    <3>2. QED
      BY <1>2, <1>4, <1>7, <3>1
  <2>2. QED
    BY <1>1, <2>1, WholeWhenIncludesAre DEF inc
<1>9. Expansion(p, n) = Partial(p, n, Len(inc)) \o ts
  BY <1>1, <1>8, ExpansionIs DEF inc, ts
<1>10. SubSeq(ts, 1, m - 1) = ts
  BY <1>2, <1>7, SubSeqFull
<1>11. Gathered(p, s[l], pre[l]) = pre[l] \o (Partial(p, n, k - 1) \o ts)
  <2> DEFINE q == Partial(p, n, k - 1)
  <2>1. pre[l] \in Seq(Entries) /\ q \in Seq(Entries)
    BY <1>5
  <2> HIDE DEF q
  <2>2. (pre[l] \o q) \o ts = pre[l] \o (q \o ts)
    BY <1>2, <2>1, TargetsAssociate
  <2>3. QED
    BY <1>6, <1>10, <2>2 DEF q
<1>12. Expansion(p, n) \in Seq(Entries)
  BY <1>2, <1>5, <1>7, <1>9, ConcatProperties
<1>13. QED
  BY <1>7, <1>8, <1>9, <1>11, <1>12 DEF l, n

\* The call Resolve began with is left.
LEMMA ChainEnds ==
    ASSUME NEW p, SoundPresets(p), NEW s, NEW r, Chain(p, s, r), Len(s) = 1,
           NEW o, SoFar(p, s, o),
           s[Len(s)].next > Len(IncludesOf(p, s[Len(s)].name)),
           s[Len(s)].target > Len(TargetsOf(p, s[Len(s)].name))
    PROVE  ~Broken(p, r) /\ FirstOfEachHost(o, Expansion(p, r))
<1>1. PICK pre : Before(p, s, pre) /\ FirstOfEachHost(o, Gathered(p, s[Len(s)], pre[Len(s)]))
  BY DEF SoFar
<1>2. s[Len(s)].name = r /\ pre[Len(s)] = <<>>
  BY <1>1 DEF Chain, Before
<1>3. /\ ~Broken(p, s[Len(s)].name)
      /\ Expansion(p, s[Len(s)].name) \in Seq(Entries)
      /\ Gathered(p, s[Len(s)], pre[Len(s)]) = pre[Len(s)] \o Expansion(p, s[Len(s)].name)
  BY <1>1, ChainWhole
<1>4. <<>> \o Expansion(p, r) = Expansion(p, r)
  BY <1>2, <1>3, ConcatEmptySeq
<1>5. QED
  BY <1>1, <1>2, <1>3, <1>4

\* A call for an include is left.
LEMMA ChainLeaves ==
    ASSUME NEW p, SoundPresets(p), NEW s, NEW r, Chain(p, s, r), Len(s) # 1,
           NEW o, SoFar(p, s, o),
           s[Len(s)].next > Len(IncludesOf(p, s[Len(s)].name)),
           s[Len(s)].target > Len(TargetsOf(p, s[Len(s)].name)),
           NEW t \in Seq(CallsOf(p)), Len(t) = Len(s) - 1, \A i \in 1..Len(s) - 1 : t[i] = s[i]
    PROVE  Chain(p, t, r) /\ SoFar(p, t, o)
<1> DEFINE l == Len(t)
           n == s[l].name
           k == s[l].next
           inc == IncludesOf(p, n)
           m == s[l+1].name
<1>1. l \in Nat \ {0} /\ Len(s) = l + 1 /\ l \in 1..l + 1 /\ l \in 1..l /\ l - 1 \in Nat
  BY ChainTop
<1>2. n \in Keys /\ k \in Nat \ {0} /\ s[l].target \in Nat \ {0} /\ m \in Keys
  BY <1>1, ChainTop
<1>3. inc \in Seq(Keys) /\ Len(inc) \in Nat /\ DOMAIN inc = 1..Len(inc)
  BY PresetTypes
<1>4. /\ s[1].name = r
      /\ \A i \in 1..l : CallInOrder(p, s[i], 1) /\ Opens(p, s[i], s[i+1])
      /\ \A i, j \in 1..l + 1 : i <= j => s[j].name \in Below(p, s[i].name)
  BY <1>1 DEF Chain
<1>5. \A i \in 1..l : t[i] = s[i]
  BY <1>1
<1>6. PICK pre : Before(p, s, pre) /\ FirstOfEachHost(o, Gathered(p, s[l+1], pre[l+1]))
  BY <1>1 DEF SoFar
<1>7. /\ ~Broken(p, m) /\ Expansion(p, m) \in Seq(Entries)
      /\ Gathered(p, s[l+1], pre[l+1]) = pre[l+1] \o Expansion(p, m)
  BY <1>1, <1>6, ChainWhole
<1>8. /\ pre \in [1..l + 1 -> Seq(Entries)] /\ pre[1] = <<>>
      /\ \A i \in 1..l : pre[i+1] = pre[i] \o Partial(p, s[i].name, s[i].next - 2)
  BY <1>1, <1>6 DEF Before
<1>9. /\ k > 1 /\ s[l].target = 1 /\ inc[k - 1] = m
      /\ k <= Len(inc) + 1 /\ \A j \in 1..k - 1 - 1 : ~Broken(p, inc[j])
      /\ 1 <= Len(TargetsOf(p, n)) + 1
  BY <1>1, <1>4 DEF Opens, CallInOrder
<1> HIDE DEF l, n, k, m, inc
<1>10. CallInOrder(p, t[l], 0)
  <2>1. \A j \in 1..k - 1 - 0 : ~Broken(p, inc[j])
    <3>1. ASSUME NEW j \in 1..k - 1 - 0 PROVE ~Broken(p, inc[j])
      <4>1. CASE j = k - 1
        BY <1>7, <1>9, <4>1
      <4>2. CASE j # k - 1
        BY <1>2, <1>9, <4>2
      <4>3. QED
        BY <4>1, <4>2
    <3>2. QED
      BY <3>1
  <2>2. t[l].name = n /\ t[l].next = k /\ t[l].target = 1
    BY <1>1, <1>5, <1>9 DEF n, k
  <2>3. QED
    BY <1>9, <2>1, <2>2 DEF CallInOrder, inc
<1>11. Chain(p, t, r)
  <2>1. t # <<>> /\ t[1].name = r
    BY <1>1, <1>4, <1>5 DEF l
  <2>2. \A i \in 1..l - 1 : CallInOrder(p, t[i], 1) /\ Opens(p, t[i], t[i+1])
    <3>1. ASSUME NEW i \in 1..l - 1 PROVE CallInOrder(p, t[i], 1) /\ Opens(p, t[i], t[i+1])
      <4>1. i \in 1..l /\ i + 1 \in 1..l
        BY <1>1
      <4>2. QED
        BY <1>4, <1>5, <4>1
    <3>2. QED
      BY <3>1
  <2>3. \A i, j \in 1..l : i <= j => t[j].name \in Below(p, t[i].name)
    BY <1>1, <1>4, <1>5
  <2>4. QED
    BY <1>10, <2>1, <2>2, <2>3 DEF Chain, l
<1> DEFINE pre2 == [i \in 1..l |-> pre[i]]
<1>12. Before(p, t, pre2)
  <2>1. pre2 \in [1..l -> Seq(Entries)] /\ pre2[1] = <<>>
    BY <1>1, <1>8
  <2>2. ASSUME NEW i \in 1..l - 1
        PROVE  pre2[i+1] = pre2[i] \o Partial(p, t[i].name, t[i].next - 2)
    <3>1. i \in 1..l /\ i + 1 \in 1..l
      BY <1>1
    <3>2. pre2[i+1] = pre[i+1] /\ pre2[i] = pre[i] /\ t[i] = s[i]
      BY <1>5, <3>1
    <3>3. QED
      BY <1>8, <3>1, <3>2
  <2> HIDE DEF pre2
  <2>3. QED
    BY <2>1, <2>2 DEF Before, l
<1>13. pre2[l] = pre[l] /\ pre[l] \in Seq(Entries)
  BY <1>1, <1>8
<1> HIDE DEF pre2
<1>14. Gathered(p, t[l], pre[l]) = pre[l+1] \o Expansion(p, m)
  <2>1. k - 1 \in 1..Len(inc) /\ (k - 1) - 1 = k - 2 /\ k - 2 \in 0..Len(inc) /\ k - 1 \in 0..Len(inc)
    BY <1>2, <1>3, <1>9
  <2>2. /\ Partial(p, n, k - 1) = Partial(p, n, k - 2) \o Expansion(p, m)
        /\ Partial(p, n, k - 2) \in Seq(Entries)
        /\ Partial(p, n, k - 1) \in Seq(Entries)
    <3>1. \A j \in 1..Len(inc) : Partial(p, n, j) = Partial(p, n, j - 1) \o Expansion(p, inc[j])
      BY PartialIs DEF inc
    <3>2. \A j \in 0..Len(inc) : Partial(p, n, j) \in Seq(Entries)
      BY PartialIs DEF inc
    <3>3. Partial(p, n, k - 1) = Partial(p, n, (k - 1) - 1) \o Expansion(p, inc[k - 1])
      BY <2>1, <3>1
    <3>4. QED
      BY <1>9, <2>1, <3>2, <3>3
  <2>3. t[l].name = n /\ t[l].next = k /\ t[l].target - 1 = 0
    BY <1>1, <1>5, <1>9 DEF n, k
  <2>4. SubSeq(TargetsOf(p, n), 1, 0) = <<>>
    BY SubSeqEmpty
  <2>5. pre[l] \o Partial(p, n, k - 1) \in Seq(Entries)
    BY <1>13, <2>2, ConcatProperties
  <2>6. (pre[l] \o Partial(p, n, k - 1)) \o <<>> = pre[l] \o Partial(p, n, k - 1)
    BY <2>5, ConcatEmptySeq
  <2>7. Gathered(p, t[l], pre[l]) = pre[l] \o Partial(p, n, k - 1)
    BY <2>3, <2>4, <2>6 DEF Gathered
  <2>8. pre[l] \o (Partial(p, n, k - 2) \o Expansion(p, m))
          = (pre[l] \o Partial(p, n, k - 2)) \o Expansion(p, m)
    <3> DEFINE q == Partial(p, n, k - 2)
               e == Expansion(p, m)
    <3>1. pre[l] \in Seq(Entries) /\ q \in Seq(Entries) /\ e \in Seq(Entries)
      BY <1>7, <1>13, <2>2
    <3> HIDE DEF q, e
    <3>2. (pre[l] \o q) \o e = pre[l] \o (q \o e)
      BY <3>1, TargetsAssociate
    <3>3. QED
      BY <3>2 DEF q, e
  <2>9. pre[l+1] = pre[l] \o Partial(p, n, k - 2)
    BY <1>1, <1>8 DEF n, k
  <2>10. QED
    BY <2>2, <2>7, <2>8, <2>9
<1>15. SoFar(p, t, o)
  BY <1>6, <1>7, <1>12, <1>13, <1>14 DEF SoFar, l
<1>16. QED
  BY <1>11, <1>15

\* An include of an open preset closes a cycle below the preset Resolve began with, and an
\* include is below it in any case.
LEMMA ChainBreaks ==
    ASSUME NEW p, SoundPresets(p), NEW s, NEW r, Chain(p, s, r),
           NEW n \in ToSet(IncludesOf(p, s[Len(s)].name))
    PROVE  /\ (\E i \in 1..Len(s) : s[i].name = n) => Cyclic(p, r)
           /\ n \notin DOMAIN p => Incomplete(p, r)
<1> DEFINE top == s[Len(s)].name
<1>1. /\ Len(s) \in 1..Len(s) /\ 1 \in 1..Len(s) /\ r \in Keys
      /\ \A i \in 1..Len(s) : s[i].name \in Keys /\ i <= Len(s)
  BY ChainTop
<1>2. s[1].name = r /\ \A i, j \in 1..Len(s) : i <= j => s[j].name \in Below(p, s[i].name)
  BY DEF Chain
<1>3. top \in Below(p, r)
  BY <1>1, <1>2
<1>4. n \in Below(p, r)
  BY <1>1, <1>3, BelowClosed DEF Closed
<1>5. ASSUME NEW i \in 1..Len(s), s[i].name = n PROVE top \in Below(p, n)
  BY <1>1, <1>2, <1>5
<1>6. (\E i \in 1..Len(s) : s[i].name = n) => Cyclic(p, r)
  BY <1>3, <1>5 DEF Cyclic
<1>7. n \notin DOMAIN p => Incomplete(p, r)
  BY <1>4 DEF Incomplete
<1>8. QED
  BY <1>6, <1>7

-----------------------------------------------------------------------------
(* Resolve's calls. *)

Calls == [name : DOMAIN set.presets, next : Nat \ {0}, target : Nat \ {0}]
Distinct(frames) ==
    \A i, j \in DOMAIN frames : frames[i].name = frames[j].name => i = j

\* Calls for different presets are no more than there are presets.
LEMMA Depth ==
    ASSUME NEW P, P \subseteq Names, NEW s \in Seq([name : P, next : Nat \ {0}, target : Nat \ {0}]), Distinct(s)
    PROVE  Len(s) <= Cardinality(P)
<1> DEFINE f == [i \in 1..Len(s) |-> s[i].name]
<1>1. IsFiniteSet(P)
  <2>1. IsFiniteSet(Names)
    BY FS_Interval, PresetsAssumption DEF Names
  <2>2. QED
    BY <2>1, FS_Subset
<1>2. Len(s) \in Nat /\ DOMAIN s = 1..Len(s)
  OBVIOUS
<1>3. f \in Injection(1..Len(s), P)
  <2>1. ASSUME NEW i \in 1..Len(s) PROVE s[i].name \in P
    <3>1. s[i] \in [name : P, next : Nat \ {0}, target : Nat \ {0}]
      BY <1>2, ElementOfSeq
    <3>2. QED
      BY <3>1
  <2>2. f \in [1..Len(s) -> P]
    BY <2>1
  <2>3. \A i, j \in 1..Len(s) : f[i] = f[j] => i = j
    BY <1>2 DEF Distinct
  <2>4. QED
    BY <2>2, <2>3 DEF Injection, IsInjective
<1>4. Cardinality(1..Len(s)) <= Cardinality(P)
  BY <1>1, <1>3, FS_Injection
<1>5. Cardinality(1..Len(s)) = Len(s)
  <2>1. 1 \in Int /\ Len(s) \in Int
    BY <1>2
  <2>2. Cardinality(1..Len(s)) = IF 1 > Len(s) THEN 0 ELSE Len(s) - 1 + 1
    BY <2>1, FS_Interval, Zenon
  <2>3. QED
    BY <1>2, <2>2
<1>6. QED
  BY <1>4, <1>5

\* A call keeps the calls for different presets.
LEMMA CallStep ==
    ASSUME NEW n, NEW frames \in Seq(Calls), Distinct(frames), Call(n, frames)
    PROVE  /\ stack' \in Seq(Calls) /\ Distinct(stack')
           /\ walk' = "walking" <=> stack' # <<>>
           /\ walk' \in {"walking", "cycle", "unknown"}
<1>1. CASE stack' = <<>> /\ walk' \in {"cycle", "unknown"}
  <2>1. <<>> \in Seq(Calls) /\ Distinct(<<>>)
    BY DEF Distinct
  <2>2. QED
    BY <1>1, <2>1
<1>2. CASE /\ n \in DOMAIN set.presets
           /\ \A i \in DOMAIN frames : frames[i].name # n
           /\ walk' = "walking"
           /\ stack' = Append(frames, [name |-> n, next |-> 1, target |-> 1])
  <2> DEFINE call == [name |-> n, next |-> 1, target |-> 1]
  <2>1. call \in Calls /\ call.name = n
    BY <1>2 DEF Calls
  <2> HIDE DEF call
  <2>2. stack' \in Seq(Calls) /\ stack' # <<>>
    BY <1>2, <2>1, AppendProperties DEF call
  <2>3. /\ Len(frames) \in Nat /\ DOMAIN frames = 1..Len(frames)
        /\ DOMAIN stack' = 1..(Len(frames) + 1)
        /\ \A i \in 1..Len(frames) : stack'[i] = frames[i]
        /\ stack'[Len(frames) + 1] = call
    BY <1>2, <2>1 DEF call
  <2>4. ASSUME NEW i \in DOMAIN stack', NEW j \in DOMAIN stack', stack'[i].name = stack'[j].name
        PROVE  i = j
    <3>1. CASE i \in DOMAIN frames /\ j \in DOMAIN frames
      BY <2>3, <2>4, <3>1 DEF Distinct
    <3>2. CASE i \notin DOMAIN frames /\ j \notin DOMAIN frames
      BY <2>3, <3>2
    <3>3. CASE i \in DOMAIN frames /\ j \notin DOMAIN frames
      <4>1. j = Len(frames) + 1
        BY <2>3, <3>3
      <4>2. frames[i].name = n
        BY <2>1, <2>3, <2>4, <3>3, <4>1
      <4>3. QED
        BY <1>2, <3>3, <4>2
    <3>4. CASE i \notin DOMAIN frames /\ j \in DOMAIN frames
      <4>1. i = Len(frames) + 1
        BY <2>3, <3>4
      <4>2. frames[j].name = n
        BY <2>1, <2>3, <2>4, <3>4, <4>1
      <4>3. QED
        BY <1>2, <3>4, <4>2
    <3>5. QED
      BY <3>1, <3>2, <3>3, <3>4
  <2>5. QED
    BY <1>2, <2>2, <2>4 DEF Distinct
<1>3. QED
  BY <1>1, <1>2 DEF Call

\* Without its last call, the stack is a stack.
LEMMA FrontStack ==
    ASSUME NEW s \in Seq(Calls), Distinct(s), s # <<>>
    PROVE  /\ Len(s) \in Nat \ {0} /\ DOMAIN s = 1..Len(s)
           /\ Last(s) = s[Len(s)] /\ Last(s) \in Calls
           /\ Front(s) \in Seq(Calls)
           /\ Len(Front(s)) = Len(s) - 1
           /\ DOMAIN Front(s) = 1..Len(s) - 1
           /\ \A i \in 1..Len(s) - 1 : Front(s)[i] = s[i]
           /\ Distinct(Front(s))
<1>1. Len(s) \in Nat \ {0} /\ DOMAIN s = 1..Len(s)
  BY EmptySeq
<1>2. Last(s) = s[Len(s)] /\ Last(s) \in Calls
  BY <1>1, ElementOfSeq DEF Last
<1>3. /\ Front(s) \in Seq(Calls)
      /\ Len(Front(s)) = Len(s) - 1
      /\ \A i \in 1..Len(s) - 1 : Front(s)[i] = s[i]
  BY <1>1 DEF Front
<1>4. DOMAIN Front(s) = 1..Len(s) - 1
  BY <1>3
<1>5. Distinct(Front(s))
  BY <1>1, <1>3, <1>4 DEF Distinct
<1>6. QED
  BY <1>1, <1>2, <1>3, <1>4, <1>5

\* Nor does moving the last call on change the presets called.
MovedOn(top) == Append(Front(stack), top)

LEMMA MovedOnStack ==
    ASSUME stack \in Seq(Calls), Distinct(stack), stack # <<>>,
           NEW top \in Calls, top.name = Top.name
    PROVE  /\ MovedOn(top) \in Seq(Calls) /\ Distinct(MovedOn(top)) /\ MovedOn(top) # <<>>
           /\ Len(MovedOn(top)) = Len(stack) /\ DOMAIN MovedOn(top) = DOMAIN stack
           /\ \A i \in 1..Len(stack) - 1 : MovedOn(top)[i] = stack[i]
           /\ MovedOn(top)[Len(stack)] = top
           /\ \A i \in DOMAIN stack : MovedOn(top)[i].name = stack[i].name
<1> DEFINE frames == MovedOn(top)
<1>1. /\ Len(stack) \in Nat \ {0} /\ DOMAIN stack = 1..Len(stack)
      /\ Last(stack) = stack[Len(stack)] /\ Last(stack) \in Calls
      /\ Front(stack) \in Seq(Calls)
      /\ Len(Front(stack)) = Len(stack) - 1
      /\ \A i \in 1..Len(stack) - 1 : Front(stack)[i] = stack[i]
  BY FrontStack
<1>2. /\ frames \in Seq(Calls) /\ frames # <<>>
      /\ Len(frames) = Len(Front(stack)) + 1
      /\ \A i \in 1..Len(Front(stack)) : frames[i] = Front(stack)[i]
      /\ frames[Len(Front(stack)) + 1] = top
  <2> DEFINE front == Front(stack)
  <2>1. front \in Seq(Calls)
    BY <1>1
  <2> HIDE DEF front
  <2>2. /\ Append(front, top) \in Seq(Calls) /\ Append(front, top) # <<>>
        /\ Len(Append(front, top)) = Len(front) + 1
        /\ \A i \in 1..Len(front) : Append(front, top)[i] = front[i]
        /\ Append(front, top)[Len(front) + 1] = top
    BY <2>1, AppendProperties
  <2>3. QED
    BY <2>2 DEF MovedOn, front
<1> HIDE DEF frames
<1>3. /\ Len(frames) = Len(stack) /\ DOMAIN frames = DOMAIN stack
      /\ \A i \in 1..Len(stack) - 1 : frames[i] = stack[i]
      /\ frames[Len(stack)] = top
  BY <1>1, <1>2
<1>4. ASSUME NEW i \in DOMAIN stack PROVE frames[i].name = stack[i].name
  <2>1. CASE i = Len(stack)
    BY <1>1, <1>3, <2>1 DEF Top
  <2>2. CASE i # Len(stack)
    BY <1>1, <1>3, <2>2
  <2>3. QED
    BY <2>1, <2>2
<1>5. Distinct(frames)
  BY <1>3, <1>4 DEF Distinct
<1>6. QED
  BY <1>2, <1>3, <1>4, <1>5 DEF frames

\* The call at the top, at its next include or at its next target.
LEMMA TopMoves ==
    ASSUME stack \in Seq(Calls), Distinct(stack), stack # <<>>
    PROVE  /\ Top = stack[Len(stack)] /\ Top \in Calls
           /\ Top.name \in DOMAIN set.presets /\ Top.next \in Nat \ {0}
           /\ Top.target \in Nat \ {0}
           /\ LET top == [Top EXCEPT !.next = @ + 1]
              IN  top \in Calls /\ top.name = Top.name /\ top.next = Top.next + 1
                  /\ top.target = Top.target
           /\ LET top == [Top EXCEPT !.target = @ + 1]
              IN  top \in Calls /\ top.name = Top.name /\ top.next = Top.next
                  /\ top.target = Top.target + 1
<1>1. Top = stack[Len(stack)] /\ Top \in Calls
  BY FrontStack DEF Top
<1>2. Top \in [name : DOMAIN set.presets, next : Nat \ {0}, target : Nat \ {0}]
  BY <1>1 DEF Calls
<1>3. Top.next + 1 \in Nat \ {0} /\ Top.target + 1 \in Nat \ {0}
  BY <1>2
<1>4. LET top == [Top EXCEPT !.next = @ + 1]
      IN  top \in Calls /\ top.name = Top.name /\ top.next = Top.next + 1
          /\ top.target = Top.target
  BY <1>2, <1>3 DEF Calls
<1>5. LET top == [Top EXCEPT !.target = @ + 1]
      IN  top \in Calls /\ top.name = Top.name /\ top.next = Top.next
          /\ top.target = Top.target + 1
  BY <1>2, <1>3 DEF Calls
<1>6. QED
  BY <1>1, <1>2, <1>4, <1>5

-----------------------------------------------------------------------------
(* Resolve's steps. *)

\* What Resolve has found, and where it is.
ResolveInv ==
    /\ out \in Seq(Entries)
    /\ walk = "walking" => Chain(set.presets, stack, root) /\ SoFar(set.presets, stack, out)
    /\ ResolvedExactly

\* Resolve is called: it is at the preset's first include, or nobody defines it.
LEMMA BeginStep ==
    ASSUME SoundSet(set), NEW n \in Keys, BeginResolve(n)
    PROVE  ResolveInv'
<1> DEFINE p == set.presets
<1>1. SoundPresets(p) /\ set' = set /\ root' = n /\ out' = <<>> /\ Call(n, <<>>)
  BY DEF SoundSet, BeginResolve
<1>2. ~(\E i \in DOMAIN <<>> : <<>>[i].name = n)
  OBVIOUS
<1> HIDE DEF p
<1>3. <<>> \in Seq(Entries)
  OBVIOUS
<1>4. CASE n \in DOMAIN p
  <2>1. walk' = "walking" /\ stack' = <<[name |-> n, next |-> 1, target |-> 1]>>
    <3>1. Append(<<>>, [name |-> n, next |-> 1, target |-> 1])
            = <<[name |-> n, next |-> 1, target |-> 1]>>
      OBVIOUS
    <3>2. QED
      BY <1>1, <1>2, <1>4, <3>1 DEF Call, p
  <2>2. Chain(p, stack', n) /\ SoFar(p, stack', <<>>)
    BY <1>1, <1>4, <2>1, ChainBegins
  <2>3. ResolvedExactly'
    BY <2>1 DEF ResolvedExactly
  <2>4. QED
    BY <1>1, <1>3, <2>2, <2>3 DEF ResolveInv, p
<1>5. CASE n \notin DOMAIN p
  <2>1. walk' = "unknown"
    BY <1>1, <1>2, <1>5 DEF Call, p
  <2>2. Incomplete(p, n)
    BY <1>1, <1>5, BelowClosed DEF Incomplete
  <2>3. Incomplete(set'.presets, root')
    BY <1>1, <2>2 DEF p
  <2>4. ResolvedExactly'
    BY <2>1, <2>3 DEF ResolvedExactly
  <2>5. QED
    BY <1>1, <1>3, <2>1, <2>4 DEF ResolveInv
<1>6. QED
  BY <1>4, <1>5

\* The walk goes on: into an include, over a target, or back.
LEMMA WalkStep ==
    ASSUME SoundSet(set), stack \in Seq(Calls), Distinct(stack), ResolveInv,
           Include \/ Collect \/ Leave
    PROVE  ResolveInv'
<1> DEFINE p == set.presets
           l == Len(stack)
           n == stack[l].name
           inc == IncludesOf(p, n)
           ts == TargetsOf(p, n)
<1>1. SoundPresets(p)
  BY DEF SoundSet
<1>2. walk = "walking" /\ stack # <<>> /\ set' = set /\ root' = root
  BY DEF Include, Collect, Leave, Walking
<1>3. Chain(p, stack, root) /\ SoFar(p, stack, out) /\ out \in Seq(Entries)
  BY <1>2 DEF ResolveInv
<1>4. CallsOf(p) = Calls
  BY DEF CallsOf, Calls
<1>5. l \in Nat \ {0} /\ DOMAIN stack = 1..l /\ n \in DOMAIN p
  BY <1>1, <1>3, ChainTop
<1>6. Top = stack[l] /\ Top.name = n
  BY <1>2, TopMoves
<1>7. set.presets[Top.name].include = inc /\ set.presets[Top.name].targets = ts
  BY <1>5, <1>6 DEF IncludesOf, TargetsOf
<1>8. stack[l].next \in Nat \ {0} /\ stack[l].target \in Nat \ {0}
  BY <1>1, <1>3, <1>5, ChainTop
<1>9. /\ inc \in Seq(Keys) /\ Len(inc) \in Nat /\ DOMAIN inc = 1..Len(inc)
      /\ ts \in Seq(Entries) /\ Len(ts) \in Nat
  BY <1>1, PresetTypes
<1> HIDE DEF p, l, n, inc, ts
<1>10. ASSUME walk' = "walking", Chain(p, stack', root), SoFar(p, stack', out'),
              out' \in Seq(Entries)
       PROVE  ResolveInv'
  <2>1. ResolvedExactly'
    BY <1>10 DEF ResolvedExactly
  <2>2. QED
    BY <1>2, <1>10, <2>1 DEF ResolveInv, p
<1>11. CASE Include
  <2> DEFINE top == [Top EXCEPT !.next = @ + 1]
             i == inc[Top.next]
             call == [name |-> i, next |-> 1, target |-> 1]
  <2>1. Top.next <= Len(inc) /\ Call(i, MovedOn(top)) /\ out' = out
    BY <1>7, <1>11 DEF Include, MovedOn
  <2>2. /\ top \in Calls /\ top.name = n /\ top.next = stack[l].next + 1
        /\ top.target = stack[l].target
    BY <1>2, <1>6, TopMoves
  <2>3. call.name = i /\ call.next = 1 /\ call.target = 1
    OBVIOUS
  <2> HIDE DEF top
  <2>4. /\ MovedOn(top) \in Seq(Calls)
        /\ Len(MovedOn(top)) = l /\ DOMAIN MovedOn(top) = 1..l
        /\ \A j \in 1..l - 1 : MovedOn(top)[j] = stack[j]
        /\ MovedOn(top)[l] = top
        /\ \A j \in 1..l : MovedOn(top)[j].name = stack[j].name
    BY <1>2, <1>5, <1>6, <2>2, MovedOnStack DEF l
  <2>5. i \in ToSet(inc)
    <3>1. Top.next \in DOMAIN inc
      BY <1>6, <1>8, <1>9, <2>1
    <3>2. QED
      BY <3>1 DEF ToSet
  <2>6. /\ (\E j \in 1..l : stack[j].name = i) => Cyclic(p, root)
        /\ i \notin DOMAIN p => Incomplete(p, root)
    BY <1>1, <1>3, <2>5, ChainBreaks DEF l, n, inc
  <2> DEFINE frames == MovedOn(top)
  <2> HIDE DEF i, call, frames
  <2>7. CASE \E j \in DOMAIN frames : frames[j].name = i
    <3>1. walk' = "cycle"
      BY <2>1, <2>7 DEF Call, frames
    <3>2. Cyclic(p, root)
      BY <2>4, <2>6, <2>7 DEF frames
    <3>3. ResolvedExactly'
      BY <1>2, <3>1, <3>2 DEF ResolvedExactly, p
    <3>4. QED
      BY <1>3, <2>1, <3>1, <3>3 DEF ResolveInv
  <2>8. CASE ~(\E j \in DOMAIN frames : frames[j].name = i) /\ i \notin DOMAIN p
    <3>1. walk' = "unknown"
      BY <2>1, <2>8 DEF Call, frames, p
    <3>2. Incomplete(p, root)
      BY <2>6, <2>8
    <3>3. ResolvedExactly'
      BY <1>2, <3>1, <3>2 DEF ResolvedExactly, p
    <3>4. QED
      BY <1>3, <2>1, <3>1, <3>3 DEF ResolveInv
  <2>9. CASE ~(\E j \in DOMAIN frames : frames[j].name = i) /\ i \in DOMAIN p
    <3>1. walk' = "walking" /\ stack' = Append(frames, call)
      BY <2>1, <2>9 DEF Call, frames, p, call
    <3>2. call \in Calls
      BY <2>9 DEF call, Calls, p
    <3>3. /\ stack' \in Seq(Calls) /\ Len(stack') = l + 1
          /\ \A j \in 1..l : stack'[j] = frames[j]
          /\ stack'[l + 1] = call
      <4>1. frames \in Seq(Calls) /\ Len(frames) = l
        BY <2>4 DEF frames
      <4>2. QED
        BY <3>1, <3>2, <4>1, AppendProperties
    <3>4. /\ \A j \in 1..l - 1 : stack'[j] = stack[j]
          /\ stack'[l] = top
      <4>1. l \in 1..l /\ \A j \in 1..l - 1 : j \in 1..l
        BY <1>5
      <4>2. QED
        BY <2>4, <3>3, <4>1 DEF frames
    <3>5. /\ stack'[l].name = n /\ stack'[l].next = stack[l].next + 1
          /\ stack'[l].target = stack[l].target
      BY <2>2, <3>4
    <3>6. /\ stack'[l + 1].name = inc[stack[l].next]
          /\ stack'[l + 1].next = 1 /\ stack'[l + 1].target = 1
      BY <1>6, <2>3, <3>3 DEF i
    <3>7. stack[l].next <= Len(inc)
      BY <1>6, <2>1
    <3>8. Chain(p, stack', root) /\ SoFar(p, stack', out)
      BY <1>1, <1>3, <1>4, <3>3, <3>4, <3>5, <3>6, <3>7, ChainEnters DEF l, n, inc
    <3>9. QED
      BY <1>3, <1>10, <2>1, <3>1, <3>8
  <2>10. QED
    BY <2>7, <2>8, <2>9
<1>12. CASE Collect
  <2> DEFINE top == [Top EXCEPT !.target = @ + 1]
  <2>1. /\ Top.next > Len(inc) /\ Top.target <= Len(ts)
        /\ out' = AppendNew(out, ts[Top.target])
        /\ stack' = MovedOn(top) /\ walk' = walk
    BY <1>7, <1>12 DEF Collect, MovedOn
  <2>2. /\ top \in Calls /\ top.name = n /\ top.next = stack[l].next
        /\ top.target = stack[l].target + 1
    BY <1>2, <1>6, TopMoves
  <2> HIDE DEF top
  <2>3. /\ stack' \in Seq(Calls) /\ Len(stack') = l
        /\ \A j \in 1..l - 1 : stack'[j] = stack[j]
        /\ stack'[l] = top
    BY <1>2, <1>6, <2>1, <2>2, MovedOnStack DEF l
  <2>4. /\ stack'[l].name = n /\ stack'[l].next = stack[l].next
        /\ stack'[l].target = stack[l].target + 1
    BY <2>2, <2>3
  <2>5. /\ stack[l].next > Len(inc) /\ stack[l].target <= Len(ts)
        /\ out' = AppendNew(out, ts[stack[l].target])
    BY <1>6, <2>1
  <2>6. Chain(p, stack', root) /\ out' \in Seq(Entries) /\ SoFar(p, stack', out')
    BY <1>1, <1>3, <1>4, <2>3, <2>4, <2>5, ChainCollects DEF l, n, inc, ts
  <2>7. QED
    BY <1>2, <1>10, <2>1, <2>6
<1>13. CASE Leave
  <2>1. /\ stack[l].next > Len(inc) /\ stack[l].target > Len(ts)
        /\ stack' = Front(stack) /\ out' = out
        /\ walk' = IF l = 1 THEN "done" ELSE "walking"
    BY <1>6, <1>7, <1>13 DEF Leave, l
  <2>2. CASE l = 1
    <3>1. ~Broken(p, root) /\ FirstOfEachHost(out, Expansion(p, root))
      BY <1>1, <1>3, <2>1, <2>2, ChainEnds DEF l, n, inc, ts
    <3>2. walk' = "done"
      BY <2>1, <2>2
    <3>3. ResolvedExactly'
      BY <1>2, <2>1, <3>1, <3>2 DEF ResolvedExactly, p
    <3>4. QED
      BY <1>3, <2>1, <3>2, <3>3 DEF ResolveInv
  <2>3. CASE l # 1
    <3>1. /\ stack' \in Seq(Calls) /\ Len(stack') = l - 1
          /\ \A j \in 1..l - 1 : stack'[j] = stack[j]
      BY <1>2, <2>1, FrontStack DEF l
    <3>2. Chain(p, stack', root) /\ SoFar(p, stack', out)
      BY <1>1, <1>3, <1>4, <2>1, <2>3, <3>1, ChainLeaves DEF l, n, inc, ts
    <3>3. QED
      BY <1>3, <1>10, <2>1, <2>3, <3>2
  <2>4. QED
    BY <2>2, <2>3
<1>14. QED
  BY <1>11, <1>12, <1>13

-----------------------------------------------------------------------------
(* The command. *)

\* The built-in presets are well formed, and stay so whatever is merged over them.
LEMMA SetsSound ==
    ASSUME NEW c \in Commands
    PROVE  SoundSet(Builtin(c)) /\ SoundSet(UserSet(c)) /\ SoundSet(MergedSet(c))
<1>1. /\ IsFile(c.builtin) /\ WellFormed(c.builtin)
      /\ WellFormed(c.user) /\ WellFormed(c.extra)
  BY CliAssumption DEF Parses
<1>2. SoundSet(Builtin(c))
  BY <1>1 DEF SoundSet, SoundPresets, WellFormed, Builtin
<1>3. SoundSet(UserSet(c))
  BY <1>1, <1>2, MergeFileSound DEF UserSet
<1>4. SoundSet(MergedSet(c))
  BY <1>1, <1>3, MergeFileSound DEF MergedSet
<1>5. QED
  BY <1>2, <1>3, <1>4

-----------------------------------------------------------------------------
(* The actions, one by one. *)

\* The preset the listing goes on to is one of the set's.
LEMMA NextListed ==
    ASSUME TypeOK, Unlisted # {}
    PROVE  LET n == CHOOSE n \in Unlisted : \A m \in Unlisted : n <= m
           IN  n \in Unlisted /\ n \in Names /\ n # NoName
<1>1. Unlisted \in SUBSET Names /\ Names \subseteq Nat \ {0}
  BY PresetsAssumption DEF Unlisted, TypeOK, Names
<1>2. Unlisted \in SUBSET Nat
  BY <1>1
<1>3. \E n \in Unlisted : \A m \in Unlisted : n <= m
  BY <1>2, Least
<1>4. QED
  BY <1>1, <1>3 DEF NoName

\* Files keep the set a map from names.
LEMMA MergeTyped ==
    ASSUME TypeOK, NEW doc, WellFormed(doc), NEW optional, NEW next,
           MergePresets(doc, optional, next)
    PROVE  /\ set'.default \in Keys
           /\ DOMAIN set'.presets \subseteq Names
<1>1. CASE ~IsFile(doc) \/ MergeFails(doc, optional)
  BY <1>1 DEF MergePresets, MergeFile, TypeOK
<1>2. CASE IsFile(doc) /\ ~MergeFails(doc, optional)
  <2>1. set' = Merge(set, doc)
    BY <1>2 DEF MergePresets, MergeFile
  <2>2. /\ doc.default \in Keys
        /\ DOMAIN doc.presets \subseteq Names
    BY <1>2 DEF WellFormed
  <2>3. Merge(set, doc).default \in Keys
    BY <2>2 DEF Merge, TypeOK
  <2>4. DOMAIN Merge(set, doc).presets = DOMAIN set.presets \cup DOMAIN doc.presets
    BY DEF Merge
  <2>5. QED
    BY <2>1, <2>2, <2>3, <2>4 DEF TypeOK
<1>3. QED
  BY <1>1, <1>2

LEMMA TypeStep ==
    ASSUME cmd \in Commands, TypeOK, WalkInOrder, [Next]_vars
    PROVE  TypeOK'
<1> USE DEF Require, ReturnWith, Continue, Codes, Reading, Measuring
<1>1. CASE ParseArgs
  BY <1>1 DEF ParseArgs, TypeOK, presetVars, cliVars
<1>2. CASE ParseLang
  BY <1>2 DEF ParseLang, TypeOK, presetVars, cliVars
<1>3. WellFormed(cmd.user) /\ WellFormed(cmd.extra)
  BY CliAssumption
<1>4. CASE UserPresets
  <2>1. /\ set'.default \in Keys
        /\ DOMAIN set'.presets \subseteq Names
    BY <1>3, <1>4, MergeTyped DEF UserPresets
  <2>2. QED
    BY <1>4, <2>1 DEF UserPresets, MergePresets, TypeOK, cliVars
<1>5. CASE UserSignatures
  BY <1>5 DEF UserSignatures, TypeOK, presetVars, cliVars
<1>6. CASE ExtraPresets
  <2>1. CASE cmd.extra.state = "ungiven"
    BY <1>6, <2>1 DEF ExtraPresets, TypeOK, presetVars, cliVars
  <2>2. CASE cmd.extra.state # "ungiven"
    <3>1. /\ set'.default \in Keys
          /\ DOMAIN set'.presets \subseteq Names
      BY <1>3, <1>6, <2>2, MergeTyped DEF ExtraPresets
    <3>2. QED
      BY <1>6, <2>2, <3>1 DEF ExtraPresets, MergePresets, TypeOK, cliVars
  <2>3. QED
    BY <2>1, <2>2
<1>7. CASE ExtraSignatures
  BY <1>7 DEF ExtraSignatures, TypeOK, presetVars, cliVars
<1>8. CASE ListNext
  <2>1. CASE Unlisted = {}
    BY <1>8, <2>1 DEF ListNext, TypeOK, presetVars, cliVars
  <2>2. CASE Unlisted # {}
    <3>1. listing' \in Names
      BY <1>8, <2>2, NextListed DEF ListNext
    <3>2. walk' \in {"walking", "cycle", "unknown"} /\ UNCHANGED set
      BY <1>8, <2>2 DEF ListNext, BeginResolve, Call
    <3>3. QED
      BY <1>8, <2>2, <3>1, <3>2 DEF ListNext, TypeOK, Keys
  <2>3. QED
    BY <2>1, <2>2
<1>9. CASE ListLine
  BY <1>9 DEF ListLine, TypeOK, presetVars, Keys
<1>10. CASE ParseTargets
  BY <1>10 DEF ParseTargets, Measure, TypeOK, presetVars
<1>11. CASE ResolvePreset
  <2>1. walk' \in {"walking", "cycle", "unknown"} /\ UNCHANGED set
    BY <1>11 DEF ResolvePreset, BeginResolve, Call
  <2>2. QED
    BY <1>11, <2>1 DEF ResolvePreset, TypeOK, cliVars
<1>12. CASE PresetResolved
  BY <1>12 DEF PresetResolved, Measure, TypeOK, presetVars
<1>13. CASE Walk
  <2>1. walk' \in {"walking", "cycle", "unknown", "done"} /\ UNCHANGED set
    <3>1. CASE Include
      BY <3>1 DEF Include, Call
    <3>2. CASE Collect \/ Leave
      BY <3>2 DEF Collect, Leave, Walking
    <3>3. QED
      BY <1>13, <3>1, <3>2 DEF Walk
  <2>2. QED
    BY <1>13, <2>1 DEF Walk, TypeOK, cliVars
<1>14. CASE BuildConfig
  BY <1>14 DEF BuildConfig, TypeOK, presetVars, cliVars
<1>15. CASE Run
  BY <1>15 DEF Run, TypeOK, presetVars
<1>16. CASE CheckInterrupt
  BY <1>16 DEF CheckInterrupt, TypeOK, presetVars, cliVars
<1>17. CASE PrintReport
  BY <1>17 DEF PrintReport, TypeOK, presetVars
<1>18. CASE Interrupt
  BY <1>18 DEF Interrupt, TypeOK, presetVars
<1>19. CASE UNCHANGED vars
  BY <1>19 DEF vars, TypeOK, presetVars, cliVars
<1>20. QED
  BY <1>1, <1>2, <1>4, <1>5, <1>6, <1>7, <1>8, <1>9, <1>10, <1>11, <1>12, <1>13, <1>14,
     <1>15, <1>16, <1>17, <1>18, <1>19
     DEF Next, Step, Returned

\* WalkInOrder but for the stack itself.
CallersInOrder ==
    /\ walk = "walking" => stage \in {"list", "preset"} /\ (stage = "list" => listing # NoName)
    /\ stage \in Reading => walk = "idle"
    /\ stage # "list" => listing = NoName
    /\ stage = "list" /\ listing # NoName => root = listing /\ walk # "idle"
    /\ stage = "preset" /\ walk # "idle" => root = Asked

LEMMA OrderStep ==
    ASSUME TypeOK, TypeOK', WalkInOrder, [Next]_vars
    PROVE  WalkInOrder'
<1> USE DEF Require, ReturnWith, Continue
<1>1. /\ stack \in Seq(Calls) /\ Distinct(stack)
      /\ walk = "walking" <=> stack # <<>>
      /\ CallersInOrder
  BY DEF WalkInOrder, Calls, Distinct, CallersInOrder
<1>2. ASSUME stack' \in Seq(Calls'), Distinct(stack'), walk' = "walking" <=> stack' # <<>>,
             CallersInOrder'
      PROVE  WalkInOrder'
  <2>1. DOMAIN set'.presets \subseteq Names
    BY DEF TypeOK
  <2>2. Len(stack') <= Cardinality(DOMAIN set'.presets)
    BY <1>2, <2>1, Depth DEF Calls
  <2>3. QED
    BY <1>2, <2>2 DEF WalkInOrder, Calls, Distinct, CallersInOrder
<1>3. ASSUME UNCHANGED presetVars, CallersInOrder' PROVE WalkInOrder'
  <2>1. Calls' = Calls /\ stack' = stack /\ walk' = walk
    BY <1>3 DEF presetVars, Calls
  <2>2. QED
    BY <1>1, <1>2, <1>3, <2>1
<1>4. CASE ParseArgs \/ ParseLang \/ UserSignatures \/ ExtraSignatures
  <2>1. UNCHANGED <<presetVars, cliVars>>
    BY <1>4 DEF ParseArgs, ParseLang, UserSignatures, ExtraSignatures
  <2>2. stage \in Reading /\ stage' \in Reading \cup {"list", "hosts", "preset", "returned"}
    BY <1>4 DEF ParseArgs, ParseLang, UserSignatures, ExtraSignatures, Reading
  <2>3. CallersInOrder'
    BY <1>1, <2>1, <2>2 DEF CallersInOrder, presetVars, cliVars, Reading
  <2>4. QED
    BY <1>3, <2>1, <2>3
<1>5. CASE UserPresets \/ ExtraPresets
  <2>1. UNCHANGED <<root, stack, out, walk, cliVars>>
    BY <1>5 DEF UserPresets, ExtraPresets, MergePresets, presetVars
  <2>2. stage \in Reading /\ stage' \in Reading \cup {"returned"}
    BY <1>5 DEF UserPresets, ExtraPresets, MergePresets, Reading
  <2>3. stack = <<>>
    BY <1>1, <2>2 DEF CallersInOrder
  <2>4. stack' \in Seq(Calls') /\ Distinct(stack')
    BY <2>1, <2>3 DEF Distinct
  <2>5. CallersInOrder'
    BY <1>1, <2>1, <2>2 DEF CallersInOrder, cliVars, Reading
  <2>6. walk' = "walking" <=> stack' # <<>>
    BY <1>1, <2>1
  <2>7. QED
    BY <1>2, <2>4, <2>5, <2>6
<1>6. ASSUME NEW n, BeginResolve(n), CallersInOrder' PROVE WalkInOrder'
  <2>1. <<>> \in Seq(Calls) /\ Distinct(<<>>)
    BY DEF Distinct
  <2>2. /\ stack' \in Seq(Calls) /\ Distinct(stack')
        /\ walk' = "walking" <=> stack' # <<>>
    BY <1>6, <2>1, CallStep DEF BeginResolve
  <2>3. Calls' = Calls
    BY <1>6 DEF BeginResolve, Calls
  <2>4. QED
    BY <1>2, <1>6, <2>2, <2>3
<1>7. CASE ListNext
  <2>1. CASE Unlisted = {}
    <3>1. UNCHANGED presetVars /\ stage' = "returned" /\ listing' = NoName /\ walk' # "walking"
      BY <1>7, <2>1 DEF ListNext, presetVars, cliVars
    <3>2. CallersInOrder'
      BY <3>1 DEF CallersInOrder, Reading
    <3>3. QED
      BY <1>3, <3>1, <3>2
  <2>2. CASE Unlisted # {}
    <3>1. BeginResolve(listing') /\ stage' = "list" /\ listing' # NoName
      BY <1>7, <2>2, NextListed DEF ListNext
    <3>2. root' = listing' /\ walk' # "idle"
      BY <3>1 DEF BeginResolve, Call
    <3>3. CallersInOrder'
      BY <3>1, <3>2 DEF CallersInOrder, Reading
    <3>4. QED
      BY <1>6, <3>1, <3>3
  <2>3. QED
    BY <2>1, <2>2
<1>8. CASE ListLine
  <2>1. UNCHANGED presetVars /\ stage' = "list" /\ listing' = NoName /\ walk' # "walking"
    BY <1>8 DEF ListLine, presetVars
  <2>2. CallersInOrder'
    BY <2>1 DEF CallersInOrder, Reading
  <2>3. QED
    BY <1>3, <2>1, <2>2
<1>9. CASE ParseTargets \/ PresetResolved
  <2>1. /\ UNCHANGED <<presetVars, listing>>
        /\ walk # "walking" /\ stage # "list" /\ stage' \in {"config", "returned"}
    BY <1>1, <1>9 DEF ParseTargets, PresetResolved, Measure, CallersInOrder
  <2>2. CallersInOrder'
    BY <1>1, <2>1 DEF CallersInOrder, Reading, presetVars
  <2>3. QED
    BY <1>3, <2>1, <2>2
<1>10. CASE ResolvePreset
  <2>1. BeginResolve(Asked) /\ UNCHANGED <<cliVars, stage>> /\ stage = "preset"
    BY <1>10 DEF ResolvePreset
  <2>2. root' = Asked /\ UNCHANGED set /\ walk' # "idle"
    BY <2>1 DEF BeginResolve, Call
  <2>3. Asked' = Asked
    BY <2>1, <2>2 DEF Asked, cliVars
  <2>4. CallersInOrder'
    BY <1>1, <2>1, <2>2, <2>3 DEF CallersInOrder, cliVars, Reading
  <2>5. QED
    BY <1>6, <2>1, <2>4
<1>11. CASE Walk
  <2>1. walk = "walking" /\ stack # <<>> /\ UNCHANGED <<cliVars, stage, set, root>>
    BY <1>11 DEF Walk, Include, Collect, Leave, Walking
  <2>2. Calls' = Calls /\ Asked' = Asked
    BY <2>1 DEF Calls, Asked, cliVars
  <2>3. /\ stack' \in Seq(Calls) /\ Distinct(stack')
        /\ walk' = "walking" <=> stack' # <<>>
        /\ walk' \in {"walking", "cycle", "unknown", "done"}
    <3>1. CASE Include
      <4> DEFINE top == [Top EXCEPT !.next = @ + 1]
      <4>1. top \in Calls /\ top.name = Top.name
        BY <1>1, <2>1, TopMoves
      <4> HIDE DEF top
      <4>2. MovedOn(top) \in Seq(Calls) /\ Distinct(MovedOn(top))
        BY <1>1, <2>1, <4>1, MovedOnStack
      <4>3. Call(set.presets[Top.name].include[Top.next], MovedOn(top))
        BY <3>1 DEF Include, MovedOn, top
      <4>4. QED
        BY <4>2, <4>3, CallStep
    <3>2. CASE Collect
      <4> DEFINE top == [Top EXCEPT !.target = @ + 1]
      <4>1. top \in Calls /\ top.name = Top.name
        BY <1>1, <2>1, TopMoves
      <4>2. stack' = MovedOn(top) /\ walk' = walk
        BY <3>2 DEF Collect, MovedOn
      <4> HIDE DEF top
      <4>3. QED
        BY <1>1, <2>1, <4>1, <4>2, MovedOnStack
    <3>3. CASE Leave
      <4>1. /\ Len(stack) \in Nat \ {0}
            /\ Front(stack) \in Seq(Calls) /\ Distinct(Front(stack))
            /\ Len(Front(stack)) = Len(stack) - 1
        BY <1>1, <2>1, FrontStack
      <4>2. stack' # <<>> <=> Len(stack) # 1
        <5>1. stack' = Front(stack)
          BY <3>3 DEF Leave
        <5>2. stack' # <<>> <=> Len(stack') # 0
          BY <4>1, <5>1, EmptySeq
        <5>3. QED
          BY <4>1, <5>1, <5>2
      <4>3. QED
        BY <3>3, <4>1, <4>2 DEF Leave
    <3>4. QED
      BY <1>11, <3>1, <3>2, <3>3 DEF Walk
  <2>4. CallersInOrder'
    BY <1>1, <2>1, <2>2, <2>3 DEF CallersInOrder, cliVars, Reading
  <2>5. QED
    BY <1>2, <2>2, <2>3, <2>4
<1>12. CASE BuildConfig \/ Run \/ CheckInterrupt \/ PrintReport \/ Interrupt
  <2>1. /\ UNCHANGED <<presetVars, listing>>
        /\ stage \in Measuring /\ stage' \in Measuring \cup {"returned"}
    BY <1>12 DEF BuildConfig, Run, CheckInterrupt, PrintReport, Interrupt, cliVars, Measuring
  <2>2. CallersInOrder'
    BY <1>1, <2>1 DEF CallersInOrder, Reading, Measuring, presetVars
  <2>3. QED
    BY <1>3, <2>1, <2>2
<1>13. CASE UNCHANGED vars
  <2>1. UNCHANGED <<presetVars, cliVars, stage>>
    BY <1>13 DEF vars
  <2>2. Asked' = Asked
    BY <2>1 DEF Asked, presetVars, cliVars
  <2>3. CallersInOrder'
    BY <1>1, <2>1, <2>2 DEF CallersInOrder, presetVars, cliVars
  <2>4. QED
    BY <1>3, <2>1, <2>3
<1>14. QED
  BY <1>4, <1>5, <1>7, <1>8, <1>9, <1>10, <1>11, <1>12, <1>13 DEF Next, Step, Returned

\* What a target on the command line becomes.
LEMMA TargetOfArgument ==
    ASSUME SoundSet(set), NEW arg
    PROVE  /\ TargetOf(arg).host = arg.host
           /\ TargetOf(arg).url = "given" <=> arg.form = "url"
<1> DEFINE bare == [host |-> arg.host, url |-> "", rest |-> ""]
           known == Lookup(arg.host)
           base == IF known = <<>> THEN bare ELSE known[1]
<1>1. /\ base.host = arg.host /\ base.url # "given"
      /\ [base EXCEPT !.url = "given"].host = arg.host
      /\ [base EXCEPT !.url = "given"].url = "given"
  <2>1. CASE known = <<>>
    BY <2>1
  <2>2. CASE known # <<>>
    <3>1. PICK t \in Entries : known = <<t>> /\ t.host = arg.host
      BY <2>2, LookupFinds
    <3>2. base = t
      BY <2>2, <3>1
    <3>3. t \in [host : STRING, url : STRING \ {"given"}, rest : STRING]
      BY DEF Entries
    <3> HIDE DEF base
    <3>4. QED
      BY <3>1, <3>2, <3>3
  <2>3. QED
    BY <2>1, <2>2
<1>2. TargetOf(arg) = IF arg.form = "url" THEN [base EXCEPT !.url = "given"] ELSE base
  BY DEF TargetOf
<1> HIDE DEF base
<1>3. QED
  BY <1>1, <1>2

LEMMA ConfiguredStep ==
    ASSUME cmd \in Commands, CliInv, TypeOK', [Next]_vars
    PROVE  Configured'
<1> USE DEF Require, ReturnWith, Continue
<1>1. Configured /\ (stage # "returned" => printed = "nothing")
  BY DEF CliInv, TypeOK
<1>2. ASSUME stage' = "returned", printed' = "nothing" PROVE Configured'
  BY <1>2 DEF Configured, At, Reading, Measuring
<1>3. CASE ParseArgs
  <2>1. stage = "args" /\ UNCHANGED <<presetVars, cliVars>>
    BY <1>3 DEF ParseArgs
  <2>2. CASE stage' = "returned"
    BY <1>1, <1>2, <2>1, <2>2 DEF cliVars
  <2>3. CASE stage' # "returned"
    <3>1. SoundArgs(cmd) /\ stage' = "lang"
      BY <1>3, <2>3 DEF ParseArgs
    <3>2. QED
      BY <1>1, <2>1, <3>1 DEF Configured, At, Reading, Measuring, presetVars, cliVars
  <2>4. QED
    BY <2>2, <2>3
<1>4. CASE ParseLang
  <2>1. stage = "lang" /\ UNCHANGED <<presetVars, cliVars>>
    BY <1>4 DEF ParseLang
  <2>2. CASE stage' = "returned"
    BY <1>1, <1>2, <2>1, <2>2 DEF cliVars
  <2>3. CASE stage' # "returned"
    <3>1. cmd.lang # "unknown"
          /\ stage' = IF cmd.userConfig THEN "userPresets" ELSE "presetsFile"
      BY <1>4, <2>3 DEF ParseLang
    <3>2. QED
      BY <1>1, <2>1, <3>1 DEF Configured, At, Reading, Measuring, presetVars, cliVars, UserSet
  <2>4. QED
    BY <2>2, <2>3
<1>5. CASE UserPresets
  <2>1. stage = "userPresets" /\ UNCHANGED <<root, stack, out, walk, cliVars>>
    BY <1>5 DEF UserPresets, MergePresets
  <2>2. CASE stage' = "returned"
    BY <1>1, <1>2, <2>1, <2>2 DEF cliVars
  <2>3. CASE stage' # "returned"
    <3>1. /\ ~MergeFails(cmd.user, TRUE) /\ stage' = "userSignatures"
          /\ set' = MergeFile(set, cmd.user)
      BY <1>5, <2>3 DEF UserPresets, MergePresets
    <3>2. cmd.userConfig /\ set = Builtin(cmd) /\ SoundArgs(cmd) /\ cmd.lang # "unknown"
      BY <1>1, <2>1 DEF Configured, At
    <3>3. set' = UserSet(cmd)
      BY <3>1, <3>2 DEF UserSet
    <3>4. QED
      BY <2>1, <3>1, <3>2, <3>3 DEF Configured, At, Reading, Measuring, cliVars
  <2>4. QED
    BY <2>2, <2>3
<1>6. CASE UserSignatures
  <2>1. stage = "userSignatures" /\ UNCHANGED <<presetVars, cliVars>>
    BY <1>6 DEF UserSignatures
  <2>2. CASE stage' = "returned"
    BY <1>1, <1>2, <2>1, <2>2 DEF cliVars
  <2>3. CASE stage' # "returned"
    <3>1. stage' = "presetsFile"
      BY <1>6, <2>3 DEF UserSignatures
    <3>2. QED
      BY <1>1, <2>1, <3>1 DEF Configured, At, Reading, Measuring, presetVars, cliVars
  <2>4. QED
    BY <2>2, <2>3
<1>7. CASE ExtraPresets
  <2>1. stage = "presetsFile" /\ UNCHANGED <<root, stack, out, walk, cliVars>>
    BY <1>7 DEF ExtraPresets, MergePresets, presetVars
  <2>2. CASE stage' = "returned"
    BY <1>1, <1>2, <2>1, <2>2 DEF cliVars
  <2>3. CASE stage' # "returned"
    <3>1. stage' = "signaturesFile"
      BY <1>7, <2>3 DEF ExtraPresets, MergePresets
    <3>2. /\ set = UserSet(cmd) /\ SoundArgs(cmd) /\ cmd.lang # "unknown"
          /\ cmd.userConfig => ~MergeFails(cmd.user, TRUE)
      BY <1>1, <2>1 DEF Configured, At
    <3>3. /\ cmd.extra.state # "ungiven" => ~MergeFails(cmd.extra, FALSE)
          /\ set' = MergedSet(cmd)
      BY <1>7, <2>3, <3>2 DEF ExtraPresets, MergePresets, MergedSet, presetVars
    <3>4. QED
      BY <2>1, <3>1, <3>2, <3>3 DEF Configured, At, Reading, Measuring, cliVars
  <2>4. QED
    BY <2>2, <2>3
<1>8. CASE ExtraSignatures
  <2>1. stage = "signaturesFile" /\ UNCHANGED <<presetVars, cliVars>>
    BY <1>8 DEF ExtraSignatures
  <2>2. CASE stage' = "returned"
    BY <1>1, <1>2, <2>1, <2>2 DEF cliVars
  <2>3. CASE stage' # "returned"
    <3>1. stage' = IF cmd.list THEN "list" ELSE IF cmd.hosts # <<>> THEN "hosts" ELSE "preset"
      BY <1>8, <2>3 DEF ExtraSignatures
    <3>2. QED
      BY <1>1, <2>1, <3>1 DEF Configured, At, Reading, Measuring, presetVars, cliVars
  <2>4. QED
    BY <2>2, <2>3
<1>9. CASE ListNext \/ ListLine
  <2>1. stage = "list" /\ UNCHANGED <<set, cmd, printed>> /\ stage' \in {"list", "returned"}
    BY <1>9 DEF ListNext, ListLine, BeginResolve, presetVars, cliVars
  <2>2. CASE stage' = "returned"
    BY <1>1, <1>2, <2>1, <2>2
  <2>3. CASE stage' = "list"
    BY <1>1, <2>1, <2>3 DEF Configured, At, Reading, Measuring
  <2>4. QED
    BY <2>1, <2>2, <2>3
<1>10. CASE ParseTargets
  <2>1. stage = "hosts" /\ UNCHANGED <<presetVars, cmd, printed>>
    BY <1>10 DEF ParseTargets
  <2>2. CASE stage' = "returned"
    BY <1>1, <1>2, <2>1, <2>2
  <2>3. CASE stage' # "returned"
    <3>1. /\ stage' = "config" /\ targets' # <<>>
          /\ targets' = [i \in DOMAIN cmd.hosts |-> TargetOf(cmd.hosts[i])]
      BY <1>10, <2>3 DEF ParseTargets, Measure
    <3>2. set = MergedSet(cmd) /\ cmd.hosts # <<>>
      BY <1>1, <2>1 DEF Configured, At, Reading
    <3>3. SoundSet(set)
      BY <3>2, SetsSound
    <3>4. ASSUME NEW i \in DOMAIN cmd.hosts
          PROVE  /\ targets'[i].host = cmd.hosts[i].host
                 /\ targets'[i].url = "given" <=> cmd.hosts[i].form = "url"
      BY <3>1, <3>3, TargetOfArgument
    <3>5. QED
      BY <1>1, <2>1, <3>1, <3>2, <3>4 DEF Configured, At, Reading, Measuring, presetVars
  <2>4. QED
    BY <2>2, <2>3
<1>11. CASE ResolvePreset \/ Walk
  <2>1. UNCHANGED <<set, cmd, stage, printed, targets>> /\ stage \in {"preset", "list"}
    <3>1. CASE ResolvePreset
      BY <3>1 DEF ResolvePreset, BeginResolve, cliVars
    <3>2. CASE Walk
      <4>1. walk = "walking" /\ UNCHANGED <<set, cliVars, stage>>
        BY <3>2 DEF Walk, Include, Collect, Leave, Walking
      <4>2. QED
        BY <4>1 DEF CliInv, WalkInOrder, cliVars
    <3>3. QED
      BY <1>11, <3>1, <3>2
  <2>2. QED
    BY <1>1, <2>1 DEF Configured, At, Reading, Measuring
<1>12. CASE PresetResolved
  <2>1. stage = "preset" /\ UNCHANGED <<presetVars, cmd, printed>>
    BY <1>12 DEF PresetResolved
  <2>2. CASE stage' = "returned"
    BY <1>1, <1>2, <2>1, <2>2
  <2>3. CASE stage' # "returned"
    <3>1. stage' = "config" /\ targets' # <<>> /\ targets' = Resolved
      BY <1>12, <2>3 DEF PresetResolved, Measure
    <3>2. walk = "done" /\ targets' = out
      BY <3>1 DEF Resolved
    <3>3. root = Asked
      BY <2>1, <3>2 DEF CliInv, WalkInOrder
    <3>4. Asked' = Asked
      BY <2>1 DEF Asked, presetVars
    <3>5. cmd.hosts = <<>>
      BY <1>1, <2>1 DEF Configured, At
    <3>6. DOMAIN cmd.hosts = {}
      BY <3>5
    <3>7. QED
      BY <1>1, <2>1, <3>1, <3>2, <3>3, <3>4, <3>6
         DEF Configured, At, Reading, Measuring, presetVars
  <2>4. QED
    BY <2>2, <2>3
<1>13. ASSUME UNCHANGED <<presetVars, cmd, targets>>,
              At \in Measuring, At' \in Measuring, stage' # "returned" \/ At' = "print",
              At' # "config" => cmd.proxy # "bad" /\ cmd.resolver # "bad",
              stage \in Measuring, stage' \in Measuring \cup {"returned"}
       PROVE  Configured'
  <2>1. Asked' = Asked
    BY <1>13 DEF Asked, presetVars
  <2>2. QED
    BY <1>1, <1>13, <2>1 DEF Configured, Reading, Measuring, presetVars
<1>14. CASE BuildConfig \/ CheckInterrupt
  <2>1. UNCHANGED <<presetVars, cliVars>> /\ stage \in {"config", "check"}
    BY <1>14 DEF BuildConfig, CheckInterrupt
  <2>2. CASE stage' = "returned"
    BY <1>1, <1>2, <2>1, <2>2 DEF cliVars
  <2>3. CASE stage' # "returned"
    <3>1. \/ stage = "config" /\ stage' = "run" /\ cmd.proxy # "bad" /\ cmd.resolver # "bad"
          \/ stage = "check" /\ stage' = "print"
      BY <1>14, <2>3 DEF BuildConfig, CheckInterrupt
    <3>2. stage = "check" => cmd.proxy # "bad" /\ cmd.resolver # "bad"
      BY <1>1 DEF Configured, At, Measuring
    <3>3. QED
      BY <1>13, <2>1, <3>1, <3>2 DEF At, Measuring, cliVars
  <2>4. QED
    BY <2>2, <2>3
<1>15. CASE Run \/ PrintReport \/ Interrupt
  <2>1. /\ UNCHANGED <<presetVars, cmd, targets>>
        /\ stage \in {"run", "check", "print"}
        /\ \/ stage' \in {"run", "check", "print"}
           \/ stage' = "returned" /\ printed' # "nothing"
    BY <1>15 DEF Run, PrintReport, Interrupt
  <2>2. cmd.proxy # "bad" /\ cmd.resolver # "bad"
    BY <1>1, <2>1 DEF Configured, At, Measuring
  <2>3. QED
    BY <1>13, <2>1, <2>2 DEF At, Measuring
<1>16. CASE UNCHANGED vars
  <2>1. UNCHANGED <<presetVars, cmd, targets, printed, stage>>
    BY <1>16 DEF vars, cliVars
  <2>2. Asked' = Asked /\ At' = At
    BY <2>1 DEF Asked, At, presetVars
  <2>3. QED
    <3>1. UNCHANGED <<cmd, set, targets, stage, walk, root, out>>
      BY <2>1 DEF presetVars
    <3>2. QED
      BY <1>1, <2>2, <3>1, ZenonT(60) DEF Configured
<1>17. QED
  BY <1>3, <1>4, <1>5, <1>6, <1>7, <1>8, <1>9, <1>10, <1>11, <1>12, <1>14, <1>15, <1>16
     DEF Next, Step, Returned

-----------------------------------------------------------------------------
(* The command in order. *)

LEMMA InitInOrder ==
    ASSUME Init
    PROVE  cmd \in Commands /\ CliInv
<1>1. cmd \in Commands /\ SoundSet(Builtin(cmd)) /\ set = Builtin(cmd)
  BY SetsSound DEF Init
<1>2. TypeOK
  BY <1>1 DEF Init, TypeOK, SoundSet, SoundPresets, Reading, Codes, Keys
<1>3. stack \in Seq(Calls) /\ Distinct(stack)
  BY DEF Init, Distinct
<1>4. Len(stack) <= Cardinality(DOMAIN set.presets)
  BY <1>2, <1>3, Depth DEF TypeOK, Calls
<1>5. WalkInOrder
  BY <1>3, <1>4 DEF Init, WalkInOrder, Calls, Distinct, Reading
<1>6. Configured
  BY DEF Init, Configured, At, Reading, Measuring
<1>7. QED
  BY <1>1, <1>2, <1>5, <1>6 DEF CliInv

LEMMA CommandKept ==
    ASSUME [Next]_vars
    PROVE  cmd' = cmd
BY DEF Next, Step, Returned, ParseArgs, ParseLang, UserPresets, UserSignatures, ExtraPresets,
       ExtraSignatures, MergePresets, ListNext, ListLine, ParseTargets, ResolvePreset,
       PresetResolved, Walk, BuildConfig, Run, CheckInterrupt, PrintReport, Interrupt,
       vars, cliVars

KnownCommand == cmd \in Commands

LEMMA CommandKnown == Spec => []KnownCommand
<1>1. Init => KnownCommand
  BY DEF Init, KnownCommand
<1>2. KnownCommand /\ [Next]_vars => KnownCommand'
  BY CommandKept DEF KnownCommand
<1>3. QED
  BY <1>1, <1>2, PTL DEF Spec

\* Main's stages come in their order and each with what it relies on, and Resolve calls
\* no preset that is open already: whatever the presets include, its recursion ends
\* (cli.go:180-309, presets.go:110-140).
THEOREM CommandInOrder == Spec => []CliInv
<1>1. Init => CliInv
  BY InitInOrder
<1>2. ASSUME KnownCommand, CliInv, [Next]_vars
      PROVE  CliInv'
  <2>1. TypeOK /\ WalkInOrder
    BY <1>2 DEF CliInv
  <2>2. TypeOK'
    BY <1>2, <2>1, TypeStep DEF KnownCommand
  <2>3. WalkInOrder'
    BY <1>2, <2>1, <2>2, OrderStep
  <2>4. Configured'
    BY <1>2, <2>2, ConfiguredStep DEF KnownCommand
  <2>5. QED
    BY <2>2, <2>3, <2>4 DEF CliInv
<1>3. QED
  BY <1>1, <1>2, CommandKnown, PTL DEF Spec

-----------------------------------------------------------------------------
(* What Resolve returns. *)

SetSound == SoundSet(set)

\* Whatever is merged into them, the presets are well formed.
LEMMA SetStaysSound == Spec => []SetSound
<1>1. Init => SetSound
  BY SetsSound DEF Init, SetSound
<1>2. ASSUME KnownCommand, SetSound, [Next]_vars PROVE SetSound'
  <2>1. WellFormed(cmd.user) /\ WellFormed(cmd.extra)
    BY <1>2, CliAssumption DEF KnownCommand
  <2>2. ASSUME NEW doc, WellFormed(doc), NEW optional, NEW next, MergePresets(doc, optional, next)
        PROVE  SetSound'
    BY <1>2, <2>2, MergeFileSound DEF MergePresets, SetSound
  <2>3. CASE UserPresets
    BY <2>1, <2>2, <2>3 DEF UserPresets
  <2>4. CASE ExtraPresets
    <3>1. CASE cmd.extra.state = "ungiven"
      BY <1>2, <2>4, <3>1 DEF ExtraPresets, presetVars, SetSound
    <3>2. CASE cmd.extra.state # "ungiven"
      BY <2>1, <2>2, <2>4, <3>2 DEF ExtraPresets
    <3>3. QED
      BY <3>1, <3>2
  <2>5. CASE ~UserPresets /\ ~ExtraPresets
    <3>1. set' = set
      BY <1>2, <2>5
         DEF Next, Step, Returned, ParseArgs, ParseLang, UserSignatures, ExtraSignatures,
             ListNext, ListLine, ParseTargets, ResolvePreset, PresetResolved, BeginResolve,
             Walk, Include, Collect, Leave, BuildConfig, Run, CheckInterrupt, PrintReport,
             Interrupt, vars, presetVars
    <3>2. QED
      BY <1>2, <3>1 DEF SetSound
  <2>6. QED
    BY <2>3, <2>4, <2>5
<1>3. QED
  BY <1>1, <1>2, CommandKnown, PTL DEF Spec

LEMMA ResolveStep ==
    ASSUME KnownCommand, SetSound, CliInv, ResolveInv, [Next]_vars
    PROVE  ResolveInv'
<1>1. SoundSet(set) /\ TypeOK /\ WalkInOrder
  BY DEF SetSound, CliInv
<1>2. ASSUME UNCHANGED presetVars PROVE ResolveInv'
  BY <1>2 DEF ResolveInv, ResolvedExactly, presetVars
<1>3. CASE UserPresets \/ ExtraPresets
  <2>1. UNCHANGED <<walk, out>> /\ stage \in Reading
    BY <1>3 DEF UserPresets, ExtraPresets, MergePresets, presetVars, Reading
  <2>2. walk = "idle" /\ out \in Seq(Entries)
    BY <1>1, <2>1 DEF WalkInOrder, ResolveInv
  <2>3. QED
    BY <2>1, <2>2 DEF ResolveInv, ResolvedExactly
<1>4. CASE ListNext
  <2>1. CASE Unlisted = {}
    BY <1>2, <1>4, <2>1 DEF ListNext
  <2>2. CASE Unlisted # {}
    <3>1. listing' \in Keys /\ BeginResolve(listing')
      BY <1>1, <1>4, <2>2, NextListed DEF ListNext, Keys
    <3>2. QED
      BY <1>1, <3>1, BeginStep
  <2>3. QED
    BY <2>1, <2>2
<1>5. CASE ResolvePreset
  <2>1. Asked \in Keys
    BY <1>1, CliAssumption DEF Asked, KnownCommand, TypeOK
  <2>2. QED
    BY <1>1, <1>5, <2>1, BeginStep DEF ResolvePreset
<1>6. CASE Walk
  <2>1. stack \in Seq(Calls) /\ Distinct(stack)
    BY <1>1 DEF WalkInOrder, Calls, Distinct
  <2>2. QED
    BY <1>1, <1>6, <2>1, WalkStep DEF Walk
<1>7. CASE ParseArgs \/ ParseLang \/ UserSignatures \/ ExtraSignatures \/ ListLine
             \/ ParseTargets \/ PresetResolved \/ BuildConfig \/ Run \/ CheckInterrupt
             \/ PrintReport \/ Interrupt \/ UNCHANGED vars
  <2>1. UNCHANGED presetVars
    BY <1>7 DEF ParseArgs, ParseLang, UserSignatures, ExtraSignatures, ListLine, ParseTargets,
                PresetResolved, BuildConfig, Run, CheckInterrupt, PrintReport, Interrupt, vars
  <2>2. QED
    BY <1>2, <2>1
<1>8. QED
  BY <1>3, <1>4, <1>5, <1>6, <1>7 DEF Next, Step, Returned

LEMMA ResolveInOrder == Spec => []ResolveInv
<1>1. Init => ResolveInv
  <2>1. <<>> \in Seq(Entries)
    OBVIOUS
  <2>2. QED
    BY <2>1 DEF Init, ResolveInv, ResolvedExactly
<1>2. KnownCommand /\ SetSound /\ CliInv /\ ResolveInv /\ [Next]_vars => ResolveInv'
  BY ResolveStep
<1>3. QED
  BY <1>1, <1>2, CommandInOrder, CommandKnown, SetStaysSound, PTL DEF Spec

\* Resolve returns the first target of each host in the preset with its includes in
\* place, or the error that is there: however deep files include each other, and however
\* often the same preset (presets.go:108-146).
THEOREM Resolves == Spec => []ResolvedExactly
<1>1. ResolveInv => ResolvedExactly
  BY DEF ResolveInv
<1>2. QED
  BY <1>1, ResolveInOrder, PTL

-----------------------------------------------------------------------------
(* What is measured. *)

\* The last file that has a preset is the one in force.
LEMMA LastFileInForce ==
    ASSUME set = MergedSet(cmd), cmd \in Commands,
           cmd.extra.state = "ungiven" \/ cmd.extra.state = "missing" \/ Parses(cmd.extra)
    PROVE  /\ \A n \in DOMAIN set.presets : set.presets[n] = InForce(n)
           /\ set.default = DefaultInForce
<1>1. cmd.builtin.default \in Keys
  BY CliAssumption DEF WellFormed, Parses
<1>2. /\ DOMAIN UserSet(cmd).presets =
            DOMAIN cmd.builtin.presets
              \cup (IF cmd.userConfig /\ IsFile(cmd.user) THEN DOMAIN cmd.user.presets ELSE {})
      /\ \A n \in DOMAIN UserSet(cmd).presets : UserSet(cmd).presets[n] =
            IF cmd.userConfig /\ Defines(cmd.user, n) THEN cmd.user.presets[n]
            ELSE cmd.builtin.presets[n]
      /\ UserSet(cmd).default =
            IF cmd.userConfig /\ HasDefault(cmd.user) THEN cmd.user.default
            ELSE cmd.builtin.default
  BY DEF UserSet, MergeFile, Merge, Builtin, Defines, HasDefault
<1>3. cmd.extra.state = "ungiven" => ~IsFile(cmd.extra)
  BY DEF IsFile
<1>4. MergedSet(cmd) = MergeFile(UserSet(cmd), cmd.extra)
  BY <1>3 DEF MergedSet, MergeFile
<1>5. \A n \in DOMAIN set.presets : set.presets[n] =
            IF Defines(cmd.extra, n) THEN cmd.extra.presets[n] ELSE UserSet(cmd).presets[n]
  BY <1>4 DEF MergeFile, Merge, Defines
<1>6. \A n \in DOMAIN set.presets : ~Defines(cmd.extra, n) => n \in DOMAIN UserSet(cmd).presets
  BY <1>4 DEF MergeFile, Merge, Defines
<1>7. set.default = IF HasDefault(cmd.extra) THEN cmd.extra.default ELSE UserSet(cmd).default
  BY <1>4 DEF MergeFile, Merge, HasDefault
<1>8. QED
  <2>1. set.default = DefaultInForce
    BY <1>2, <1>7 DEF DefaultInForce
  <2>2. ASSUME NEW n \in DOMAIN set.presets PROVE set.presets[n] = InForce(n)
    <3>1. CASE Defines(cmd.extra, n)
      BY <1>5, <3>1 DEF InForce
    <3>2. CASE ~Defines(cmd.extra, n)
      <4>1. set.presets[n] = UserSet(cmd).presets[n] /\ n \in DOMAIN UserSet(cmd).presets
        BY <1>5, <1>6, <3>2
      <4>2. QED
        BY <1>2, <3>2, <4>1 DEF InForce
    <3>3. QED
      BY <3>1, <3>2
  <2>3. QED
    BY <2>1, <2>2

\* What is measured is what the last file with a word on it says, from a sound command
\* (presets.yaml:4).
THEOREM ConfiguredIsMeasured == Spec => []MeasuresWhatIsConfigured
<1>1. ASSUME CliInv, cmd \in Commands, ResolvedExactly, Ran
      PROVE  MeasuresWhatIsConfigured
  <2>1. At \in Measuring \ {"config"}
    BY <1>1 DEF Ran, At, Measuring
  <2>2. /\ SoundArgs(cmd) /\ cmd.lang # "unknown"
        /\ cmd.userConfig => ~MergeFails(cmd.user, TRUE)
        /\ cmd.extra.state # "ungiven" => ~MergeFails(cmd.extra, FALSE)
        /\ set = MergedSet(cmd)
        /\ targets # <<>>
        /\ cmd.hosts = <<>> => walk = "done" /\ root = Asked /\ targets = out
        /\ \A i \in DOMAIN cmd.hosts :
            /\ targets[i].host = cmd.hosts[i].host
            /\ targets[i].url = "given" <=> cmd.hosts[i].form = "url"
        /\ cmd.proxy # "bad" /\ cmd.resolver # "bad"
    BY <1>1, <2>1 DEF CliInv, Configured, Reading, Measuring
  <2>3. /\ cmd.extra.state = "ungiven" \/ Parses(cmd.extra)
        /\ cmd.userConfig => cmd.user.state = "missing" \/ Parses(cmd.user)
    BY <2>2 DEF MergeFails
  <2>4. /\ \A n \in DOMAIN set.presets : set.presets[n] = InForce(n)
        /\ set.default = DefaultInForce
    BY <1>1, <2>2, <2>3, LastFileInForce
  <2>5. cmd.concurrency \in 1..64
    BY <2>2 DEF SoundArgs
  <2>6. cmd.hosts = <<>> =>
            /\ root = IF cmd.preset = NoName THEN DefaultInForce ELSE cmd.preset
            /\ FirstOfEachHost(targets, Expansion(set.presets, root))
    BY <1>1, <2>2, <2>4 DEF ResolvedExactly, Asked
  <2>7. QED
    BY <2>2, <2>3, <2>4, <2>5, <2>6 DEF MeasuresWhatIsConfigured
<1>2. CliInv /\ KnownCommand /\ ResolvedExactly => MeasuresWhatIsConfigured
  BY <1>1 DEF MeasuresWhatIsConfigured, KnownCommand
<1>3. QED
  BY <1>2, CommandInOrder, CommandKnown, Resolves, PTL

-----------------------------------------------------------------------------
(* The exit code. *)

Count(n) ==
    IF Broken(set.presets, n) THEN 0 ELSE Cardinality(Hosts(Expansion(set.presets, n)))

\* The listing has counted what each preset expands to.
ListInOrder ==
    /\ listed = [n \in Names |-> listed[n]]
    /\ stage \in Reading => \A n \in Names : listed[n] = Unprinted
    /\ \A n \in DOMAIN set.presets : listed[n] # Unprinted => listed[n] = Count(n)

ExitInv == failing \in Nat /\ ListInOrder /\ ExitTellsTheTruth

LEMMA ListStep ==
    ASSUME SetSound, CliInv, CliInv', ResolveInv, ListInOrder, [Next]_vars
    PROVE  ListInOrder'
<1>1. ASSUME UNCHANGED <<set, listed>>, stage' \in Reading => stage \in Reading
      PROVE  ListInOrder'
  BY <1>1 DEF ListInOrder, Count
<1>2. CASE ParseArgs \/ ParseLang \/ UserSignatures \/ ExtraSignatures
  <2>1. stage \in Reading /\ UNCHANGED <<set, listed>>
    BY <1>2 DEF ParseArgs, ParseLang, UserSignatures, ExtraSignatures, Reading, presetVars, cliVars
  <2>2. QED
    BY <1>1, <2>1
<1>3. CASE UserPresets \/ ExtraPresets
  <2>1. stage \in Reading /\ UNCHANGED listed
    BY <1>3 DEF UserPresets, ExtraPresets, MergePresets, Reading, cliVars
  <2>2. DOMAIN set'.presets \subseteq Names
    BY DEF CliInv, TypeOK
  <2>3. QED
    BY <2>1, <2>2 DEF ListInOrder
<1>4. CASE ListLine
  <2>1. /\ stage = "list" /\ listing # NoName /\ walk # "walking"
        /\ listed' = [listed EXCEPT ![listing] = Len(Resolved)]
        /\ UNCHANGED <<set, stage>>
    BY <1>4 DEF ListLine, presetVars
  <2>2. root = listing /\ walk \in {"done", "cycle", "unknown"}
    BY <2>1 DEF CliInv, TypeOK, WalkInOrder
  <2>3. Len(Resolved) = Count(listing)
    <3>1. CASE walk = "done"
      <4> DEFINE p == set.presets
                 ts == Expansion(p, listing)
      <4>1. ~Broken(p, listing) /\ FirstOfEachHost(out, ts) /\ out \in Seq(Entries)
        BY <2>2, <3>1 DEF ResolveInv, ResolvedExactly
      <4>2. SoundPresets(p) /\ listing \in Keys
        BY DEF SetSound, SoundSet, CliInv, TypeOK
      <4>3. ts \in Seq(Entries)
        BY <4>1, <4>2, ExpansionTyped
      <4> HIDE DEF ts, p
      <4>4. Len(out) = Cardinality(Hosts(ts))
        BY <4>1, <4>3, FirstsCount
      <4>5. QED
        BY <3>1, <4>1, <4>4 DEF Resolved, Count, p, ts
    <3>2. CASE walk # "done"
      <4>1. Broken(set.presets, listing)
        BY <2>2, <3>2 DEF ResolveInv, ResolvedExactly, Broken
      <4>2. QED
        BY <3>2, <4>1 DEF Resolved, Count
    <3>3. QED
      BY <3>1, <3>2
  <2>4. listed' = [n \in Names |-> IF n = listing THEN Count(n) ELSE listed[n]]
    BY <2>1, <2>3 DEF ListInOrder
  <2>5. \A n \in Names : Count(n)' = Count(n)
    BY <2>1 DEF Count
  <2>6. DOMAIN set.presets \subseteq Names
    BY DEF CliInv, TypeOK
  <2>7. QED
    BY <2>1, <2>4, <2>5, <2>6 DEF ListInOrder, Reading
<1>5. CASE ListNext \/ ParseTargets \/ ResolvePreset \/ PresetResolved \/ Walk
             \/ BuildConfig \/ Run \/ CheckInterrupt \/ PrintReport \/ Interrupt
  <2>1. UNCHANGED <<set, listed>>
    BY <1>5 DEF ListNext, ParseTargets, ResolvePreset, PresetResolved, Walk, Include, Collect, Leave,
                BeginResolve, BuildConfig, Run, CheckInterrupt, PrintReport, Interrupt,
                presetVars, cliVars
  <2>2. stage' \in Reading => stage \in Reading
    BY <1>5 DEF ListNext, ParseTargets, ResolvePreset, PresetResolved, Walk, Measure,
                BuildConfig, Run, CheckInterrupt, PrintReport, Interrupt, Reading,
                Require, ReturnWith, Continue
  <2>3. QED
    BY <1>1, <2>1, <2>2
<1>6. CASE UNCHANGED vars
  BY <1>1, <1>6 DEF vars, presetVars, cliVars
<1>7. QED
  BY <1>2, <1>3, <1>4, <1>5, <1>6 DEF Next, Step, Returned

LEMMA ExitStep ==
    ASSUME CliInv, CliInv', ListInOrder, failing \in Nat, ExitTellsTheTruth, [Next]_vars
    PROVE  failing' \in Nat /\ ExitTellsTheTruth'
<1> USE DEF Require, ReturnWith, Continue
<1>1. stage # "returned" => exit = "running" /\ printed = "nothing"
  BY DEF CliInv, TypeOK
<1>2. ASSUME exit' = "running" PROVE ExitTellsTheTruth'
  BY <1>2 DEF ExitTellsTheTruth
<1>3. ASSUME exit' = "usage", printed' = "nothing" PROVE ExitTellsTheTruth'
  BY <1>3 DEF ExitTellsTheTruth
<1>4. CASE ParseArgs
  <2>1. /\ stage = "args" /\ UNCHANGED <<presetVars, cliVars>>
        /\ \/ exit' = "ok" /\ stage' = "returned" /\ (cmd.parse = "help" \/ cmd.version)
           \/ exit' = "usage" \/ exit' = exit
    BY <1>4 DEF ParseArgs
  <2>2. UNCHANGED <<cmd, failing, printed>> /\ printed = "nothing" /\ exit = "running"
    BY <1>1, <2>1 DEF cliVars
  <2>3. CASE exit' = "ok"
    BY <2>1, <2>2, <2>3 DEF ExitTellsTheTruth, Ran
  <2>4. QED
    BY <1>2, <1>3, <2>1, <2>2, <2>3
<1>5. CASE ParseLang \/ UserPresets \/ UserSignatures \/ ExtraPresets \/ ExtraSignatures
             \/ ParseTargets \/ PresetResolved \/ BuildConfig
  <2>1. /\ stage # "returned" /\ UNCHANGED <<cmd, failing, printed>>
        /\ exit' \in {"usage", exit}
    BY <1>5 DEF ParseLang, UserPresets, UserSignatures, ExtraPresets, ExtraSignatures,
                MergePresets, ParseTargets, PresetResolved, Measure, BuildConfig, cliVars
  <2>2. QED
    BY <1>1, <1>2, <1>3, <2>1
<1>6. CASE ListLine \/ ResolvePreset \/ Walk \/ Interrupt
  <2>1. stage # "returned" /\ UNCHANGED <<failing, exit>>
    BY <1>6 DEF ListLine, ResolvePreset, Walk, Interrupt, cliVars, CliInv, WalkInOrder,
                Include, Collect, Leave, Walking
  <2>2. QED
    BY <1>1, <1>2, <2>1
<1>7. CASE ListNext
  <2>1. CASE Unlisted = {}
    <3>1. /\ stage = "list" /\ exit' = "ok" /\ stage' = "returned"
          /\ UNCHANGED <<set, cmd, listed, failing, printed>>
      BY <1>7, <2>1 DEF ListNext, presetVars, cliVars
    <3>2. printed' = "nothing" /\ cmd.list
      BY <1>1, <3>1 DEF CliInv, Configured, At
    <3>3. \A n \in DOMAIN set.presets : listed[n] = Count(n)
      BY <2>1 DEF Unlisted, ListInOrder
    <3>4. QED
      BY <3>1, <3>2, <3>3 DEF ExitTellsTheTruth, Ran, Count
  <2>2. CASE Unlisted # {}
    BY <1>1, <1>2, <1>7, <2>2 DEF ListNext
  <2>3. QED
    BY <2>1, <2>2
<1>8. CASE Run
  BY <1>1, <1>2, <1>8 DEF Run
<1>9. CASE CheckInterrupt
  <2>1. stage = "check" /\ UNCHANGED <<failing, ctx, printed>> /\ printed = "nothing"
    BY <1>1, <1>9 DEF CheckInterrupt, cliVars
  <2>2. CASE ctx = "cancelled"
    BY <1>9, <2>1, <2>2 DEF CheckInterrupt, ExitTellsTheTruth
  <2>3. CASE ctx # "cancelled"
    BY <1>1, <1>2, <1>9, <2>1, <2>3 DEF CheckInterrupt
  <2>4. QED
    BY <2>1, <2>2, <2>3
<1>10. CASE PrintReport
  <2>1. /\ stage' = "returned" /\ printed' \in {"whole", "part"} /\ UNCHANGED <<cmd, failing>>
        /\ exit' = IF cmd.json /\ printed' = "part" THEN "usage"
                   ELSE IF failing > 0 THEN "problems" ELSE "ok"
    BY <1>10 DEF PrintReport
  <2>2. Ran' /\ failing' \in Nat
    BY <2>1 DEF Ran
  <2>3. QED
    BY <2>1, <2>2 DEF ExitTellsTheTruth
<1>11. CASE UNCHANGED vars
  <2>1. UNCHANGED <<set, cmd, listed, failing, ctx, printed, stage, exit>>
    BY <1>11 DEF vars, presetVars, cliVars
  <2>2. QED
    BY <2>1 DEF ExitTellsTheTruth, Ran
<1>12. QED
  BY <1>4, <1>5, <1>6, <1>7, <1>8, <1>9, <1>10, <1>11 DEF Next, Step, Returned

LEMMA ExitInOrder == Spec => []ExitInv
<1>1. Init => ExitInv
  <2>1. SUFFICES ASSUME Init PROVE ExitInv
    OBVIOUS
  <2>2. failing \in Nat /\ ExitTellsTheTruth
    BY <2>1 DEF Init, ExitTellsTheTruth
  <2>3. listed = [n \in Names |-> Unprinted]
    BY <2>1 DEF Init
  <2>4. DOMAIN set.presets \subseteq Names
    BY <2>1, InitInOrder DEF CliInv, TypeOK
  <2>5. QED
    BY <2>2, <2>3, <2>4 DEF ExitInv, ListInOrder
<1>2. SetSound /\ CliInv /\ CliInv' /\ ResolveInv /\ ExitInv /\ [Next]_vars => ExitInv'
  BY ListStep, ExitStep DEF ExitInv
<1>3. QED
  BY <1>1, <1>2, CommandInOrder, SetStaysSound, ResolveInOrder, PTL DEF Spec

\* The exit code says what happened, and the listing has counted right (cli.go:27-32).
THEOREM ExitIsTrue == Spec => []ExitTellsTheTruth
<1>1. ExitInv => ExitTellsTheTruth
  BY DEF ExitInv
<1>2. QED
  BY <1>1, ExitInOrder, PTL

-----------------------------------------------------------------------------
(* That Main ends. *)

\* The number with these digits to the base b + 1, the first k of them.
Weighed(d, b) ==
    LET w[k \in Nat] == IF k = 0 THEN 0 ELSE w[k-1] * (b + 1) + d[k] IN w

LEMMA WeighedIs ==
    ASSUME NEW b \in Nat, NEW d \in [Nat -> 0..b]
    PROVE  /\ Weighed(d, b)[0] = 0
           /\ \A k \in Nat : Weighed(d, b)[k] \in Nat
           /\ \A k \in Nat : Weighed(d, b)[k+1] = Weighed(d, b)[k] * (b + 1) + d[k+1]
<1> DEFINE step == [k \in Nat |-> [x \in Nat |-> x * (b + 1) + d[k+1]]]
           Good(g) == g = [k \in Nat |-> IF k = 0 THEN 0 ELSE g[k-1] * (b + 1) + d[k]]
<1>1. ASSUME NEW k \in Nat, NEW x \in Nat PROVE x * (b + 1) + d[k+1] \in Nat
  <2>1. d[k+1] \in Nat
    BY <1>1
  <2>2. x * (b + 1) \in Nat
    BY <1>1
  <2>3. QED
    BY <2>1, <2>2
<1>2. step \in [Nat -> [Nat -> Nat]]
  BY <1>1, Zenon
<1>3. \A k \in Nat : \A x \in Nat : step[k][x] = x * (b + 1) + d[k+1]
  OBVIOUS
<1> HIDE DEF step
<1>4. 0 \in Nat
  OBVIOUS
<1>5. PICK f : AllSteps(Nat, 0, step, f)
  BY <1>2, <1>4, Recursion
<1>6. /\ f \in [Nat -> Nat] /\ f[0] = 0
      /\ \A k \in Nat : f[k+1] = f[k] * (b + 1) + d[k+1]
  BY <1>3, <1>5 DEF AllSteps
<1>7. Good(f)
  <2>1. ASSUME NEW k \in Nat, k # 0 PROVE f[k] = f[k-1] * (b + 1) + d[k]
    <3>1. k - 1 \in Nat /\ (k-1) + 1 = k
      BY <2>1
    <3>2. f[(k-1)+1] = f[k-1] * (b + 1) + d[(k-1)+1]
      BY <1>6, <3>1, Zenon
    <3>3. QED
      BY <3>1, <3>2, Zenon
  <2>2. f = [k \in Nat |-> f[k]]
    BY <1>6
  <2>3. \A k \in Nat : f[k] = IF k = 0 THEN 0 ELSE f[k-1] * (b + 1) + d[k]
    BY <1>6, <2>1, Zenon
  <2>4. QED
    BY <2>2, <2>3, Zenon
<1>8. Weighed(d, b) = CHOOSE g : Good(g)
  BY DEF Weighed
<1> DEFINE w == Weighed(d, b)
<1>9. Good(w)
  BY <1>7, <1>8
<1> HIDE DEF w
<1>10. w = [k \in Nat |-> IF k = 0 THEN 0 ELSE w[k-1] * (b + 1) + d[k]]
  BY <1>9
<1>11. w[0] = 0
  BY <1>4, <1>10, Zenon
<1>12. ASSUME NEW k \in Nat PROVE w[k+1] = w[k] * (b + 1) + d[k+1]
  <2>1. k + 1 \in Nat /\ k + 1 # 0 /\ (k+1) - 1 = k
    OBVIOUS
  <2>2. w[k+1] = w[(k+1)-1] * (b + 1) + d[k+1]
    BY <1>10, <2>1, Zenon
  <2>3. QED
    BY <2>1, <2>2, Zenon
<1>13. \A k \in Nat : w[k] \in Nat
  <2> DEFINE Bad == {k \in Nat : w[k] \notin Nat}
  <2>1. SUFFICES ASSUME Bad # {} PROVE FALSE
    OBVIOUS
  <2>2. Bad \in SUBSET Nat
    OBVIOUS
  <2>3. PICK k \in Bad : \A l \in Bad : k <= l
    BY <2>1, <2>2, Least
  <2>4. k # 0
    BY <1>4, <1>11, <2>3, Zenon
  <2>5. k - 1 \in Nat /\ (k-1) + 1 = k /\ ~(k <= k - 1)
    BY <2>3, <2>4
  <2>6. w[k-1] \in Nat
    BY <2>3, <2>5, Zenon
  <2>7. w[(k-1)+1] = w[k-1] * (b + 1) + d[(k-1)+1]
    BY <1>12, <2>5, Zenon
  <2>8. w[(k-1)+1] \in Nat
    BY <1>1, <2>5, <2>6, <2>7, Zenon
  <2>9. QED
    BY <2>3, <2>5, <2>8, Zenon
<1>14. QED
  BY <1>11, <1>12, <1>13 DEF w

\* A number is smaller when the first digit that differs is.
LEMMA WeighsLess ==
    ASSUME NEW b \in Nat, NEW d \in [Nat -> 0..b], NEW e \in [Nat -> 0..b],
           NEW k \in Nat \ {0}, \A j \in 1..k-1 : e[j] = d[j], e[k] < d[k],
           NEW n \in Nat, k <= n
    PROVE  Weighed(e, b)[n] < Weighed(d, b)[n]
<1> DEFINE v == Weighed(e, b)
           w == Weighed(d, b)
<1>1. /\ v[0] = 0 /\ w[0] = 0
      /\ \A m \in Nat : v[m] \in Nat /\ w[m] \in Nat
      /\ \A m \in Nat : v[m+1] = v[m] * (b + 1) + e[m+1]
      /\ \A m \in Nat : w[m+1] = w[m] * (b + 1) + d[m+1]
  BY WeighedIs, Zenon
<1> HIDE DEF v, w
<1>3. \A m \in 0..k-1 : v[m] = w[m]
  <2> DEFINE Bad == {m \in 0..k-1 : v[m] # w[m]}
  <2>1. SUFFICES ASSUME Bad # {} PROVE FALSE
    OBVIOUS
  <2>2. Bad \in SUBSET Nat
    OBVIOUS
  <2>3. PICK m \in Bad : \A l \in Bad : m <= l
    BY <2>1, <2>2, Least
  <2>4. m # 0
    BY <1>1, <2>3, Zenon
  <2>5. m - 1 \in Nat /\ m - 1 \in 0..k-1 /\ (m-1) + 1 = m /\ ~(m <= m - 1) /\ m \in 1..k-1
    BY <2>3, <2>4
  <2>6. v[m-1] = w[m-1] /\ e[m] = d[m]
    BY <2>3, <2>5, Zenon
  <2>7. v[(m-1)+1] = v[m-1] * (b + 1) + e[(m-1)+1] /\ w[(m-1)+1] = w[m-1] * (b + 1) + d[(m-1)+1]
    BY <1>1, <2>5, Zenon
  <2>8. v[m] = w[m]
    BY <2>5, <2>6, <2>7, Zenon
  <2>9. QED
    BY <2>3, <2>8, Zenon
<1> DEFINE Bad == {m \in Nat : k <= m /\ ~(v[m] < w[m])}
<1>4. SUFFICES ASSUME Bad # {} PROVE FALSE
  BY DEF v, w
<1>5. Bad \in SUBSET Nat
  OBVIOUS
<1>6. PICK m \in Bad : \A l \in Bad : m <= l
  BY <1>4, <1>5, Least
<1>7. m - 1 \in Nat /\ (m-1) + 1 = m /\ ~(m <= m - 1) /\ k <= m /\ m \in Nat
  BY <1>6
<1>8. v[(m-1)+1] = v[m-1] * (b + 1) + e[(m-1)+1] /\ w[(m-1)+1] = w[m-1] * (b + 1) + d[(m-1)+1]
  BY <1>1, <1>7, Zenon
<1>9. v[m-1] \in Nat /\ w[m-1] \in Nat
  BY <1>1, <1>7, Zenon
<1>10. CASE m = k
  <2>1. v[m-1] = w[m-1] /\ e[m] < d[m]
    BY <1>3, <1>7, <1>10
  <2>2. v[m] = v[m-1] * (b + 1) + e[m] /\ w[m] = v[m-1] * (b + 1) + d[m]
    BY <1>7, <1>8, <2>1, Zenon
  <2>3. e[m] \in Int /\ d[m] \in Int /\ v[m-1] * (b + 1) \in Int
    BY <1>7, <1>9
  <2>4. v[m] < w[m]
    BY <2>1, <2>2, <2>3
  <2>5. QED
    BY <1>6, <2>4
<1>11. CASE m # k
  <2>1. k <= m - 1
    BY <1>7, <1>11
  <2>2. v[m-1] < w[m-1]
    BY <1>6, <1>7, <2>1, Zenon
  <2>3. e[m] \in 0..b /\ d[m] \in 0..b
    BY <1>7
  <2>4. ASSUME NEW x \in Nat, NEW y \in Nat, x < y PROVE x * (b + 1) + b < y * (b + 1)
    <3> DEFINE z == y - x - 1
    <3>1. z \in Nat /\ y = x + 1 + z
      BY <2>4
    <3> HIDE DEF z
    <3>2. y * (b + 1) = x * (b + 1) + (b + 1) + z * (b + 1)
      BY <3>1
    <3>3. z * (b + 1) \in Nat /\ x * (b + 1) \in Nat
      BY <3>1
    <3>4. QED
      BY <3>2, <3>3
  <2>5. v[m-1] * (b + 1) + b < w[m-1] * (b + 1)
    BY <1>9, <2>2, <2>4, Zenon
  <2>6. v[m-1] * (b + 1) \in Nat /\ w[m-1] * (b + 1) \in Nat
    BY <1>9
  <2>7. v[m-1] * (b + 1) + e[m] < w[m-1] * (b + 1) + d[m]
    BY <2>3, <2>5, <2>6
  <2>8. v[m] < w[m]
    BY <1>7, <1>8, <2>7, Zenon
  <2>9. QED
    BY <1>6, <2>8
<1>12. QED
  BY <1>10, <1>11

\* What is left to do in a call: its includes, its targets and its return.
Work(p, f) ==
    (Len(IncludesOf(p, f.name)) + 1 - f.next) + (Len(TargetsOf(p, f.name)) + 1 - f.target) + 1

\* More than any call has to do.
IsWidth(p, b) ==
    \A n \in DOMAIN p : Len(IncludesOf(p, n)) + Len(TargetsOf(p, n)) + 2 <= b
Width(p) == CHOOSE b \in Nat : IsWidth(p, b)

LEMMA Widest ==
    ASSUME NEW p, SoundPresets(p)
    PROVE  Width(p) \in Nat /\ IsWidth(p, Width(p))
<1> DEFINE long(n) == Len(IncludesOf(p, n)) + Len(TargetsOf(p, n)) + 2
           Wide(k, b) == \A n \in DOMAIN p : n <= k => long(n) <= b
           Bad == {k \in Nat : ~\E b \in Nat : Wide(k, b)}
<1>1. /\ \A n \in DOMAIN p : long(n) \in Nat
      /\ DOMAIN p \subseteq 1..NumNames /\ NumNames \in Nat
  BY PresetTypes, PresetsAssumption DEF SoundPresets, Names
<1> HIDE DEF long
<1>2. Bad = {}
  <2>1. SUFFICES ASSUME Bad # {} PROVE FALSE
    OBVIOUS
  <2>2. PICK k \in Bad : \A l \in Bad : k <= l
    BY <2>1, Least
  <2>3. k \in Nat /\ ~\E b \in Nat : Wide(k, b)
    BY <2>2
  <2>4. k # 0
    <3>1. Wide(0, 0)
      BY <1>1
    <3>2. QED
      BY <2>3, <3>1
  <2>5. k - 1 \in Nat /\ k - 1 \notin Bad
    BY <2>2, <2>3, <2>4
  <2>6. PICK b \in Nat : Wide(k - 1, b)
    BY <2>5
  <2>7. CASE k \in DOMAIN p
    <3>1. b + long(k) \in Nat /\ long(k) <= b + long(k) /\ b <= b + long(k)
      BY <1>1, <2>7
    <3>2. ASSUME NEW n \in DOMAIN p, n <= k PROVE long(n) <= b + long(k)
      <4>1. CASE n = k
        BY <3>1, <4>1
      <4>2. CASE n # k
        BY <1>1, <2>3, <2>6, <3>1, <3>2, <4>2
      <4>3. QED
        BY <4>1, <4>2
    <3>3. Wide(k, b + long(k))
      BY <3>2
    <3>4. QED
      BY <2>3, <3>1, <3>3
  <2>8. CASE k \notin DOMAIN p
    <3>1. Wide(k, b)
      BY <1>1, <2>3, <2>6, <2>8
    <3>2. QED
      BY <2>3, <3>1
  <2>9. QED
    BY <2>7, <2>8
<1>3. PICK b \in Nat : Wide(NumNames, b)
  BY <1>1, <1>2
<1>4. IsWidth(p, b)
  BY <1>1, <1>3 DEF IsWidth, long
<1>5. QED
  BY <1>4 DEF Width

\* The walk's turns that are left, at most: what is left in the calls, the outermost one
\* first. A call that moves on makes the number smaller, however much it opens below.
Digits(p, s) == [k \in Nat |-> IF k \in DOMAIN s THEN Work(p, s[k]) ELSE 0]
WalkTurns(p, s) == Weighed(Digits(p, s), Width(p))[Cardinality(DOMAIN p)]

\* The turns of a whole walk are fewer than these.
AllTurns(p) == Weighed([k \in Nat |-> IF k = 1 THEN Width(p) ELSE 0], Width(p))[Cardinality(DOMAIN p)]

LEMMA PresetsCounted ==
    ASSUME NEW p, SoundPresets(p)
    PROVE  /\ Cardinality(DOMAIN p) \in Nat
           /\ DOMAIN p # {} => 1 <= Cardinality(DOMAIN p)
<1>1. IsFiniteSet(Names)
  BY FS_Interval, PresetsAssumption DEF Names
<1>2. IsFiniteSet(DOMAIN p)
  BY <1>1, FS_Subset DEF SoundPresets
<1>3. Cardinality(DOMAIN p) \in Nat /\ (Cardinality(DOMAIN p) = 0 <=> DOMAIN p = {})
  BY <1>2, FS_CardinalityType, FS_EmptySet
<1>4. QED
  BY <1>3

LEMMA WorkIs ==
    ASSUME NEW p, SoundPresets(p), NEW s, NEW r, Chain(p, s, r)
    PROVE  /\ \A k \in DOMAIN s : Work(p, s[k]) \in 1..Width(p) - 1
           /\ Digits(p, s) \in [Nat -> 0..Width(p)]
<1>1. /\ Len(s) \in Nat \ {0} /\ DOMAIN s = 1..Len(s)
      /\ \A i \in 1..Len(s) : s[i].name \in DOMAIN p
                              /\ s[i].next \in Nat \ {0} /\ s[i].target \in Nat \ {0}
  BY ChainTop
<1>2. Width(p) \in Nat /\ IsWidth(p, Width(p))
  BY Widest
<1>3. ASSUME NEW k \in DOMAIN s PROVE Work(p, s[k]) \in 1..Width(p) - 1
  <2> DEFINE inc == Len(IncludesOf(p, s[k].name))
             ts == Len(TargetsOf(p, s[k].name))
  <2>1. CallInOrder(p, s[k], 0) \/ CallInOrder(p, s[k], 1)
    BY <1>1 DEF Chain
  <2>2. s[k].next <= inc + 1 /\ s[k].target <= ts + 1
    BY <2>1 DEF CallInOrder
  <2>3. inc \in Nat /\ ts \in Nat
    BY PresetTypes
  <2>4. inc + ts + 2 <= Width(p)
    BY <1>1, <1>2 DEF IsWidth
  <2>5. s[k].next \in Nat \ {0} /\ s[k].target \in Nat \ {0}
    BY <1>1
  <2>6. Work(p, s[k]) = (inc + 1 - s[k].next) + (ts + 1 - s[k].target) + 1
    BY DEF Work
  <2> HIDE DEF inc, ts
  <2>7. QED
    BY <1>2, <2>2, <2>3, <2>4, <2>5, <2>6
<1>4. Digits(p, s) \in [Nat -> 0..Width(p)]
  <2>1. 0 \in 0..Width(p) /\ 1..Width(p) - 1 \subseteq 0..Width(p)
    BY <1>2
  <2>2. \A k \in Nat : (IF k \in DOMAIN s THEN Work(p, s[k]) ELSE 0) \in 0..Width(p)
    BY <1>3, <2>1, Zenon
  <2>3. QED
    BY <2>2 DEF Digits
<1>5. QED
  BY <1>3, <1>4

\* The call at k has less to do, or has returned, and none below it has changed.
LEMMA TurnsFall ==
    ASSUME NEW p, SoundPresets(p), NEW r,
           NEW s, Chain(p, s, r), NEW t, Chain(p, t, r),
           NEW k \in DOMAIN s, k <= Cardinality(DOMAIN p),
           \A j \in 1..k-1 : j \in DOMAIN t /\ t[j] = s[j],
           k \in DOMAIN t => Work(p, t[k]) < Work(p, s[k])
    PROVE  WalkTurns(p, t) < WalkTurns(p, s)
<1> DEFINE b == Width(p)
           d == Digits(p, s)
           e == Digits(p, t)
           n == Cardinality(DOMAIN p)
<1>1. b \in Nat /\ n \in Nat
  BY Widest, PresetsCounted
<1>2. d \in [Nat -> 0..b] /\ e \in [Nat -> 0..b] /\ Work(p, s[k]) \in 1..b - 1
  BY WorkIs
<1>3. DOMAIN s = 1..Len(s) /\ Len(s) \in Nat /\ k \in Nat \ {0}
  BY ChainTop
<1>4. ASSUME NEW j \in 1..k-1 PROVE e[j] = d[j]
  <2>1. j \in Nat /\ j \in DOMAIN s /\ j \in DOMAIN t /\ t[j] = s[j]
    BY <1>3
  <2>2. QED
    BY <2>1 DEF Digits
<1>5. e[k] < d[k]
  <2>1. d[k] = Work(p, s[k])
    BY <1>3 DEF Digits
  <2>2. e[k] = IF k \in DOMAIN t THEN Work(p, t[k]) ELSE 0
    BY <1>3 DEF Digits
  <2>3. QED
    BY <1>1, <1>2, <2>1, <2>2
<1> HIDE DEF b, d, e, n
<1>6. Weighed(e, b)[n] < Weighed(d, b)[n]
  BY <1>1, <1>2, <1>3, <1>4, <1>5, WeighsLess DEF n
<1>7. QED
  BY <1>6 DEF WalkTurns, b, d, e, n

LEMMA TurnsAtFirst ==
    ASSUME NEW p, SoundPresets(p)
    PROVE  /\ AllTurns(p) \in Nat
           /\ \A s, r : Chain(p, s, r) => WalkTurns(p, s) \in Nat
           /\ \A s, r : Chain(p, s, r) /\ Len(s) = 1 => WalkTurns(p, s) < AllTurns(p)
<1> DEFINE b == Width(p)
           d == [k \in Nat |-> IF k = 1 THEN b ELSE 0]
           n == Cardinality(DOMAIN p)
<1>1. b \in Nat /\ n \in Nat /\ (DOMAIN p # {} => 1 <= n)
  BY Widest, PresetsCounted
<1>2. d \in [Nat -> 0..b]
  BY <1>1
<1>3. AllTurns(p) = Weighed(d, b)[n]
  BY DEF AllTurns
<1>4. d[1] = b
  OBVIOUS
<1> HIDE DEF b, d, n
<1>5. AllTurns(p) \in Nat
  BY <1>1, <1>2, <1>3, WeighedIs
<1>6. ASSUME NEW s, NEW r, Chain(p, s, r)
      PROVE  WalkTurns(p, s) \in Nat /\ (Len(s) = 1 => WalkTurns(p, s) < AllTurns(p))
  <2> DEFINE e == Digits(p, s)
  <2>1. e \in [Nat -> 0..b]
    BY <1>6, WorkIs DEF b
  <2>2. WalkTurns(p, s) = Weighed(e, b)[n]
    BY DEF WalkTurns, b, n
  <2>3. ASSUME Len(s) = 1 PROVE 1 <= n /\ e[1] < d[1]
    <3>1. DOMAIN s = 1..Len(s) /\ s[1].name \in DOMAIN p
      BY <1>6, <2>3, ChainTop
    <3>2. 1 \in DOMAIN s
      BY <2>3, <3>1
    <3>3. e[1] = Work(p, s[1]) /\ Work(p, s[1]) \in 1..b - 1
      BY <1>6, <3>2, WorkIs DEF Digits, b
    <3>4. QED
      BY <1>1, <1>4, <3>1, <3>3
  <2> HIDE DEF e
  <2>4. WalkTurns(p, s) \in Nat
    BY <1>1, <2>1, <2>2, WeighedIs
  <2>5. ASSUME Len(s) = 1 PROVE Weighed(e, b)[n] < Weighed(d, b)[n]
    <3>1. \A j \in 1..1-1 : e[j] = d[j]
      OBVIOUS
    <3>2. 1 \in Nat \ {0}
      OBVIOUS
    <3>3. QED
      BY <1>1, <1>2, <2>1, <2>3, <2>5, <3>1, <3>2, WeighsLess
  <2>6. QED
    BY <1>3, <2>2, <2>4, <2>5
<1>7. QED
  BY <1>5, <1>6

\* A call that moves on has less to do.
LEMMA WorkFalls ==
    ASSUME NEW p, SoundPresets(p), NEW f, NEW g, g.name = f.name,
           f.next \in Nat, f.target \in Nat, g.next \in Nat, g.target \in Nat,
           f.next + f.target < g.next + g.target
    PROVE  Work(p, g) < Work(p, f)
<1> DEFINE inc == Len(IncludesOf(p, f.name))
           ts == Len(TargetsOf(p, f.name))
<1>1. inc \in Nat /\ ts \in Nat
  BY PresetTypes
<1>2. /\ Work(p, f) = (inc + 1 - f.next) + (ts + 1 - f.target) + 1
      /\ Work(p, g) = (inc + 1 - g.next) + (ts + 1 - g.target) + 1
  BY DEF Work
<1> HIDE DEF inc, ts
<1>3. QED
  BY <1>1, <1>2

WalkLeft == IF walk = "walking" THEN 1 + WalkTurns(set.presets, stack) ELSE 0

\* Each turn of the walk leaves fewer.
LEMMA WalkFalls ==
    ASSUME SoundSet(set), WalkInOrder, WalkInOrder', ResolveInv, ResolveInv',
           Include \/ Collect \/ Leave
    PROVE  WalkLeft' < WalkLeft /\ WalkLeft' \in Nat
<1> DEFINE p == set.presets
           l == Len(stack)
           Falls == WalkTurns(p, stack') < WalkTurns(p, stack)
<1>1. SoundPresets(p)
  BY DEF SoundSet
<1>2. walk = "walking" /\ stack # <<>> /\ set' = set /\ root' = root
  BY DEF Include, Collect, Leave, Walking
<1>3. Chain(p, stack, root)
  BY <1>2 DEF ResolveInv
<1>4. /\ stack \in Seq(Calls) /\ Distinct(stack)
      /\ l \in Nat \ {0} /\ DOMAIN stack = 1..l /\ l <= Cardinality(DOMAIN p)
  BY <1>1, <1>3, ChainTop DEF WalkInOrder, Calls, Distinct
<1>5. WalkTurns(p, stack) \in Nat
  BY <1>1, <1>3, TurnsAtFirst
<1>6. walk' = "walking" => Chain(p, stack', root) /\ WalkTurns(p, stack') \in Nat
  <2>1. SUFFICES ASSUME walk' = "walking" PROVE Chain(p, stack', root) /\ WalkTurns(p, stack') \in Nat
    OBVIOUS
  <2>2. Chain(set'.presets, stack', root')
    BY <2>1 DEF ResolveInv
  <2>3. Chain(p, stack', root)
    BY <1>2, <2>2
  <2>4. QED
    BY <1>1, <2>3, TurnsAtFirst
<1>7. SUFFICES ASSUME walk' = "walking" PROVE Falls
  <2>1. WalkLeft = 1 + WalkTurns(p, stack)
    BY <1>2 DEF WalkLeft
  <2>2. WalkLeft' = IF walk' = "walking" THEN 1 + WalkTurns(p, stack') ELSE 0
    BY <1>2 DEF WalkLeft
  <2> HIDE DEF p
  <2>3. QED
    BY <1>5, <1>6, <1>7, <2>1, <2>2
<1>8. Chain(p, stack', root)
  BY <1>6, <1>7
<1>9. /\ Top = stack[l] /\ Top.next \in Nat \ {0} /\ Top.target \in Nat \ {0}
      /\ LET top == [Top EXCEPT !.next = @ + 1]
         IN  top \in Calls /\ top.name = Top.name /\ top.next = Top.next + 1
             /\ top.target = Top.target
      /\ LET top == [Top EXCEPT !.target = @ + 1]
         IN  top \in Calls /\ top.name = Top.name /\ top.next = Top.next
             /\ top.target = Top.target + 1
  BY <1>2, <1>4, TopMoves
<1>10. ASSUME l \in DOMAIN stack', \A j \in 1..l-1 : j \in DOMAIN stack' /\ stack'[j] = stack[j],
              Work(p, stack'[l]) < Work(p, stack[l])
       PROVE  Falls
  <2>1. l \in DOMAIN stack
    BY <1>4
  <2> HIDE DEF p, l
  <2>2. QED
    BY <1>1, <1>3, <1>4, <1>8, <1>10, <2>1, TurnsFall
<1>11. CASE Include
  <2> DEFINE top == [Top EXCEPT !.next = @ + 1]
             frames == MovedOn(top)
             n == set.presets[Top.name].include[Top.next]
             call == [name |-> n, next |-> 1, target |-> 1]
  <2>1. Call(n, frames)
    BY <1>11 DEF Include, MovedOn
  <2>2. stack' = Append(frames, call)
    BY <1>7, <2>1 DEF Call
  <2>3. top \in Calls /\ top.name = Top.name /\ top.next = Top.next + 1 /\ top.target = Top.target
    BY <1>9
  <2> HIDE DEF top
  <2>4. /\ frames \in Seq(Calls) /\ Len(frames) = l
        /\ \A i \in 1..l-1 : frames[i] = stack[i]
        /\ frames[l] = top
    BY <1>2, <1>4, <2>3, MovedOnStack
  <2> HIDE DEF frames, call, n
  <2>5. /\ DOMAIN stack' = 1..l+1
        /\ \A i \in 1..l : stack'[i] = frames[i]
    BY <1>4, <2>2, <2>4
  <2>6. Work(p, top) < Work(p, Top)
    <3>1. /\ Top.next + Top.target < top.next + top.target
          /\ top.next \in Nat /\ top.target \in Nat /\ Top.next \in Nat /\ Top.target \in Nat
      BY <1>9, <2>3
    <3>2. QED
      BY <1>1, <2>3, <3>1, WorkFalls
  <2>7. /\ l \in DOMAIN stack' /\ stack'[l] = top
        /\ \A j \in 1..l-1 : j \in DOMAIN stack' /\ stack'[j] = stack[j]
    BY <1>4, <2>4, <2>5
  <2>8. QED
    BY <1>9, <1>10, <2>6, <2>7
<1>12. CASE Collect
  <2> DEFINE top == [Top EXCEPT !.target = @ + 1]
             frames == MovedOn(top)
  <2>1. stack' = frames
    BY <1>12 DEF Collect, MovedOn
  <2>2. top \in Calls /\ top.name = Top.name /\ top.next = Top.next /\ top.target = Top.target + 1
    BY <1>9
  <2> HIDE DEF top
  <2>3. /\ DOMAIN frames = DOMAIN stack
        /\ \A i \in 1..l-1 : frames[i] = stack[i]
        /\ frames[l] = top
    BY <1>2, <1>4, <2>2, MovedOnStack
  <2>4. Work(p, top) < Work(p, Top)
    <3>1. /\ Top.next + Top.target < top.next + top.target
          /\ top.next \in Nat /\ top.target \in Nat /\ Top.next \in Nat /\ Top.target \in Nat
      BY <1>9, <2>2
    <3>2. QED
      BY <1>1, <2>2, <3>1, WorkFalls
  <2>5. QED
    BY <1>4, <1>9, <1>10, <2>1, <2>3, <2>4
<1>13. CASE Leave
  <2>1. stack' = Front(stack)
    BY <1>13 DEF Leave
  <2>2. DOMAIN stack' = 1..l - 1 /\ \A i \in 1..l - 1 : stack'[i] = stack[i]
    BY <1>2, <1>4, <2>1, FrontStack
  <2>3. l \in DOMAIN stack /\ l \notin DOMAIN stack'
        /\ \A j \in 1..l-1 : j \in DOMAIN stack' /\ stack'[j] = stack[j]
    BY <1>4, <2>2
  <2> HIDE DEF p, l
  <2>4. QED
    BY <1>1, <1>3, <1>4, <1>8, <2>3, TurnsFall
<1>14. QED
  BY <1>11, <1>12, <1>13

\* The stages of Main that are left, counted from the last.
StagesLeft ==
    CASE stage = "args" -> 11
      [] stage = "lang" -> 10
      [] stage = "userPresets" -> 9
      [] stage = "userSignatures" -> 8
      [] stage = "presetsFile" -> 7
      [] stage = "signaturesFile" -> 6
      [] stage \in {"list", "hosts", "preset"} -> 5
      [] stage = "config" -> 4
      [] stage = "run" -> 3
      [] stage = "check" -> 2
      [] stage = "print" -> 1
      [] OTHER -> 0

\* The steps that are left of a stage, at most: a line and a walk for each preset that is
\* not listed, a walk for the one that is measured, an interrupt for a run.
LinesLeft(lines, walks) == lines * (AllTurns(set.presets) + 2) + walks

StepsLeft ==
    CASE stage = "list" /\ listing = NoName -> LinesLeft(Cardinality(Unlisted), 0)
      [] stage = "list" /\ listing # NoName ->
            LinesLeft(Cardinality(Unlisted) - 1, 1 + WalkLeft)
      [] stage = "preset" -> IF walk = "idle" THEN AllTurns(set.presets) + 1 ELSE WalkLeft
      [] stage \in {"run", "check", "print"} -> IF ctx = "live" THEN 1 ELSE 0
      [] OTHER -> 0

\* The line the listing is at is still to be printed.
LineIsDue == stage = "list" /\ listing # NoName => listing \in Unlisted

MainInv == SetSound /\ CliInv /\ ResolveInv /\ ListInOrder /\ LineIsDue

LEMMA WalkLeftIs ==
    ASSUME SetSound, ResolveInv
    PROVE  WalkLeft \in Nat /\ AllTurns(set.presets) \in Nat
<1>1. SoundPresets(set.presets)
  BY DEF SetSound, SoundSet
<1>2. AllTurns(set.presets) \in Nat
  BY <1>1, TurnsAtFirst
<1>3. walk = "walking" => WalkTurns(set.presets, stack) \in Nat
  BY <1>1, TurnsAtFirst DEF ResolveInv
<1>4. QED
  BY <1>2, <1>3 DEF WalkLeft

\* A walk begins with fewer turns than all there are.
LEMMA WalkBegins ==
    ASSUME SetSound, SetSound', ResolveInv', NEW n, BeginResolve(n)
    PROVE  set' = set /\ WalkLeft' \in Nat /\ WalkLeft' <= AllTurns(set.presets)
<1> DEFINE p == set.presets
<1>1. set' = set /\ Call(n, <<>>)
  BY DEF BeginResolve
<1>2. SoundPresets(p) /\ AllTurns(p) \in Nat
  BY TurnsAtFirst DEF SetSound, SoundSet
<1>3. CASE walk' = "walking"
  <2>1. stack' = Append(<<>>, [name |-> n, next |-> 1, target |-> 1])
    BY <1>1, <1>3 DEF Call
  <2>2. Len(stack') = 1
    BY <2>1
  <2>3. Chain(p, stack', root')
    BY <1>1, <1>3 DEF ResolveInv
  <2>4. WalkTurns(p, stack') < AllTurns(p) /\ WalkTurns(p, stack') \in Nat
    BY <1>2, <2>2, <2>3, TurnsAtFirst
  <2>5. WalkLeft' = 1 + WalkTurns(p, stack')
    BY <1>1, <1>3 DEF WalkLeft
  <2> HIDE DEF p
  <2>6. QED
    BY <1>1, <1>2, <2>4, <2>5 DEF p
<1>4. CASE walk' # "walking"
  <2>1. WalkLeft' = 0
    BY <1>4 DEF WalkLeft
  <2> HIDE DEF p
  <2>2. QED
    BY <1>1, <1>2, <2>1 DEF p
<1>5. QED
  BY <1>3, <1>4

LEMMA UnlistedCounted ==
    ASSUME TypeOK
    PROVE  /\ Cardinality(Unlisted) \in Nat
           /\ Unlisted # {} => 1 <= Cardinality(Unlisted)
           /\ \A n \in Unlisted : Cardinality(Unlisted \ {n}) = Cardinality(Unlisted) - 1
<1>1. IsFiniteSet(Names)
  BY FS_Interval, PresetsAssumption DEF Names
<1>2. Unlisted \in SUBSET Names
  BY DEF Unlisted, TypeOK
<1>3. IsFiniteSet(Unlisted)
  BY <1>1, <1>2, FS_Subset
<1>4. Cardinality(Unlisted) \in Nat /\ (Cardinality(Unlisted) = 0 <=> Unlisted = {})
  BY <1>3, FS_CardinalityType, FS_EmptySet
<1>5. \A n \in Unlisted : Cardinality(Unlisted \ {n}) = Cardinality(Unlisted) - 1
  BY <1>3, FS_RemoveElement
<1>6. QED
  BY <1>4, <1>5

LEMMA StepsLeftIs ==
    ASSUME MainInv
    PROVE  StagesLeft \in Nat /\ StepsLeft \in Nat
<1>1. WalkLeft \in Nat /\ AllTurns(set.presets) \in Nat
  BY WalkLeftIs DEF MainInv
<1>2. /\ Cardinality(Unlisted) \in Nat
      /\ Unlisted # {} => Cardinality(Unlisted) - 1 \in Nat
  BY UnlistedCounted DEF MainInv, CliInv
<1>3. ASSUME NEW u \in Nat, NEW w \in Nat PROVE LinesLeft(u, w) \in Nat
  <2>1. \A t \in Nat : u * (t + 2) + w \in Nat
    OBVIOUS
  <2>2. QED
    BY <1>1, <2>1 DEF LinesLeft
<1>4. stage = "list" /\ listing # NoName => Unlisted # {}
  BY DEF MainInv, LineIsDue
<1>5. StepsLeft \in Nat
  BY <1>1, <1>2, <1>3, <1>4 DEF StepsLeft
<1>6. StagesLeft \in Nat
  BY DEF StagesLeft
<1>7. QED
  BY <1>5, <1>6

\* A line is printed for a preset that had none.
LEMMA LinePrinted ==
    ASSUME MainInv, ListLine
    PROVE  Unlisted' = Unlisted \ {listing} /\ listing \in Unlisted
<1>1. /\ listing \in Unlisted /\ DOMAIN set.presets \subseteq Names
      /\ listed' = [listed EXCEPT ![listing] = Len(Resolved)] /\ set' = set
  BY DEF MainInv, LineIsDue, ListLine, presetVars, CliInv, TypeOK
<1>2. Len(Resolved) # Unprinted
  <2>1. Resolved \in Seq(Entries)
    BY DEF Resolved, MainInv, ResolveInv
  <2>2. Len(Resolved) \in Nat
    BY <2>1, LenProperties
  <2>3. QED
    BY <2>2 DEF Unprinted
<1>3. \A n \in Names : listed'[n] = IF n = listing THEN Len(Resolved) ELSE listed[n]
  BY <1>1 DEF MainInv, ListInOrder
<1>4. QED
  BY <1>1, <1>2, <1>3 DEF Unlisted

LEMMA LineStep ==
    ASSUME MainInv, [Next]_vars
    PROVE  LineIsDue'
<1>1. CASE ListNext
  <2>1. CASE Unlisted = {}
    BY <1>1, <2>1 DEF ListNext, ReturnWith, LineIsDue
  <2>2. CASE Unlisted # {}
    <3>1. listing' \in Unlisted /\ UNCHANGED <<set, listed>>
      BY <1>1, <2>2, NextListed DEF MainInv, CliInv, ListNext, BeginResolve
    <3>2. QED
      BY <3>1 DEF LineIsDue, Unlisted
  <2>3. QED
    BY <2>1, <2>2
<1>2. CASE ListLine
  BY <1>2 DEF ListLine, LineIsDue
<1>3. CASE Walk \/ Interrupt \/ UNCHANGED vars
  <2>1. UNCHANGED <<set, stage, listing, listed>>
    BY <1>3 DEF Walk, Include, Collect, Leave, Interrupt, vars, presetVars, cliVars
  <2>2. QED
    BY <2>1 DEF MainInv, LineIsDue, Unlisted
<1>4. CASE ParseArgs \/ ParseLang \/ UserPresets \/ UserSignatures \/ ExtraPresets
             \/ ExtraSignatures \/ ParseTargets \/ ResolvePreset \/ PresetResolved
             \/ BuildConfig \/ Run \/ CheckInterrupt \/ PrintReport
  <2>1. stage # "list" /\ UNCHANGED listing
    BY <1>4 DEF ParseArgs, ParseLang, UserPresets, UserSignatures, ExtraPresets, ExtraSignatures,
                MergePresets, ParseTargets, Measure, ResolvePreset, PresetResolved, BuildConfig,
                Run, CheckInterrupt, PrintReport, cliVars
  <2>2. listing' = NoName
    BY <2>1 DEF MainInv, CliInv, WalkInOrder
  <2>3. QED
    BY <2>2 DEF LineIsDue
<1>5. QED
  BY <1>1, <1>2, <1>3, <1>4 DEF Next, Step, Returned

\* Every step but a stutter is one nearer to the end.
MainAdvances ==
    \/ StagesLeft' < StagesLeft
    \/ StagesLeft' = StagesLeft /\ StepsLeft' < StepsLeft

LEMMA MainStep ==
    ASSUME MainInv, MainInv', Next, vars' # vars
    PROVE  MainAdvances
<1>1. StagesLeft \in Nat /\ StepsLeft \in Nat
  BY StepsLeftIs
<1>2. CASE ParseArgs \/ ParseLang \/ UserPresets \/ UserSignatures \/ ExtraPresets
             \/ ExtraSignatures \/ ParseTargets \/ PresetResolved
             \/ BuildConfig \/ Run \/ CheckInterrupt \/ PrintReport
  <2>1. CASE ParseArgs \/ ParseLang
    BY <2>1 DEF ParseArgs, ParseLang, Require, ReturnWith, Continue, StagesLeft, MainAdvances
  <2>2. CASE UserPresets \/ UserSignatures
    <3>1. CASE UserPresets
      <4>1. stage = "userPresets" /\ stage' \in {"userSignatures", "returned"}
        BY <3>1 DEF UserPresets, MergePresets, Require, ReturnWith, Continue
      <4>2. QED
        BY <4>1 DEF StagesLeft, MainAdvances
    <3>2. CASE UserSignatures
      BY <3>2 DEF UserSignatures, Require, ReturnWith, Continue, StagesLeft, MainAdvances
    <3>3. QED
      BY <2>2, <3>1, <3>2
  <2>3. CASE ExtraPresets \/ ExtraSignatures
    <3>1. CASE ExtraPresets
      <4>1. stage = "presetsFile" /\ stage' \in {"signaturesFile", "returned"}
        BY <3>1 DEF ExtraPresets, MergePresets, Require, ReturnWith, Continue
      <4>2. QED
        BY <4>1 DEF StagesLeft, MainAdvances
    <3>2. CASE ExtraSignatures
      <4>1. stage = "signaturesFile" /\ stage' \in {"list", "hosts", "preset", "returned"}
        BY <3>2 DEF ExtraSignatures, Require, ReturnWith, Continue
      <4>2. QED
        BY <4>1 DEF StagesLeft, MainAdvances
    <3>3. QED
      BY <2>3, <3>1, <3>2
  <2>4. CASE ParseTargets \/ PresetResolved
    BY <2>4 DEF ParseTargets, PresetResolved, Measure, Require, ReturnWith, Continue,
                StagesLeft, MainAdvances
  <2>5. CASE BuildConfig \/ Run \/ CheckInterrupt \/ PrintReport
    BY <2>5 DEF BuildConfig, Run, CheckInterrupt, PrintReport, Require, ReturnWith, Continue,
                StagesLeft, MainAdvances
  <2>6. QED
    BY <1>2, <2>1, <2>2, <2>3, <2>4, <2>5
<1> DEFINE all == AllTurns(set.presets)
           lines == Cardinality(Unlisted)
<1>3. all \in Nat /\ WalkLeft \in Nat /\ lines \in Nat /\ (Unlisted # {} => 1 <= lines)
  BY WalkLeftIs, UnlistedCounted DEF MainInv, CliInv
<1>4. CASE ListNext
  <2>1. stage = "list" /\ listing = NoName
    BY <1>4 DEF ListNext
  <2>2. CASE Unlisted = {}
    <3>1. stage' = "returned"
      BY <1>4, <2>2 DEF ListNext, ReturnWith
    <3>2. QED
      BY <2>1, <3>1 DEF StagesLeft, MainAdvances
  <2>3. CASE Unlisted # {}
    <3>1. /\ listing' \in Names /\ listing' # NoName /\ BeginResolve(listing')
          /\ UNCHANGED <<listed, stage>>
      BY <1>4, <2>3, NextListed DEF MainInv, CliInv, ListNext
    <3>2. set' = set /\ WalkLeft' <= all /\ WalkLeft' \in Nat
      BY <3>1, WalkBegins DEF MainInv
    <3> DEFINE few == (lines - 1) * (all + 2)
               many == lines * (all + 2)
    <3>3. StepsLeft = many + 0
      BY <2>1 DEF StepsLeft, LinesLeft
    <3>4. StepsLeft' = few + (1 + WalkLeft')
      BY <2>1, <3>1, <3>2 DEF StepsLeft, LinesLeft, Unlisted
    <3> HIDE DEF all, lines
    <3>5. few = many - (all + 2) /\ many \in Nat
      BY <1>3
    <3> HIDE DEF few, many
    <3>6. \A a, w, m \in Nat : w <= a => (m - (a + 2)) + (1 + w) < m + 0
      OBVIOUS
    <3>7. StepsLeft' < StepsLeft
      BY <1>3, <3>2, <3>3, <3>4, <3>5, <3>6, Zenon
    <3>8. QED
      BY <3>1, <3>7 DEF StagesLeft, MainAdvances
  <2>4. QED
    BY <2>2, <2>3
<1>5. CASE ListLine
  <2>1. /\ stage = "list" /\ listing # NoName /\ walk # "walking"
        /\ stage' = stage /\ listing' = NoName /\ set' = set
    BY <1>5 DEF ListLine, presetVars
  <2>2. Unlisted' = Unlisted \ {listing} /\ listing \in Unlisted
    BY <1>5, LinePrinted
  <2>3. Cardinality(Unlisted') = lines - 1
    BY <2>2, UnlistedCounted DEF MainInv, CliInv
  <2>4. StepsLeft = (lines - 1) * (all + 2) + (1 + 0)
    BY <2>1 DEF StepsLeft, LinesLeft, WalkLeft
  <2>5. StepsLeft' = (lines - 1) * (all + 2) + 0
    BY <2>1, <2>3 DEF StepsLeft, LinesLeft
  <2> HIDE DEF all, lines
  <2>6. (lines - 1) * (all + 2) \in Int
    BY <1>3
  <2>7. StepsLeft' < StepsLeft
    BY <2>4, <2>5, <2>6
  <2>8. QED
    BY <2>1, <2>7 DEF StagesLeft, MainAdvances
<1>6. CASE ResolvePreset
  <2>1. stage = "preset" /\ walk = "idle" /\ stage' = stage /\ BeginResolve(Asked)
    BY <1>6 DEF ResolvePreset
  <2>2. set' = set /\ WalkLeft' <= all /\ WalkLeft' \in Nat
    BY <2>1, WalkBegins DEF MainInv
  <2>3. walk' # "idle"
    BY <2>1 DEF BeginResolve, Call
  <2>4. StepsLeft = all + 1 /\ StepsLeft' = WalkLeft'
    BY <2>1, <2>3 DEF StepsLeft
  <2> HIDE DEF all
  <2>5. QED
    BY <1>3, <2>1, <2>2, <2>4 DEF StagesLeft, MainAdvances
<1>7. CASE Walk
  <2>1. /\ WalkLeft' < WalkLeft /\ WalkLeft' \in Nat
        /\ UNCHANGED <<set, stage, listing, listed>>
    BY <1>7, WalkFalls
       DEF Walk, Include, Collect, Leave, cliVars, MainInv, CliInv, SetSound
  <2>2. walk = "walking"
    BY <1>7 DEF Walk, Include, Collect, Leave, Walking
  <2>3. stage \in {"list", "preset"} /\ (stage = "list" => listing # NoName)
    BY <2>2 DEF MainInv, CliInv, WalkInOrder
  <2>4. CASE stage = "list"
    <3> DEFINE few == (lines - 1) * (all + 2)
    <3>1. StepsLeft = few + (1 + WalkLeft)
      BY <2>3, <2>4 DEF StepsLeft, LinesLeft
    <3>2. StepsLeft' = few + (1 + WalkLeft')
      BY <2>1, <2>3, <2>4 DEF StepsLeft, LinesLeft, Unlisted
    <3> HIDE DEF all, lines
    <3>3. few \in Int
      BY <1>3
    <3> HIDE DEF few
    <3>4. \A f \in Int : \A w, v \in Nat : w < v => f + (1 + w) < f + (1 + v)
      OBVIOUS
    <3>5. StepsLeft' < StepsLeft
      BY <1>3, <2>1, <3>1, <3>2, <3>3, <3>4, Zenon
    <3>6. QED
      BY <2>1, <3>5 DEF StagesLeft, MainAdvances
  <2>5. CASE stage = "preset"
    <3>1. walk' # "idle"
      BY <1>7, <2>2 DEF Walk, Include, Collect, Leave, Call
    <3>2. StepsLeft = WalkLeft /\ StepsLeft' = WalkLeft'
      BY <2>1, <2>2, <2>5, <3>1 DEF StepsLeft
    <3>3. QED
      BY <2>1, <3>2 DEF StagesLeft, MainAdvances
  <2>6. QED
    BY <2>3, <2>4, <2>5
<1>8. CASE Interrupt
  <2>1. stage \in {"run", "check", "print"} /\ ctx = "live" /\ ctx' = "cancelled" /\ stage' = stage
    BY <1>8 DEF Interrupt
  <2>2. StepsLeft = 1 /\ StepsLeft' = 0
    BY <2>1 DEF StepsLeft
  <2>3. QED
    BY <2>1, <2>2 DEF StagesLeft, MainAdvances
<1>9. ~Returned
  BY DEF Returned
<1>10. QED
  BY <1>2, <1>4, <1>5, <1>6, <1>7, <1>8, <1>9 DEF Next, Step

\* Main ends on any command and any files: every step leaves fewer stages, or fewer steps of
\* its stage, and both are natural numbers. What could go on for ever is Resolve's walk, over
\* presets that include themselves or, as they may, each other ever so often.
THEOREM StepsAreBounded ==
    Spec => /\ [](StagesLeft \in Nat /\ StepsLeft \in Nat)
            /\ [][MainAdvances]_vars
<1>1. Spec => []LineIsDue
  <2>1. Init => LineIsDue
    BY DEF Init, LineIsDue
  <2>2. SetSound /\ CliInv /\ ResolveInv /\ ExitInv /\ LineIsDue /\ [Next]_vars => LineIsDue'
    BY LineStep DEF MainInv, ExitInv
  <2>3. QED
    BY <2>1, <2>2, CommandInOrder, SetStaysSound, ResolveInOrder, ExitInOrder, PTL DEF Spec
<1>2. SetSound /\ CliInv /\ ResolveInv /\ ExitInv /\ LineIsDue => MainInv
  BY DEF MainInv, ExitInv
<1>3. MainInv => StagesLeft \in Nat /\ StepsLeft \in Nat
  BY StepsLeftIs
<1>4. MainInv /\ MainInv' /\ [Next]_vars => [MainAdvances]_vars
  BY MainStep
<1>5. QED
  BY <1>1, <1>2, <1>3, <1>4, CommandInOrder, SetStaysSound, ResolveInOrder, ExitInOrder, PTL DEF Spec
=============================================================================
