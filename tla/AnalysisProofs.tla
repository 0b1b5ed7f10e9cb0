--------------------------- MODULE AnalysisProofs ---------------------------
(***************************************************************************)
(* What dnscheck.Analyze concludes, for every set of addresses and         *)
(* signatures and every number of resolvers.                               *)
(***************************************************************************)
EXTENDS DnsAnalysis, WellFoundedInduction, TLAPS

-----------------------------------------------------------------------------
(* Lemmas about answers and the reference. *)

LEMMA AnswerFacts ==
    ASSUME NEW a \in MaybeAnswer
    PROVE  /\ a.addrs \subseteq Addr
           /\ OK(a) <=> a.addrs # {}
           /\ a.addrs # {} => a.err = ""
<1>1. CASE \E as \in (SUBSET Addr) \ {{}} : a = Found(as)
  <2>1. PICK as \in (SUBSET Addr) \ {{}} : a = Found(as)
    BY <1>1
  <2>2. a.addrs = as /\ a.err = ""
    BY <2>1 DEF Found
  <2>3. QED
    BY <2>2 DEF OK
<1>2. CASE \E e \in Failures \cup {""} : a = Failed(e)
  <2>1. PICK e \in Failures \cup {""} : a = Failed(e)
    BY <1>2
  <2>2. a.addrs = {}
    BY <2>1 DEF Failed
  <2>3. QED
    BY <2>2 DEF OK
<1>3. Absent = Failed("")
  BY DEF Absent, Failed
<1>4. a = Absent \/ (\E as \in (SUBSET Addr) \ {{}} : a = Found(as))
                 \/ (\E e \in Failures : a = Failed(e))
  BY Zenon DEF MaybeAnswer, Answer
<1>5. QED
  BY <1>1, <1>2, <1>3, <1>4

\* When some public answer is clean, FirstClean is the first such.
LEMMA FirstCleanIsFirst ==
    ASSUME NEW r, \E i \in Public : Clean(r.public[i])
    PROVE  /\ FirstClean(r) \in Public
           /\ Clean(r.public[FirstClean(r)])
           /\ \A j \in 1..FirstClean(r)-1 : ~Clean(r.public[j])
<1> DEFINE T == {i \in Public : Clean(r.public[i])}
<1>1. T \subseteq Nat /\ T # {}
  BY DnsAssumption DEF Public
<1>2. PICK m \in T : \A j \in T : ~(<<j, m>> \in OpToRel(<, Nat))
  BY <1>1, WFMin, NatLessThanWellFounded
<1>3. \A j \in T : ~(j < m)
  BY <1>1, <1>2 DEF OpToRel
<1>4. \A j \in 1..m-1 : ~Clean(r.public[j])
  BY <1>3, DnsAssumption DEF Public
<1>5. \E i \in Public : Clean(r.public[i]) /\ \A j \in 1..i-1 : ~Clean(r.public[j])
  BY <1>4
<1>6. QED
  BY <1>5 DEF FirstClean

LEMMA NoneClean ==
    ASSUME NEW r, ~ \E i \in Public : Clean(r.public[i])
    PROVE  FirstClean(r) = 0
BY DEF FirstClean

LEMMA FirstCleanZero ==
    ASSUME NEW r
    PROVE  FirstClean(r) = 0 <=> ~ \E i \in Public : Clean(r.public[i])
<1>1. CASE \E i \in Public : Clean(r.public[i])
  <2>1. FirstClean(r) \in Public
    BY <1>1, FirstCleanIsFirst
  <2>2. FirstClean(r) # 0
    BY <2>1, DnsAssumption DEF Public
  <2>3. QED
    BY <1>1, <2>2
<1>2. CASE ~ \E i \in Public : Clean(r.public[i])
  BY <1>2, NoneClean
<1>3. QED
  BY <1>1, <1>2

\* DoH names an address exactly when some DoH resolver answered.
LEMMA DoHAddrsEmpty ==
    ASSUME NEW r \in Result
    PROVE  DoHAddrs(r) = {} <=> \A i \in DoH : ~OK(r.doh[i])
<1>1. \A x : x \in DoHAddrs(r) <=> \E i \in DoH : OK(r.doh[i]) /\ x \in r.doh[i].addrs
  BY DEF DoHAddrs
<1>2. \A i \in DoH : OK(r.doh[i]) => \E x : x \in r.doh[i].addrs
  BY DEF OK
<1>3. QED
  BY <1>1, <1>2

\* There is no reference exactly when DoH is silent and no plain answer is clean.
LEMMA ReferenceEmpty ==
    ASSUME NEW r \in Result
    PROVE  Reference(r).addrs = {} <=>
                /\ \A i \in DoH : ~OK(r.doh[i])
                /\ \A a \in Plain(r) : ~Clean(a)
<1>1. CASE DoHAddrs(r) # {}
  BY <1>1, DoHAddrsEmpty DEF Reference
<1>2. CASE DoHAddrs(r) = {} /\ FirstClean(r) # 0
  <2>1. Clean(r.public[FirstClean(r)]) /\ FirstClean(r) \in Public
    BY <1>2, FirstCleanZero, FirstCleanIsFirst
  <2>2. r.public[FirstClean(r)].addrs # {}
    BY <2>1 DEF Clean, OK
  <2>3. QED
    BY <1>2, <2>1, <2>2 DEF Reference, Plain
<1>3. CASE DoHAddrs(r) = {} /\ FirstClean(r) = 0 /\ Clean(r.system)
  BY <1>3 DEF Reference, Plain, Clean, OK
<1>4. CASE DoHAddrs(r) = {} /\ FirstClean(r) = 0 /\ ~Clean(r.system)
  <2>1. Reference(r).addrs = {}
    BY <1>4 DEF Reference
  <2>2. \A a \in Plain(r) : ~Clean(a)
    BY <1>4, FirstCleanZero DEF Plain
  <2>3. QED
    BY <1>4, <2>1, <2>2, DoHAddrsEmpty
<1>5. QED
  BY <1>1, <1>2, <1>3, <1>4

LEMMA PlainTyped ==
    ASSUME NEW r \in Result
    PROVE  Plain(r) \subseteq MaybeAnswer
BY DEF Result, Plain

\* No answer is lost: without an address from any resolver, and only then, the
\* name is unresolvable.
THEOREM AnalyzeUnresolvable ==
    ASSUME NEW r \in Result
    PROVE  Analyze(r).unresolvable <=>
                /\ \A i \in DoH : ~OK(r.doh[i])
                /\ \A a \in Plain(r) : ~OK(a)
<1>1. Analyze(r).unresolvable <=> /\ Reference(r).addrs = {}
                                  /\ BlockIPs(r) = {}
                                  /\ Bogons(r, Reference(r).addrs) = {}
  BY DEF Analyze
<1>2. ASSUME Analyze(r).unresolvable, NEW a \in Plain(r), OK(a)
      PROVE  FALSE
  <2>1. BlockIPsIn(a) = {}
    BY <1>1, <1>2 DEF BlockIPs
  <2>2. Clean(a)
    BY <1>2, <2>1 DEF BlockIPsIn, Clean, HasBad
  <2>3. QED
    BY <1>1, <1>2, <2>2, ReferenceEmpty
<1>3. ASSUME \A i \in DoH : ~OK(r.doh[i]), \A a \in Plain(r) : ~OK(a)
      PROVE  Analyze(r).unresolvable
  <2>1. Reference(r).addrs = {}
    BY <1>3, ReferenceEmpty DEF Clean
  <2>2. BlockIPs(r) = {} /\ Bogons(r, Reference(r).addrs) = {}
    BY <1>3 DEF BlockIPs, Bogons, BlockIPsIn, BogonsIn
  <2>3. QED
    BY <1>1, <2>1, <2>2
<1>4. QED
  BY <1>1, <1>2, <1>3, ReferenceEmpty

\* The system resolver is suspected only on another resolver's word.
THEOREM AnalyzeSuspects ==
    ASSUME NEW r \in Result, Analyze(r).suspects # {}
    PROVE  \/ \E i \in DoH : OK(r.doh[i]) /\ r.doh[i].addrs \cap r.system.addrs = {}
           \/ \E i \in Public : Clean(r.public[i]) /\ r.public[i].addrs \cap r.system.addrs = {}
<1>1. /\ OK(r.system)
      /\ Reference(r).addrs # {}
      /\ r.system.addrs \cap Reference(r).addrs = {}
  BY DEF Analyze, Suspects
<1>2. CASE DoHAddrs(r) # {}
  <2>1. PICK i \in DoH : OK(r.doh[i])
    BY <1>2, DoHAddrsEmpty
  <2>2. r.doh[i].addrs \subseteq Reference(r).addrs
    BY <1>2, <2>1 DEF Reference, DoHAddrs
  <2>3. QED
    BY <1>1, <2>1, <2>2
<1>3. CASE DoHAddrs(r) = {} /\ FirstClean(r) # 0
  <2>1. Reference(r).addrs = r.public[FirstClean(r)].addrs
    BY <1>3 DEF Reference
  <2>2. FirstClean(r) \in Public /\ Clean(r.public[FirstClean(r)])
    BY <1>3, FirstCleanZero, FirstCleanIsFirst
  <2>3. QED
    BY <1>1, <2>1, <2>2
<1>4. CASE DoHAddrs(r) = {} /\ FirstClean(r) = 0
  <2>1. Reference(r).addrs \in {r.system.addrs, {}}
    BY <1>4 DEF Reference
  <2>2. QED
    BY <1>1, <2>1 DEF OK
<1>5. QED
  BY <1>2, <1>3, <1>4

\* A block-page address is never taken for the real one on a plain resolver's word.
THEOREM AnalyzePlainReference ==
    ASSUME NEW r \in Result, Reference(r).kind \in {"udp", "system"}
    PROVE  /\ Reference(r).addrs \cap BlockIP = {}
           /\ Reference(r).kind = "system" => \A i \in Public : ~Clean(r.public[i])
<1>1. DoHAddrs(r) = {}
  BY DEF Reference
<1>2. CASE FirstClean(r) # 0
  BY <1>1, <1>2, FirstCleanZero, FirstCleanIsFirst DEF Reference, Clean, HasBad
<1>3. CASE FirstClean(r) = 0
  BY <1>1, <1>3, FirstCleanZero DEF Reference, Clean, HasBad
<1>4. QED
  BY <1>2, <1>3

\* Against a reference with a public address no bad plain answer goes unnoticed.
THEOREM AnalyzeNotices ==
    ASSUME NEW r \in Result, ~AllBogon(Reference(r).addrs),
           NEW a \in Plain(r), a.addrs \cap (BlockIP \cup Bogon) # {}
    PROVE  Poisoned(Analyze(r))
<1>1. OK(a)
  BY PlainTyped, AnswerFacts
<1>2. Reference(r).addrs # {}
  BY DEF AllBogon
<1>3. BlockIPsIn(a) # {} \/ BogonsIn(a, Reference(r).addrs) # {}
  BY <1>1, <1>2 DEF BlockIPsIn, BogonsIn
<1>4. BlockIPs(r) # {} \/ Bogons(r, Reference(r).addrs) # {}
  BY <1>3 DEF BlockIPs, Bogons
<1>5. QED
  BY <1>4 DEF Analyze, Poisoned

LEMMA ReferenceInAddr ==
    ASSUME NEW r \in Result
    PROVE  Reference(r).addrs \subseteq Addr
<1>1. /\ r.system.addrs \subseteq Addr
      /\ \A i \in Public : r.public[i].addrs \subseteq Addr
      /\ \A i \in DoH : r.doh[i].addrs \subseteq Addr
  BY AnswerFacts DEF Result
<1>2. DoHAddrs(r) \subseteq Addr
  BY <1>1 DEF DoHAddrs
<1>3. CASE DoHAddrs(r) = {} /\ FirstClean(r) # 0
  BY <1>1, <1>3, FirstCleanZero, FirstCleanIsFirst DEF Reference
<1>4. CASE DoHAddrs(r) # {} \/ FirstClean(r) = 0
  BY <1>1, <1>2, <1>4 DEF Reference
<1>5. QED
  BY <1>3, <1>4

\* How the parts of an analysis exclude each other: an answer is suspected only when it
\* has addresses and proves nothing, a failure of the system resolver has none, and a
\* name is unresolvable only without a reference and without proof of poisoning.
THEOREM AnalyzeExcludes ==
    ASSUME NEW r \in Result, NEW a, a = Analyze(r)
    PROVE  /\ a.reference \subseteq Addr
           /\ a.suspects # {} => ~Poisoned(a) /\ a.systemFailure = "" /\ a.reference # {}
           /\ a.systemFailure # "" => ~OK(r.system) /\ r.system # Absent /\ a.reference # {}
           /\ a.injectedPublic => Poisoned(a)
           /\ a.unresolvable => a.reference = {} /\ ~Poisoned(a)
<1>1. /\ a.reference = Reference(r).addrs
      /\ a.blockIPs = BlockIPs(r)
      /\ a.bogons = Bogons(r, Reference(r).addrs)
      /\ a.suspects = Suspects(r, a.reference, Poisoned(a))
      /\ a.systemFailure = SystemFailure(r, a.reference)
      /\ a.unresolvable <=> a.reference = {} /\ ~Poisoned(a)
  BY DEF Analyze, Poisoned
<1>2. ASSUME a.injectedPublic PROVE Poisoned(a)
  <2>1. PICK i \in Public :
            BlockIPsIn(r.public[i]) \cup BogonsIn(r.public[i], Reference(r).addrs) # {}
    BY <1>2 DEF Analyze
  <2>2. r.public[i] \in Plain(r)
    BY DEF Plain
  <2>3. QED
    BY <1>1, <2>1, <2>2 DEF BlockIPs, Bogons, Poisoned
<1>3. QED
  BY <1>1, <1>2, ReferenceInAddr DEF Suspects, SystemFailure

\* Every resolver that answered shares an address with the system one, and none has an
\* address that is a block page's or private.
Consistent(r) ==
    \A a \in Plain(r) \cup {r.doh[i] : i \in DoH} :
        OK(a) => /\ a.addrs \cap (BlockIP \cup Bogon) = {}
                 /\ a.addrs \cap r.system.addrs # {}

LEMMA SharedReference ==
    ASSUME NEW r \in Result, OK(r.system), Consistent(r)
    PROVE  r.system.addrs \cap Reference(r).addrs # {}
<1>1. CASE DoHAddrs(r) # {}
  <2>1. PICK i \in DoH : OK(r.doh[i])
    BY <1>1, DoHAddrsEmpty
  <2>2. r.doh[i].addrs \cap r.system.addrs # {}
    BY <2>1 DEF Consistent
  <2>3. r.doh[i].addrs \subseteq Reference(r).addrs
    BY <1>1, <2>1 DEF Reference, DoHAddrs
  <2>4. QED
    BY <2>2, <2>3
<1>2. CASE DoHAddrs(r) = {} /\ FirstClean(r) # 0
  <2>1. FirstClean(r) \in Public /\ Clean(r.public[FirstClean(r)])
    BY <1>2, FirstCleanZero, FirstCleanIsFirst
  <2>2. r.public[FirstClean(r)].addrs \cap r.system.addrs # {}
    BY <2>1 DEF Consistent, Plain, Clean
  <2>3. QED
    BY <1>2, <2>2 DEF Reference
<1>3. CASE DoHAddrs(r) = {} /\ FirstClean(r) = 0
  <2>1. Clean(r.system)
    BY DEF Consistent, Plain, Clean, HasBad
  <2>2. QED
    BY <1>3, <2>1 DEF Reference, Clean, OK
<1>4. QED
  BY <1>1, <1>2, <1>3

\* Nothing is flagged where all who answered agree with the system resolver on public
\* addresses, whichever of them the reference comes from.
THEOREM AnalyzeHonest ==
    ASSUME NEW r \in Result, OK(r.system), Consistent(r)
    PROVE  /\ ~Poisoned(Analyze(r))
           /\ Analyze(r).suspects = {}
           /\ ~Analyze(r).injectedPublic
           /\ Analyze(r).systemFailure = ""
<1>1. \A a \in Plain(r) : BlockIPsIn(a) = {} /\ BogonsIn(a, Reference(r).addrs) = {}
  BY DEF Consistent, BlockIPsIn, BogonsIn
<1>2. BlockIPs(r) = {} /\ Bogons(r, Reference(r).addrs) = {}
  BY <1>1 DEF BlockIPs, Bogons
<1>3. ~Poisoned(Analyze(r))
  BY <1>2 DEF Analyze, Poisoned
<1>4. Analyze(r).suspects = {}
  BY SharedReference DEF Analyze, Suspects
<1>5. ~Analyze(r).injectedPublic
  BY <1>3, AnalyzeExcludes
<1>6. Analyze(r).systemFailure = ""
  BY DEF Analyze, SystemFailure
<1>7. QED
  BY <1>3, <1>4, <1>5, <1>6
=============================================================================
