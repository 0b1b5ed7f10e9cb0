-------------------------------- MODULE Dns ---------------------------------
(***************************************************************************)
(* The DNS layer of probe.checkTarget for one target: dnscheck.Resolve     *)
(* asks every resolver in a goroutine of its own, Analyze compares the     *)
(* answers once all are in, and when no resolver knew the name and every   *)
(* plain one timed out, the control name is looked up to tell dropped      *)
(* queries from dead resolvers.                                            *)
(***************************************************************************)
EXTENDS DnsAnalysis

CONSTANT HasSystem  \* Resolvers.System is configured
ASSUME SystemAssumption == HasSystem \in BOOLEAN

VARIABLES
    stage,    \* "resolve", "control" or "done"
    waiting,  \* the resolvers whose goroutine has not finished
    res,      \* their answers
    analysis, \* st.analysis, once made
    asked,    \* st.control is set: the control name was looked up
    control,  \* the resolvers that answered for it
    dropped   \* st.analysis.Dropped

vars == <<stage, waiting, res, analysis, asked, control, dropped>>

System == <<"system", 0>>
Slots == (IF HasSystem THEN {System} ELSE {})
            \cup ({"public"} \X Public) \cup ({"doh"} \X DoH)

NoAnswers == [system |-> Absent,
              public |-> [i \in Public |-> Absent],
              doh |-> [i \in DoH |-> Absent]]
NoAnalysis == [none |-> TRUE]

Put(slot, a) ==
    CASE slot[1] = "system" -> [res EXCEPT !.system = a]
      [] slot[1] = "public" -> [res EXCEPT !.public[slot[2]] = a]
      [] slot[1] = "doh" -> [res EXCEPT !.doh[slot[2]] = a]

Init ==
    /\ stage = "resolve"
    /\ waiting = Slots
    /\ res = NoAnswers
    /\ analysis = NoAnalysis
    /\ asked = FALSE
    /\ control = {}
    /\ dropped = FALSE

\* One resolver's goroutine ends; the timeout bounds it.
Lookup(slot) ==
    /\ stage = "resolve"
    /\ slot \in waiting
    /\ \E a \in Answer : res' = Put(slot, a)
    /\ waiting' = waiting \ {slot}
    /\ UNCHANGED <<stage, analysis, asked, control, dropped>>

\* Variant: the analysis does not wait for the slowest resolver.
CompareEarly ==
    /\ stage = "resolve"
    /\ \E s \in Slots : s \notin waiting
    /\ analysis' = Analyze(res)
    /\ stage' = IF analysis'.unresolvable /\ analysis'.allPlainTimeout THEN "control" ELSE "done"
    /\ UNCHANGED <<waiting, res, asked, control, dropped>>

\* Resolve's wg.Wait, Analyze, and the choice to look up the control name.
Compare ==
    /\ stage = "resolve"
    /\ waiting = {}
    /\ analysis' = Analyze(res)
    /\ stage' = IF analysis'.unresolvable /\ analysis'.allPlainTimeout THEN "control" ELSE "done"
    /\ UNCHANGED <<waiting, res, asked, control, dropped>>

\* controlResolves: the plain resolvers alone are asked for the control name, and
\* one that answers is enough.
ControlSlots == {s \in Slots : s[1] # "doh"}

ControlLookup ==
    /\ stage = "control"
    /\ \E ok \in SUBSET ControlSlots :
        /\ control' = ok
        /\ dropped' = (ok # {})
    /\ asked' = TRUE
    /\ stage' = "done"
    /\ UNCHANGED <<waiting, res, analysis>>

Finished == stage = "done" /\ UNCHANGED vars

Next == (\E s \in Slots : Lookup(s)) \/ Compare \/ ControlLookup \/ Finished

Spec == Init /\ [][Next]_vars

-----------------------------------------------------------------------------
(* Properties of the analysis a target's verdict is made from. *)

Analyzed == stage # "resolve"

TypeOK ==
    /\ stage \in {"resolve", "control", "done"}
    /\ waiting \subseteq Slots
    /\ res \in Result
    /\ asked \in BOOLEAN
    /\ control \subseteq Slots
    /\ dropped \in BOOLEAN

\* A resolver that has finished left an answer, never the zero value of one that
\* was not configured.
Arrived ==
    /\ HasSystem /\ System \notin waiting => res.system # Absent
    /\ \A i \in Public : <<"public", i>> \notin waiting => res.public[i] # Absent
    /\ \A i \in DoH : <<"doh", i>> \notin waiting => res.doh[i] # Absent

ComparedWhenAllIn == Analyzed => waiting = {} /\ analysis = Analyze(res)

ControlOnSilence ==
    /\ stage = "control" \/ dropped => analysis.unresolvable /\ analysis.allPlainTimeout
    /\ dropped => stage = "done" /\ \E s \in control : s[1] # "doh"

\* The inductive invariant. Every resolver has had its say: no answer arrives after
\* the comparison, and a configured resolver is never mistaken for an absent one
\* (check.go:68-94).
DnsInv == TypeOK /\ Arrived /\ ComparedWhenAllIn /\ ControlOnSilence

\* "Unresolvable is true when no resolver returned any address" (check.go:118):
\* an answer is never forgotten, it becomes the reference or proof of poisoning.
UnresolvableMeansNoAddress ==
    Analyzed =>
        (analysis.unresolvable <=>
            /\ ~OK(res.system)
            /\ \A i \in Public : ~OK(res.public[i])
            /\ \A i \in DoH : ~OK(res.doh[i]))

\* The system resolver is suspected only on the word of another resolver, one that
\* gave addresses of its own and none of the system's.
SuspectsNeedASecondOpinion ==
    Analyzed /\ analysis.suspects # {} =>
        \/ \E i \in DoH : OK(res.doh[i]) /\ res.doh[i].addrs \cap res.system.addrs = {}
        \/ \E i \in Public : /\ Clean(res.public[i])
                             /\ res.public[i].addrs \cap res.system.addrs = {}

\* Without DoH the reference is a clean-looking plain answer, "trusting public
\* resolvers over the system one" (check.go:149): no known block-page address is
\* ever taken for the real one, and the system resolver vouches for itself only
\* when no public resolver can.
PlainReferenceIsClean ==
    Analyzed /\ analysis.referenceKind \in {"udp", "system"} =>
        /\ analysis.reference \cap BlockIP = {}
        /\ analysis.referenceKind = "system" => \A i \in Public : ~Clean(res.public[i])

\* Layer 2's promise (how-it-works.md:76-81): against a reference with a public
\* address no block-page or private address in any plain answer goes unnoticed.
BadAnswersAreNoticed ==
    Analyzed /\ ~AllBogon(analysis.reference) =>
        \A a \in Plain(res) : a.addrs \cap (BlockIP \cup Bogon) # {} => Poisoned(analysis)

\* An honest network is not accused: when the system resolver shares an address
\* with every other one and all addresses are public, nothing is flagged, however
\* many other resolvers failed to answer.
HonestNetworkNotAccused ==
    /\ Analyzed
    /\ OK(res.system)
    /\ \A a \in Plain(res) \cup {res.doh[i] : i \in DoH} :
        OK(a) => /\ a.addrs \cap (BlockIP \cup Bogon) = {}
                 /\ a.addrs \cap res.system.addrs # {}
    => /\ ~Poisoned(analysis)
       /\ analysis.suspects = {}
       /\ ~analysis.injectedPublic
       /\ analysis.systemFailure = ""

\* "Queries for this name are dropped on the path" (check.go:127) is only said when
\* every plain resolver timed out for the name and one of the same resolvers
\* answered for the control name, and then nothing else is wrong with DNS.
DroppedMeansSilenced ==
    dropped =>
        /\ \A i \in Public : res.public[i].err = "timeout"
        /\ HasSystem => res.system.err = "timeout"
        /\ \E s \in control : s[1] # "doh"
        /\ analysis.reference = {}
        /\ ~Poisoned(analysis)
        /\ analysis.systemFailure = ""

\* What the comments say of private addresses (check.go:105: "returned by plain DNS
\* while the reference addresses are public", the reference being "the addresses
\* believed to be correct", check.go:98): none of them is itself in the reference.
\* The code asks only that the reference is not private altogether.
BogonsOutsideReference ==
    Analyzed => analysis.bogons \cap analysis.reference = {}

\* What the guide says of silence (how-it-works.md:103: "When the system resolver
\* and every public resolver time out for a name, Chera looks up a control name").
\* The code does so only when DoH does not know the name either.
ControlAskedOnSilence ==
    stage = "done" /\ analysis.allPlainTimeout => asked
=============================================================================
