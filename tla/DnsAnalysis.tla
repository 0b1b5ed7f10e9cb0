---------------------------- MODULE DnsAnalysis -----------------------------
(***************************************************************************)
(* dnscheck.Analyze: what the answers of the system resolver, the public   *)
(* plain resolvers and the DoH resolvers say about one host. Addresses are *)
(* values, an answer's addresses a set; the order of the public resolvers  *)
(* matters and is kept.                                                    *)
(***************************************************************************)
EXTENDS Integers

CONSTANTS
    Addr,       \* IPv4 addresses
    BlockIP,    \* the signatures' known block-page addresses
    Bogon,      \* private, reserved or otherwise not public unicast
    NumPublic,  \* len(Resolvers.Public)
    NumDoH      \* len(Resolvers.DoH)

ASSUME DnsAssumption == /\ BlockIP \subseteq Addr
                        /\ Bogon \subseteq Addr
                        /\ NumPublic \in Nat
                        /\ NumDoH \in Nat

Public == 1..NumPublic
DoH == 1..NumDoH

\* Why a lookup failed. "servfail" stands for every RCodeError but REFUSED, "error"
\* for every failure to reach the server that netx.Classify calls neither a timeout
\* nor a refusal.
Failures == {"nxdomain", "noanswer", "servfail", "rcode_refused", "timeout", "refused", "error"}

\* A resolver's Lookup returns addresses or an error, never neither: addrsFrom and
\* System.Lookup turn an empty answer into ErrNoAnswer.
Found(as) == [addrs |-> as, err |-> ""]
Failed(e) == [addrs |-> {}, err |-> e]
Answer == {Found(as) : as \in (SUBSET Addr) \ {{}}} \cup {Failed(e) : e \in Failures}

\* The zero Answer, of a resolver that was not configured: Resolver is "".
Absent == [addrs |-> {}, err |-> ""]

MaybeAnswer == Answer \cup {Absent}

Result == [system : MaybeAnswer, public : [Public -> MaybeAnswer], doh : [DoH -> MaybeAnswer]]

OK(a) == a.err = "" /\ a.addrs # {}

\* The resolver was reached, even if only for a negative answer.
Answered(a) == a.err \in {"", "nxdomain", "noanswer", "servfail", "rcode_refused"}

\* netx.Classify finds the word "refused" in the text of RCodeError REFUSED.
FailureKind(a) ==
    IF a.err = "servfail" THEN "error"
    ELSE IF a.err = "rcode_refused" THEN "refused"
    ELSE a.err

HasBad(as) == as \cap BlockIP # {}

AllBogon(as) == as \subseteq Bogon

Clean(a) == OK(a) /\ ~HasBad(a.addrs)

Plain(r) == {r.system} \cup {r.public[i] : i \in Public}

\* The first public resolver with a clean-looking answer, 0 when there is none.
FirstClean(r) ==
    IF \E i \in Public : Clean(r.public[i])
      THEN CHOOSE i \in Public : /\ Clean(r.public[i])
                                 /\ \A j \in 1..i-1 : ~Clean(r.public[j])
      ELSE 0

DoHAddrs(r) == UNION {r.doh[i].addrs : i \in {j \in DoH : OK(r.doh[j])}}

\* Variant: the system resolver is asked before the public ones.
ReferenceSystemFirst(r) ==
    IF DoHAddrs(r) # {} THEN [addrs |-> DoHAddrs(r), kind |-> "doh"]
    ELSE IF Clean(r.system) THEN [addrs |-> r.system.addrs, kind |-> "system"]
    ELSE IF FirstClean(r) # 0 THEN [addrs |-> r.public[FirstClean(r)].addrs, kind |-> "udp"]
    ELSE [addrs |-> {}, kind |-> ""]

\* The reference and where it comes from ("system" is the resolver under test, whose
\* own kind is "udp" under --resolver): what DoH says; without DoH, the first clean
\* plain answer, public resolvers before the system one.
Reference(r) ==
    IF DoHAddrs(r) # {} THEN [addrs |-> DoHAddrs(r), kind |-> "doh"]
    ELSE IF FirstClean(r) # 0 THEN [addrs |-> r.public[FirstClean(r)].addrs, kind |-> "udp"]
    ELSE IF Clean(r.system) THEN [addrs |-> r.system.addrs, kind |-> "system"]
    ELSE [addrs |-> {}, kind |-> ""]

\* The addresses of an answer that prove poisoning. Private ones do only when the
\* reference has a public address.
BlockIPsIn(a) == IF OK(a) THEN a.addrs \cap BlockIP ELSE {}
BogonsIn(a, ref) == IF OK(a) /\ ref # {} /\ ~AllBogon(ref) THEN (a.addrs \cap Bogon) \ BlockIP
                    ELSE {}

\* Variants: only the system resolver's answer is examined; the comparison asks for
\* every address to be known; the system resolver alone decides on the timeouts.
BlockIPsSystemOnly(r) == BlockIPsIn(r.system)
SuspectsUnlessSubset(r, ref, poisoned) ==
    IF OK(r.system) /\ ref # {} /\ ~poisoned /\ ~(r.system.addrs \subseteq ref)
      THEN r.system.addrs ELSE {}
SystemTimeout(r) == NumPublic > 0 /\ r.system.err = "timeout"

BlockIPs(r) == UNION {BlockIPsIn(a) : a \in Plain(r)}
Bogons(r, ref) == UNION {BogonsIn(a, ref) : a \in Plain(r)}

\* A system answer that shares nothing with the reference, when nothing is proved.
Suspects(r, ref, poisoned) ==
    IF OK(r.system) /\ ref # {} /\ ~poisoned /\ r.system.addrs \cap ref = {}
      THEN r.system.addrs ELSE {}

SystemFailure(r, ref) ==
    IF ~OK(r.system) /\ r.system # Absent /\ ref # {} THEN FailureKind(r.system) ELSE ""

DoHUnavailable(r) == NumDoH > 0 /\ \A i \in DoH : ~Answered(r.doh[i])

AllPlainTimeout(r) ==
    NumPublic > 0 /\ \A a \in Plain(r) : a # Absent => FailureKind(a) = "timeout"

Analyze(r) ==
    LET ref == Reference(r)
        block == BlockIPs(r)
        bogons == Bogons(r, ref.addrs)
    IN  [reference |-> ref.addrs,
         referenceKind |-> ref.kind,
         blockIPs |-> block,
         bogons |-> bogons,
         suspects |-> Suspects(r, ref.addrs, block \cup bogons # {}),
         injectedPublic |->
            /\ ref.kind = "doh"
            /\ \E i \in Public :
                BlockIPsIn(r.public[i]) \cup BogonsIn(r.public[i], ref.addrs) # {},
         systemFailure |-> SystemFailure(r, ref.addrs),
         unresolvable |-> ref.addrs = {} /\ block = {} /\ bogons = {},
         dohUnavailable |-> DoHUnavailable(r),
         allPlainTimeout |-> AllPlainTimeout(r)]

Poisoned(a) == a.blockIPs # {} \/ a.bogons # {}
=============================================================================
