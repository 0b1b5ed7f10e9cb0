------------------------------ MODULE Presets -------------------------------
(***************************************************************************)
(* presets.Set: the built-in presets, the files merged over them, and the  *)
(* walk of Resolve, which follows includes with an explicit stack here     *)
(* instead of the closure's recursion.                                     *)
(*                                                                         *)
(* A preset's name is its place in the sorted order of all names. A target *)
(* is a record of its host (in lower case, which is the key Resolve and    *)
(* Lookup compare), its URL and the rest of its entry.                     *)
(***************************************************************************)
EXTENDS Concat, SequencesExt

CONSTANT NumNames  \* names a file or the command line may use
ASSUME PresetsAssumption == NumNames \in Nat \ {0}

Names == 1..NumNames
NoName == 0  \* the empty string
Keys == Names \cup {NoName}

VARIABLES
    set,    \* the merged presets and the default
    root,   \* the name Resolve was called with
    stack,  \* the calls of walk: the preset's name, the include and the target it is at
    out,    \* the targets so far
    walk    \* "idle", "walking", or how Resolve ended: "done", "cycle", "unknown"

presetVars == <<set, root, stack, out, walk>>

-----------------------------------------------------------------------------
(* Files. A document is what reading and decoding a path leads to: a file, or  *)
(* why there is none.                                                          *)

IsFile(doc) == doc.state = "file"

\* A decoded file has presets by their names, none by the empty one; no target has the URL
\* that stands for the one given on the command line.
Entries == [host : STRING, url : STRING \ {"given"}, rest : STRING]
WellFormed(doc) ==
    IsFile(doc) =>
        /\ doc.default \in Keys
        /\ DOMAIN doc.presets \subseteq Names
        /\ \A n \in DOMAIN doc.presets :
            doc.presets[n].targets \in Seq(Entries) /\ doc.presets[n].include \in Seq(Keys)

\* What Parse accepts: targets or includes in a preset, and a host in each target.
Parses(doc) ==
    /\ IsFile(doc)
    /\ \A n \in DOMAIN doc.presets :
        /\ doc.presets[n].targets = <<>> \/ doc.presets[n].include = <<>>
        /\ \A i \in DOMAIN doc.presets[n].targets : doc.presets[n].targets[i].host # ""

\* Variant: a preset that exists is kept.
MergeKeeping(s, doc) ==
    [default |-> IF doc.default # NoName THEN doc.default ELSE s.default,
     presets |-> [n \in DOMAIN s.presets \cup DOMAIN doc.presets |->
                    IF n \in DOMAIN s.presets THEN s.presets[n] ELSE doc.presets[n]]]

\* A preset replaces the one with its name; the default changes if the file has one.
Merge(s, doc) ==
    [default |-> IF doc.default # NoName THEN doc.default ELSE s.default,
     presets |-> [n \in DOMAIN s.presets \cup DOMAIN doc.presets |->
                    IF n \in DOMAIN doc.presets THEN doc.presets[n] ELSE s.presets[n]]]

\* MergeFile's error: only a file that may be missing may be missing.
MergeFails(doc, optional) ==
    IF doc.state = "missing" THEN ~optional ELSE ~Parses(doc)

MergeFile(s, doc) == IF IsFile(doc) THEN Merge(s, doc) ELSE s

-----------------------------------------------------------------------------
(* Resolve. *)

Hosts(ts) == {ts[i].host : i \in DOMAIN ts}

\* Variant: every target of every preset.
AppendAll(ts, t) == Append(ts, t)

\* A target whose host was seen is skipped; seen is the hosts of out.
AppendNew(ts, t) == IF t.host \in Hosts(ts) THEN ts ELSE Append(ts, t)

Top == Last(stack)
Open == {stack[i].name : i \in DOMAIN stack}

\* Variant: nothing is known of the calls below.
CallUnguarded(n, frames) ==
    IF n \notin DOMAIN set.presets
      THEN walk' = "unknown" /\ stack' = <<>>
    ELSE /\ walk' = "walking"
         /\ stack' = Append(frames, [name |-> n, next |-> 1, target |-> 1])

\* A call of walk for n, below the calls in frames: a cycle when n is among them, an
\* error when nobody defines n.
Call(n, frames) ==
    IF \E i \in DOMAIN frames : frames[i].name = n
      THEN walk' = "cycle" /\ stack' = <<>>
    ELSE IF n \notin DOMAIN set.presets
      THEN walk' = "unknown" /\ stack' = <<>>
    ELSE /\ walk' = "walking"
         /\ stack' = Append(frames, [name |-> n, next |-> 1, target |-> 1])

BeginResolve(n) ==
    /\ Call(n, <<>>)
    /\ root' = n
    /\ out' = <<>>
    /\ UNCHANGED set

Walking == walk = "walking" /\ stack # <<>>

\* Variant: the loop does not move on to the next include.
IncludeAgain ==
    /\ Walking
    /\ Top.next <= Len(set.presets[Top.name].include)
    /\ Call(set.presets[Top.name].include[Top.next], stack)
    /\ UNCHANGED <<set, root, out>>

\* One turn of the loop over the includes.
Include ==
    /\ Walking
    /\ Top.next <= Len(set.presets[Top.name].include)
    /\ Call(set.presets[Top.name].include[Top.next],
            Append(Front(stack), [Top EXCEPT !.next = @ + 1]))
    /\ UNCHANGED <<set, root, out>>

\* One turn of the loop over the targets, which follows.
Collect ==
    /\ Walking
    /\ Top.next > Len(set.presets[Top.name].include)
    /\ Top.target <= Len(set.presets[Top.name].targets)
    /\ out' = AppendNew(out, set.presets[Top.name].targets[Top.target])
    /\ stack' = Append(Front(stack), [Top EXCEPT !.target = @ + 1])
    /\ UNCHANGED <<set, root, walk>>

\* The return to the including preset, or of Resolve.
Leave ==
    /\ Walking
    /\ Top.next > Len(set.presets[Top.name].include)
    /\ Top.target > Len(set.presets[Top.name].targets)
    /\ stack' = Front(stack)
    /\ walk' = IF Len(stack) = 1 THEN "done" ELSE "walking"
    /\ UNCHANGED <<set, root, out>>

\* The targets Resolve returned, none with an error.
Resolved == IF walk = "done" THEN out ELSE <<>>

-----------------------------------------------------------------------------
\* Lookup: the first entry for the host, presets in the order of their names; the
\* empty sequence when no preset has one.
Defining(host) == {n \in DOMAIN set.presets : host \in Hosts(set.presets[n].targets)}

Lookup(host) ==
    IF Defining(host) = {} THEN <<>>
    ELSE LET ts == set.presets[CHOOSE n \in Defining(host) : \A m \in Defining(host) : n <= m].targets
             first == CHOOSE i \in DOMAIN ts : /\ ts[i].host = host
                                               /\ \A j \in 1..i-1 : ts[j].host # host
         IN  <<ts[first]>>

-----------------------------------------------------------------------------
(* What Resolve is for, without the walk: the presets p as a graph. *)

IncludesOf(p, n) == IF n \in DOMAIN p THEN p[n].include ELSE <<>>
TargetsOf(p, n) == IF n \in DOMAIN p THEN p[n].targets ELSE <<>>

\* The names that following includes from n leads to, n among them: what every set has
\* that has n and, with a preset, its includes.
Closed(p, ns) == \A m \in ns : ToSet(IncludesOf(p, m)) \subseteq ns

Below(p, n) ==
    LET around == {ns \in SUBSET Keys : n \in ns /\ Closed(p, ns)}
    IN  {m \in Keys : \A ns \in around : m \in ns}

Cyclic(p, n) == \E m \in Below(p, n) : \E k \in ToSet(IncludesOf(p, m)) : m \in Below(p, k)
Incomplete(p, n) == \E m \in Below(p, n) : m \notin DOMAIN p
Broken(p, n) == Cyclic(p, n) \/ Incomplete(p, n)

\* The targets of each preset with its includes in place, given those of the includes.
Included(p, m, e) == [i \in DOMAIN IncludesOf(p, m) |-> e[IncludesOf(p, m)[i]]]
Deeper(p, e) ==
    [m \in Keys |-> Joined(Included(p, m, e))[Len(IncludesOf(p, m))] \o TargetsOf(p, m)]

\* Includes are followed as deep as there are names.
Levels(p) ==
    LET level[k \in Nat] == IF k = 0 THEN [m \in Keys |-> <<>>] ELSE Deeper(p, level[k-1]) IN level

Expansion(p, n) == Levels(p)[NumNames][n]

\* The first target of each host, in their order, without saying how to find them.
IsFirst(ts, i) == \A j \in 1..i-1 : ts[j].host # ts[i].host

FirstOfEachHost(some, ts) ==
    /\ Hosts(some) = Hosts(ts)
    /\ \A k \in DOMAIN some : \E i \in DOMAIN ts : IsFirst(ts, i) /\ some[k] = ts[i]
    /\ \A k, l \in DOMAIN some : \A i, j \in DOMAIN ts :
        k < l /\ IsFirst(ts, i) /\ some[k] = ts[i] /\ IsFirst(ts, j) /\ some[l] = ts[j] => i < j

\* Resolve "expands a preset (following includes) into a de-duplicated list of targets,
\* preserving order" (presets.go:108), whatever is included how often; it fails exactly
\* when an include leads back to an open preset or to one nobody defines. A preset
\* that is included twice is not a cycle.
ResolvedExactly ==
    /\ walk = "done" =>
        ~Broken(set.presets, root) /\ FirstOfEachHost(out, Expansion(set.presets, root))
    /\ walk = "cycle" => Cyclic(set.presets, root)
    /\ walk = "unknown" => Incomplete(set.presets, root)
=============================================================================
