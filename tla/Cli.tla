-------------------------------- MODULE Cli ---------------------------------
(***************************************************************************)
(* cli.Main: the stages of the command in their order, each with its early *)
(* return, from the arguments to the exit code. The run itself is module   *)
(* Runner's; here it is its report. Ctrl-C before signal.NotifyContext     *)
(* ends the process outright and is left out.                              *)
(***************************************************************************)
EXTENDS Presets

CONSTANT Commands  \* the commands and environments the program may be started with

ASSUME CliAssumption ==
    \A c \in Commands :
        /\ c.concurrency \in Int /\ c.preset \in Keys
        /\ Parses(c.builtin)
        /\ WellFormed(c.builtin) /\ WellFormed(c.user) /\ WellFormed(c.extra)

VARIABLES
    cmd,      \* the arguments and the environment
    stage,    \* where Main is
    targets,  \* what is measured
    listed,   \* --list-presets: the number of targets printed for each name
    listing,  \* the name it is at, NoName between two lines
    failing,  \* how many targets of the report are not OK
    ctx,      \* "live" or "cancelled"
    printed,  \* the report: "nothing", "part" or "whole"
    exit      \* "running" or what Main returned

cliVars == <<cmd, targets, listed, listing, failing, ctx, printed>>
vars == <<presetVars, cliVars, stage, exit>>

Unprinted == -1

Builtin(c) == [default |-> c.builtin.default, presets |-> c.builtin.presets]

Init ==
    /\ cmd \in Commands
    /\ set = Builtin(cmd)
    /\ root = NoName
    /\ stack = <<>>
    /\ out = <<>>
    /\ walk = "idle"
    /\ stage = "args"
    /\ targets = <<>>
    /\ listed = [n \in Names |-> Unprinted]
    /\ listing = NoName
    /\ failing = 0
    /\ ctx = "live"
    /\ printed = "nothing"
    /\ exit = "running"

\* Main returns, or goes on to a stage.
ReturnWith(code) == exit' = code /\ stage' = "returned"
Continue(next) == stage' = next /\ UNCHANGED exit

\* An early return with a usage error, or on to the next stage.
Require(sound, next) == IF sound THEN Continue(next) ELSE ReturnWith("usage")

\* ParseArgs' errors, but for --help.
SoundArgs(c) ==
    /\ c.parse = "ok"
    /\ ~(c.json /\ c.markdown)
    /\ c.timeout > 0
    /\ c.concurrency \in 1..64
    /\ ~(c.preset # NoName /\ c.hosts # <<>>)

ParseArgs ==
    /\ stage = "args"
    /\ \/ cmd.parse = "help" /\ ReturnWith("ok")
       \/ /\ cmd.parse # "help"
          /\ IF SoundArgs(cmd) /\ cmd.version THEN ReturnWith("ok")
             ELSE Require(SoundArgs(cmd), "lang")
    /\ UNCHANGED <<presetVars, cliVars>>

ParseLang ==
    /\ stage = "lang"
    /\ Require(cmd.lang # "unknown", IF cmd.userConfig THEN "userPresets" ELSE "presetsFile")
    /\ UNCHANGED <<presetVars, cliVars>>

\* One presets file is merged, the user's or --presets.
MergePresets(doc, optional, next) ==
    /\ Require(~MergeFails(doc, optional), next)
    /\ set' = IF MergeFails(doc, optional) THEN set ELSE MergeFile(set, doc)
    /\ UNCHANGED <<root, stack, out, walk, cliVars>>

UserPresets ==
    /\ stage = "userPresets"
    /\ MergePresets(cmd.user, TRUE, "userSignatures")

ExtraPresets ==
    /\ stage = "presetsFile"
    /\ IF cmd.extra.state = "ungiven"
         THEN Continue("signaturesFile") /\ UNCHANGED <<presetVars, cliVars>>
         ELSE MergePresets(cmd.extra, FALSE, "signaturesFile")

\* Signatures are merged the same way; what is in them is not looked at here.
UserSignatures ==
    /\ stage = "userSignatures"
    /\ Require(cmd.userSigs \in {"missing", "file"}, "presetsFile")
    /\ UNCHANGED <<presetVars, cliVars>>

ExtraSignatures ==
    /\ stage = "signaturesFile"
    /\ Require(cmd.extraSigs \in {"ungiven", "file"},
               IF cmd.list THEN "list" ELSE IF cmd.hosts # <<>> THEN "hosts" ELSE "preset")
    /\ UNCHANGED <<presetVars, cliVars>>

\* --list-presets: the presets in order, the targets of each counted after a Resolve
\* whose error is ignored.
Unlisted == {n \in DOMAIN set.presets : listed[n] = Unprinted}

ListNext ==
    /\ stage = "list"
    /\ walk # "walking"
    /\ listing = NoName
    /\ IF Unlisted = {} THEN ReturnWith("ok") /\ UNCHANGED <<presetVars, cliVars>>
       ELSE /\ listing' = CHOOSE n \in Unlisted : \A m \in Unlisted : n <= m
            /\ BeginResolve(listing')
            /\ UNCHANGED <<cmd, targets, listed, failing, ctx, printed, stage, exit>>

ListLine ==
    /\ stage = "list"
    /\ walk # "walking"
    /\ listing # NoName
    /\ listed' = [listed EXCEPT ![listing] = Len(Resolved)]
    /\ listing' = NoName
    /\ UNCHANGED <<presetVars, cmd, targets, failing, ctx, printed, stage, exit>>

\* ParseTarget: an argument names a host, or is a URL that replaces the known one's.
TargetOf(arg) ==
    LET known == Lookup(arg.host)
        bare == [host |-> arg.host, url |-> "", rest |-> ""]
        base == IF known = <<>> THEN bare ELSE known[1]
    IN  IF arg.form = "url" THEN [base EXCEPT !.url = "given"] ELSE base

\* What is measured is known, and is not empty, or the command was of no use.
Measure(ts) ==
    /\ Require(ts # <<>>, "config")
    /\ targets' = ts

ParseTargets ==
    /\ stage = "hosts"
    /\ IF \E i \in DOMAIN cmd.hosts : cmd.hosts[i].form = "invalid"
         THEN ReturnWith("usage") /\ UNCHANGED targets
         ELSE Measure([i \in DOMAIN cmd.hosts |-> TargetOf(cmd.hosts[i])])
    /\ UNCHANGED <<presetVars, cmd, listed, listing, failing, ctx, printed>>

Asked == IF cmd.preset = NoName THEN set.default ELSE cmd.preset

ResolvePreset ==
    /\ stage = "preset"
    /\ walk = "idle"
    /\ BeginResolve(Asked)
    /\ UNCHANGED <<cliVars, stage, exit>>

PresetResolved ==
    /\ stage = "preset"
    /\ walk \in {"done", "cycle", "unknown"}
    /\ Measure(Resolved)
    /\ UNCHANGED <<presetVars, cmd, listed, listing, failing, ctx, printed>>

\* The recursion of Resolve, for either of its callers.
Walk == (Include \/ Collect \/ Leave) /\ UNCHANGED <<cliVars, stage, exit>>

BuildConfig ==
    /\ stage = "config"
    /\ Require(cmd.proxy # "bad" /\ cmd.resolver # "bad", "run")
    /\ UNCHANGED <<presetVars, cliVars>>

\* From NotifyContext to Main's return the signal only cancels the context.
Interrupt ==
    /\ stage \in {"run", "check", "print"}
    /\ ctx = "live"
    /\ ctx' = "cancelled"
    /\ UNCHANGED <<presetVars, cmd, targets, listed, listing, failing, printed, stage, exit>>

\* Run returns its report.
Run ==
    /\ stage = "run"
    /\ failing' \in 0..Len(targets)
    /\ stage' = "check"
    /\ UNCHANGED <<presetVars, cmd, targets, listed, listing, ctx, printed, exit>>

CheckInterrupt ==
    /\ stage = "check"
    /\ IF ctx = "cancelled" THEN ReturnWith("interrupted") ELSE Continue("print")
    /\ UNCHANGED <<presetVars, cliVars>>

\* Variant: the exit code of a report that could not be written is its verdicts'.
PrintReportIgnoringErrors ==
    /\ stage = "print"
    /\ printed' \in {"whole", "part"}
    /\ ReturnWith(IF failing > 0 THEN "problems" ELSE "ok")
    /\ UNCHANGED <<presetVars, cmd, targets, listed, listing, failing, ctx>>

\* The report is written and the exit code chosen. Only the JSON writer's error is
\* looked at.
PrintReport ==
    /\ stage = "print"
    /\ printed' \in {"whole", "part"}
    /\ ReturnWith(IF cmd.json /\ printed' = "part" THEN "usage"
                  ELSE IF failing > 0 THEN "problems" ELSE "ok")
    /\ UNCHANGED <<presetVars, cmd, targets, listed, listing, failing, ctx>>

Step ==
    \/ ParseArgs \/ ParseLang
    \/ UserPresets \/ UserSignatures \/ ExtraPresets \/ ExtraSignatures
    \/ ListNext \/ ListLine
    \/ ParseTargets \/ ResolvePreset \/ PresetResolved \/ Walk
    \/ BuildConfig \/ Run \/ CheckInterrupt \/ PrintReport

Returned == stage = "returned" /\ UNCHANGED vars

Next == Step \/ Interrupt \/ Returned

Spec == Init /\ [][Next]_vars

\* Main goes on. That the run itself ends is Runner's to show.
FairSpec == Spec /\ WF_vars(Step)

-----------------------------------------------------------------------------
(* Properties. *)

Codes == {"running", "ok", "problems", "usage", "interrupted"}

Reading ==
    {"args", "lang", "userPresets", "userSignatures", "presetsFile", "signaturesFile"}
Measuring == {"config", "run", "check", "print"}

TypeOK ==
    /\ set.default \in Keys
    /\ DOMAIN set.presets \subseteq Names
    /\ stage \in Reading \cup {"list", "hosts", "preset"} \cup Measuring \cup {"returned"}
    /\ walk \in {"idle", "walking", "done", "cycle", "unknown"}
    /\ listing \in Keys
    /\ ctx \in {"live", "cancelled"}
    /\ printed \in {"nothing", "part", "whole"}
    /\ exit \in Codes
    /\ exit = "running" <=> stage # "returned"
    /\ printed # "nothing" => stage = "returned"

\* Resolve works for the listing or for the preset to measure, on presets that no longer
\* change. Its calls are for presets that exist, each for another one: however files
\* include each other, they are never deeper than there are presets.
WalkInOrder ==
    /\ stack \in Seq([name : DOMAIN set.presets, next : Nat \ {0}, target : Nat \ {0}])
    /\ Len(stack) <= Cardinality(DOMAIN set.presets)
    /\ \A i, j \in DOMAIN stack : stack[i].name = stack[j].name => i = j
    /\ walk = "walking" <=> stack # <<>>
    /\ walk = "walking" => stage \in {"list", "preset"} /\ (stage = "list" => listing # NoName)
    /\ stage \in Reading => walk = "idle"
    /\ stage # "list" => listing = NoName
    /\ stage = "list" /\ listing # NoName => root = listing /\ walk # "idle"
    /\ stage = "preset" /\ walk # "idle" => root = Asked

Ran == stage \in {"run", "check", "print"} \/ (stage = "returned" /\ printed # "nothing")

\* What is known when a stage is reached; a run that printed has been through all.
At == IF stage = "returned" THEN IF printed = "nothing" THEN "args" ELSE "print" ELSE stage

UserSet(c) == IF c.userConfig THEN MergeFile(Builtin(c), c.user) ELSE Builtin(c)
MergedSet(c) == IF c.extra.state = "ungiven" THEN UserSet(c) ELSE MergeFile(UserSet(c), c.extra)

\* Each stage is reached with what the ones before it have checked, merged and chosen.
Configured ==
    /\ At # "args" => SoundArgs(cmd)
    /\ At \notin {"args", "lang"} => cmd.lang # "unknown"
    /\ stage \in {"args", "lang", "userPresets"} => set = Builtin(cmd)
    /\ At \in {"userPresets", "userSignatures"} => cmd.userConfig
    /\ At \notin {"args", "lang", "userPresets"} => (cmd.userConfig => ~MergeFails(cmd.user, TRUE))
    /\ At \in {"userSignatures", "presetsFile"} => set = UserSet(cmd)
    /\ At \notin Reading \ {"signaturesFile"} =>
        /\ cmd.extra.state # "ungiven" => ~MergeFails(cmd.extra, FALSE)
        /\ set = MergedSet(cmd)
    /\ At = "list" => cmd.list
    /\ At = "hosts" => cmd.hosts # <<>>
    /\ At = "preset" => cmd.hosts = <<>>
    /\ At \in Measuring =>
        /\ targets # <<>>
        /\ cmd.hosts = <<>> => walk = "done" /\ root = Asked /\ targets = out
        /\ \A i \in DOMAIN cmd.hosts :
            /\ targets[i].host = cmd.hosts[i].host
            /\ targets[i].url = "given" <=> cmd.hosts[i].form = "url"
    /\ At \in Measuring \ {"config"} => cmd.proxy # "bad" /\ cmd.resolver # "bad"

\* The stages of Main in their order (cli.go:180-309): what each may rely on, and that
\* Resolve's recursion is bounded, cycle or not (presets.go:115-119).
CliInv == TypeOK /\ WalkInOrder /\ Configured

\* The files merged over the built-in presets, the last one first: what they say about
\* a name, and about the default.
Defines(doc, n) == IsFile(doc) /\ n \in DOMAIN doc.presets
InForce(n) ==
    IF Defines(cmd.extra, n) THEN cmd.extra.presets[n]
    ELSE IF cmd.userConfig /\ Defines(cmd.user, n) THEN cmd.user.presets[n]
    ELSE cmd.builtin.presets[n]

HasDefault(doc) == IsFile(doc) /\ doc.default # NoName
DefaultInForce ==
    IF HasDefault(cmd.extra) THEN cmd.extra.default
    ELSE IF cmd.userConfig /\ HasDefault(cmd.user) THEN cmd.user.default
    ELSE cmd.builtin.default

\* "Users can add or override presets in [the configuration directory] or with
\* --presets FILE" (presets.yaml:4): whatever is measured comes from the last file
\* that defines it, from a command that is sound in every part, and in a
\* configuration Runner can run with (at least one slot, at least one target).
MeasuresWhatIsConfigured ==
    Ran =>
        /\ SoundArgs(cmd) /\ cmd.lang # "unknown" /\ cmd.proxy # "bad" /\ cmd.resolver # "bad"
        /\ cmd.extra.state = "ungiven" \/ Parses(cmd.extra)
        /\ cmd.userConfig => cmd.user.state = "missing" \/ Parses(cmd.user)
        /\ cmd.concurrency \in 1..64 /\ targets # <<>>
        /\ \A n \in DOMAIN set.presets : set.presets[n] = InForce(n)
        /\ cmd.hosts = <<>> =>
            /\ root = IF cmd.preset = NoName THEN DefaultInForce ELSE cmd.preset
            /\ FirstOfEachHost(targets, Expansion(set.presets, root))
        /\ \A i \in DOMAIN cmd.hosts :
            /\ targets[i].host = cmd.hosts[i].host
            /\ targets[i].url = "given" <=> cmd.hosts[i].form = "url"

\* The exit codes (cli.go:27-32): 0 and 1 are the verdicts of a report that was
\* written, or a question about the program itself; 2 comes without a measurement,
\* but for a JSON report that could not be written; an interrupted run prints nothing.
ExitTellsTheTruth ==
    /\ exit = "problems" => Ran /\ failing > 0
    /\ exit = "ok" =>
        \/ Ran /\ failing = 0
        \/ cmd.parse = "help" \/ cmd.version
        \/ cmd.list /\ \A n \in DOMAIN set.presets :
                listed[n] = IF Broken(set.presets, n) THEN 0
                            ELSE Cardinality(Hosts(Expansion(set.presets, n)))
    /\ exit = "usage" => printed = "nothing" \/ (cmd.json /\ printed = "part")
    /\ exit \in {"ok", "problems"} /\ cmd.json /\ Ran => printed = "whole"
    /\ exit = "interrupted" => printed = "nothing" /\ ctx = "cancelled"

\* Whatever the files include, the command comes to its end: a preset that includes
\* itself, through others too, stops Resolve and not the program.
MainEnds == <>(exit # "running")
=============================================================================
