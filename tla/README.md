# Chera in TLA+

Chera diagnoses why a developer service cannot be reached. One run takes a list
of targets through up to seven layers (local network, DNS, TCP, TLS, HTTP,
throttling, outage) and gives each target one verdict with its evidence. What
can go wrong in such a program is seldom a crash. It is a verdict that blames
the wrong party, because a result was read too early, a layer that did not run
was taken for one that passed, or an interruption was taken for a blocked
network. The specifications here are about that.

Paths below are relative to the repository; `probe.go` is
`internal/probe/probe.go`, and so on.

## 1. Inventory

| Component | State it keeps | Operations | Interacts with |
|---|---|---|---|
| probe runner (`probe.go` Run) | `shared` (run-wide results, `done`, two `sync.Once`), two WaitGroups, the semaphore, the report | start checks, close `done`, spawn, acquire, release, decide, summarise | calls everything; called by cli |
| target pipeline (`probe.go` checkTarget, `evidence.go`) | `run`: the results of one target's layers | resolve, verify, connect, handshake, fetch, download, join, ask the status page, decide | runner's shared results, all layers |
| DNS resolution and analysis (`dnscheck/check.go`) | `Result`, `Analysis` | Resolve (a goroutine per resolver), Analyze, CheckInterception | resolvers, signatures |
| DNS resolvers (`dnscheck/resolvers.go`) | a socket and a query ID per lookup | System, UDP and DoH Lookup, udpExchange | dnswire, proxy |
| DNS wire format (`dnswire`) | cursor and name being read | Query, Parse, readName | resolvers |
| verdict engine (`verdict`) | none, a pure function | Decide | results of all layers |
| TCP, TLS, HTTP layers | their results | ProbeAll, Check, Fetch, classification | dialer, signatures |
| throttling, outage | measurement, indicator | Measure, Compare, Check | HTTP client |
| local network (`localnet`) | `Result` | Check, Down | operating system |
| netx | none | Classify | every layer |
| proxy dialer (`netx/proxy.go`) | a connection, its deadline, a buffer | DialContext, CONNECT, SOCKS5 | every dialing layer |
| cli | options, exit code | ParseArgs, ParseTarget, Main | presets, runner, reports |
| presets | named target lists | Merge, Resolve (includes), Lookup | cli |
| signatures | block pages, geo-blocks, block addresses | Merge, the matching | HTTP, DNS, TLS layers |
| reports, i18n, model, defaults | data | formatting | |

What is hard in it, and what makes each component right:

- **Runner.** Goroutines of targets, run-wide checks, a closer and the caller
  share memory ordered only by a channel, two WaitGroups and two `sync.Once`,
  and Ctrl-C can cancel any operation. Right means: verdicts come from final
  results, each measured once; the report is complete; slots bound the work
  and never block it on something unrelated; an interrupted run reports nothing.
- **Pipeline and verdict engine.** Twelve verdicts out of many partial results,
  where a layer that did not run is a nil pointer. Right means: the party blamed
  is the one the layers convict; no problem is lost; OK is said only of what
  answered; the report shows a failed row for what it blames.
- **DNS.** Answers of resolvers that may lie, fail or stay silent, compared to
  find which. Right means: nobody honest is accused, nothing bad goes unnoticed,
  and silence is read as dropped queries only when it is.
- **dnswire.** Bytes from anyone. Right means: in bounds, always ending, exactly
  what the server put in or nothing.

- **Resolvers.** A network that loses, delays, duplicates and reorders, sockets
  that follow each other on a port, IDs of 16 bits. Right means: an answer is
  this resolver's, about this name, and a lookup ends whatever arrives.
- **Proxy dialer.** A byte stream with a handshake in front and a tunnel behind.
  Right means: the tunnel begins exactly where the handshake ends, a failed dial
  leaves nothing open, a successful one no deadline.
- **Command line and presets.** Files over files, includes of includes, and many
  early returns. Right means: what is measured is what is configured last, a
  cycle is an error and not a hang, and the exit code says what happened.
- **Throttling.** Rates of downloads that may be short or cut. Right means: a slow
  network accuses nobody, and a download throttled enough to be cut off counts.

The hazards are listed at their lines in `PROJECT.json`, with the properties
that cover each, and the reason for those not yet covered.

## 2. Modules

| Module | Models | Built on |
|---|---|---|
| `RunFacts` | the vocabulary of a run: facts, outcomes, verdicts | |
| `RunPromise` | what a run promises, without goroutines | `RunFacts` |
| `Runner` | `Runner.Run`, `cli.Main` around it; refines `RunPromise` | `RunFacts` |
| `RunnerProofs` | its theorems | `Runner` |
| `DnsAnalysis` | `dnscheck.Analyze` as operators | |
| `Dns` | Resolve's goroutines, the comparison, the control name | `DnsAnalysis` |
| `AnalysisProofs` | theorems on `Analyze` | `DnsAnalysis` |
| `Resolvers`, `MCResolvers` | the lookups of System, UDP and DoH, the network between; refines `Dns` | `Dns` |
| `ResolversProofs` | theorems on `Dns` and `Resolvers`, the refinement among them | `Resolvers`, `AnalysisProofs` |
| `Speed` | `speed.Measure` and `speed.Compare` | |
| `Layers` | `netx.Classify`, `httpcheck.Fetch` and the signatures, `outage.Check`, `localnet.Check` as operators | |
| `Verdict` | `verdict.Decide` and the layers' predicates and outcomes | `DnsAnalysis`, `Layers`, `Speed` |
| `Target`, `MCTarget` | `checkTarget`, `decide`, `evidence` for one target | `Verdict`, `RunFacts` |
| `TargetProofs` | theorems on `Target`, `Verdict` and `Speed` | `Target`, `AnalysisProofs` |
| `Concat` | sequences joined, for every number of them | |
| `ConcatProofs` | lemmas on it, and recursion without induction | `Concat` |
| `DnsWire` | `dnswire.Parse`, `readName` on bytes | |
| `DnsReply`, `MCDnsWire` | `dnswire.Answer`, and what Parse makes of a reply, whole or cut | `DnsWire`, `Concat` |
| `DnsWireProofs` | theorems on both | `DnsReply`, `ConcatProofs` |
| `ProxyDial`, `MCProxyDial` | `proxyDialer.DialContext`, the proxy and the tunnel's reader | |
| `ProxyProofs` | its theorems | `ProxyDial` |
| `Presets` | `presets.Set`: Parse, Merge, Resolve, Lookup | `Concat` |
| `Cli`, `MCCli` | `cli.Main` from the arguments to the exit code | `Presets` |
| `CliProofs` | theorems on `Cli` and on Resolve under it | `Cli`, `ConcatProofs` |

**How they compose.** `Target` is one target in full, its lookups taken from
`DnsAnalysis`; `Runner` is many targets, each reduced to an outcome
(`works`, `poisoned`, `dropped`, ...). The reduction is checked, not assumed:
`RunnerAgrees` in `Target` says that a target with one of those outcomes gets
from the engine the verdict that `RunFacts!VerdictOf` gives the outcome. `Dns`
refines the first step of `Target` into one step per resolver, and `Resolvers`
refines each of those into a socket, a query and the datagrams that arrive; the
control name's lookup, one step of `Dns`, is a second round of them. That
`Resolvers` implements `Dns` is checked by a run and proved (`ImplementsDns`). The
layers of `Target` take their results from `Layers` and `Speed`: an error, a
response or a download goes in, and what Classify, Fetch or Compare make of it
comes out. `Cli` ends where `Runner` begins: `MeasuresWhatIsConfigured` gives
`Runner`'s assumptions (a target, a slot), and `Cli`'s step `Run` is `Runner` from
`Init` to `Return`.

**Correspondence with the code.** A variable of `Runner` is a variable of `Run`
or of `shared`: `sem`, `wg`, `swg` and `done` are the channel, the WaitGroups
and the closed channel; `phase` is the goroutine or the Once that measures a
fact; `pc[t]` is where target `t`'s goroutine stands, `st[t]` what its `*run`
amounts to. In `Target` the variables are the fields of `*run`, and the steps
the layers of `checkTarget` between two waits. In `DnsWire` they are the locals
of `Parse` and `readName`, one action per turn of a loop. In `Presets` the
closure's recursion is a stack of calls, one action per call, per target and per
return. In
`ProxyDial` `pc` is the read that DialContext waits in, `pos` the bytes read from
the connection and `buffered` those of them still in the `bufio.Reader`. In
`Resolvers` `ask[s]` is a lookup's socket, with its port and ID. In `Cli` `stage`
is the next of Main's early returns. Every other operator
has its lines in `PROJECT.json` ("map"). Operators commented "Variant" are not
part of the model: each is a plausible mistake in the operator after it, and
the property named with it in `PROJECT.json` ("mutants") fails when it takes
its place.

**Grain of atomicity.** Goroutines interleave at every blocking point (channel,
WaitGroup, Once, network) and at every access to shared state. What one
goroutine does between two such points on its own variables is one action.
Storing a run-wide result and the `swg.Done` after it are one action, because
nobody may read the result before `done` is closed, and
`VerdictsFromFinalFacts` shows that nobody does.

**Abstractions.** Addresses are model values and answers are sets of them (the
order of the public resolvers, which decides the reference, is kept; the order
of addresses, which decides only which ones are probed first, is not). Error
values are the kinds `netx.Classify` gives them. In `Verdict`, outcomes the
engine never distinguishes share a value (named in its header), and reason keys
that differ only in wording share a key (`tls.sni_reset` and `tls.sni_timeout`;
`dns.unresolvable` with and without DoH). Certificates are the four problems
`tlscheck` distinguishes. Errors are the set of what `Classify` can tell of them,
texts the set of the phrases that signatures look for, presets' names are numbers
in their sorted order (a preset that a file names by the empty string is left out), a file is what reading and decoding it leads to. Rates are
fractions compared crosswise; the code's are floating-point numbers, which differ
from them at most when two rates are equal to the last bits. A datagram is what
`dnswire.Parse` gives for it (module `DnsWire` has the bytes), or garbage.

## 3. Runs

| Run | Instance | States | Shows |
|---|---|---|---|
| `runner` | 2 targets, 2 slots, both checks, speed, Ctrl-C | 606,524 | safety, the inductive invariant, refinement of `RunPromise` |
| `runner_live` | 2 targets, 1 slot, speed, one run-wide check that may hang | 156,732 | layers never wait for run-wide checks; the bound on targets at work; every run ends if the check does |
| `dns` | system, 2 public, 1 DoH, 4 addresses | 514,153 | the analysis |
| `dns_silence`, `dns_bogon_reference` | 1 public, 1 DoH | | two divergences of docs and code (below) |
| `target` | every shape of analysis, 2 probed addresses | 1,732,882 | the verdict and its evidence |
| `target_incident`, `target_skip` | the same | | two more (below) |
| `dns_wire` | 10 replies, cut or corrupted | 52,153 | decoding |
| `cli` | 3 built-in presets, 2 files, commands with up to two oddities | 217,203 | what is measured, includes and cycles, exit codes |
| `resolvers` | a system, a UDP and a DoH resolver, 2 IDs, 1 port, 2 datagrams | 380,000 | the exchange implements `Dns`; own answers; lookups end |
| `proxy_dial` | CONNECT and SOCKS5, every reply cut anywhere | 403,030 | the tunnel is intact, the connection settled, dials end |

**Why the bounds are enough.**
Two targets are the fewest with a race between targets: two callers of one Once,
two for one slot, one judged and one still at work. Two slots let both be
at work, one slot makes one queue behind the other; both are run. A third target
adds no new pair of steps, and `RunnerProofs` covers every number.

The four addresses of `dns` are one of each kind the code tells apart beyond
identity (a block-page address that is also private, a private one) and two public ones, so
that answers can agree, overlap and differ. Two public resolvers make their order
matter. Every resolver ranges over all sets of addresses and all kinds of error.

`target` does not enumerate lookups but one lookup for each *shape* of analysis
(`MCLookups`): the layers after DNS see only how many addresses there are to
probe and which of the analysis's lists are empty, so that lookups of one shape
lead to the same verdict. Two probed addresses are the fewest for which "any"
and "all" in `Summarize` differ. Local results are one of each kind
`Down` and `AnyBaseline` tell apart. Errors are one for each check of `Classify` and
those that would pass a later one too; responses and downloads lie on either side
of each condition of `Classify` and `Compare`, alone and two at a time, with the
thresholds scaled down (a limit of 4 bytes, 2 of them enough for a rate), and a request
that fails in no time and a reused connection without a handshake among them. Every
outcome of a TLS handshake and of a status page occurs.

`dns_wire` uses the real header size and the real hop limit. A corrupted byte
takes the values at which the decoder's tests change: 0 (terminator), 1 (shortest
label), 12 (a pointer to the name's beginning), 19 (a pointer to itself, in
messages with the shorter name), 64 (reserved label type), 192 (pointer) and 255
(pointer beyond the end, longest count). So one corrupted byte gives pointers to
themselves, counts beyond the last record and lengths beyond the last byte.

`cli` starts from every combination of two things out of the ordinary (a flag, a
file that is missing, unreadable or unsound, an unknown language or preset, a
host or a URL) and from every pair of files that redefine one preset each: empty,
with a target given twice, or including any of the others, itself and a name nobody
defines. Four names give cycles of one, two and three presets, and a preset
included twice on two paths. `resolvers` has a single local port, so that the
second round's socket is bound where the first's was, and late responses to the
first arrive at it; two IDs give both a match and a mismatch. Two datagrams are the
fewest that can be reordered, and any of them can be duplicated. One resolver is
asked over UDP (`SystemIsUDP`, for `--resolver`, is FALSE in the run): a connected
socket gets only its own server's datagrams, so that those of different resolvers
do not meet. `proxy_dial` has SOCKS5 replies with each of the three address
types, a domain name of length 0 and 3, every refusal, and a tunnel whose first
bytes would be an error in the handshake.

**Fairness.** Every network operation of a target or of a check runs under
`context.WithTimeout` or a deadline (`check.go:74`, `resolvers.go:143`,
`tcpcheck.go`, `tlscheck.go`, `httpcheck.go`, `speed.go`, `outage.go`,
`localnet.go`), so that it ends, and a goroutine that stays runnable is
scheduled. This is weak fairness on each target's steps, on Run's own and on the
run-wide checks. Nothing makes the user press Ctrl-C. `HangingSpec` leaves out the
run-wide checks and the closer, to show what does not depend on them; `Terminates`
adds their fairness as its antecedent. Go does not promise an order in which senders on a channel or
callers of a Once are served, and none is assumed: weak fairness suffices since
a slot, once free, stays free until a target takes it, and there are finitely
many targets. `DnsWire!FairSpec` says that a function call goes on, and
`Cli!FairSpec` that Main does. In `Resolvers` a socket's deadline comes; nothing makes
a server respond, and foreign datagrams may arrive for ever. In `ProxyDial` a
deadline passes, bytes under way arrive and a read returns when there is something
to return; no proxy has to send anything, so that `DialEnds` asks for a deadline
or a proxy that closes the connection. `net/http` (since Go 1.23) detaches
the context of a dial it started, so that not every caller gives one.

**Where a system stops.** Every specification ends in an
explicit stuttering disjunct, so that deadlock is checked in every run.

### What disagrees

Four runs show a disagreement between the code and what the repository says:

- `dns_silence`: the guide (how-it-works.md:104) and the comment at
  check.go:127 look up the control name whenever every plain resolver timed out.
  probe.go:304 does so only when DoH does not know the name either, so that with
  DoH at work dropped queries are reported as a failing system resolver.
- `dns_bogon_reference`: check.go:105 says private addresses count as bad "while
  the reference addresses are public"; check.go:159 asks only that not all of
  them are private. Where DoH answers with a public and a private address and plain
  DNS with the private one, the latter is in the reference and is listed as proof of
  poisoning.
- `target_incident`: the guide (how-it-works.md:208-213) lets an active incident
  turn the verdict into UPSTREAM_OUTAGE for "errors after the handshake";
  verdict.go:239 returns CONNECTION_RESET first when the error is a reset.
- `target_skip`: the row "no reference address to connect to" (evidence.go:124)
  has the opposite condition and is never shown.

Smaller ones, met while modelling and left without a run: how-it-works.md:178
promises high confidence when the status page confirms a 5xx, a minor incident
gives medium (verdict.go:264-268); check.go:112 calls answers injected "while
DoH did not" give bad ones, DoH's own addresses are not looked at;
`readName`'s limit of 64 counts labels as well as pointers, so that legal names
of more than 64 labels are refused; the text of RCode REFUSED contains the word
by which `netx.Classify` finds refused connections. A JSON report that cannot be
written exits with 2, "bad flags or configuration" (cli.go:30, 292-295), and a
text or Markdown report that cannot be written goes unnoticed; `--list-presets`
prints 0 targets for a preset whose Resolve fails. `udpExchange` returns "the first
response that matches its ID and question" (resolvers.go:128) but compares the
question's name only, and ignores the truncation bit; the DoH client looks at
neither ID nor question. SOCKS5 takes the password method when it was not offered
and does not look at the version in the reply.

## 4. Proofs

All are checked by TLAPS, for every value of the constants, from the named
assumptions of the modules alone, which TLC evaluates on every run:
`RunAssumption`, `RunnerAssumption`, `DnsAssumption`, `SystemAssumption`,
`WireAssumption` and `SpeedAssumption` (types and thresholds), `TargetAssumption`
(types; there are finitely many addresses; a download that is answered takes time, a
round trip at least, and only one that fails before it is sent takes none), `ResolversAssumption` (types; 0, which
asks for any port, is not one), `ProxyAssumption` (a SOCKS5 proxy sends bytes),
`ReplyAssumption` (a reply's labels have 1 to 63 bytes and are fewer than the hop
limit; its counts, types and lengths fit into two bytes), `PresetsAssumption` (there
is a name) and `CliAssumption` (a file that decodes gives well-formed presets, and
the built-in file parses). Of the 40 properties of the passing runs, 34 are theorems;
the other six are liveness.

**`ConcatProofs`.** The provers have no induction over data. In its place stands the
least counterexample: of a set of numbers that is not empty there is a least one
(`Least`, from the library's theorem on well-founded relations). `Recursion` gives a
recursive function its equation from this once, and `JoinedIs` that of sequences
joined to one; `JoinedAt` says where each of them is in the whole. The other proofs
about recursion and about bytes rest on these.

**`RunnerProofs`.** None of the properties is inductive alone. That a verdict
rests on final results needs `done` to mean that all checks have ended; that
needs `swg` to count those still running; that the report is complete needs `wg`
to count the targets alive, and that none is unborn when the loop is over; the
slot bound needs `sem` to count the targets inside. `IInv` is the conjunction of
these (`Counted`, `MainInOrder`, `SharedInOrder`, `TargetsInOrder`) with the
type invariant and the properties (`OneAnswerForAll` among them). The counters are compared with
cardinalities, for which the module proves two lemmas (a set that gains or loses
one element), and each action then has one step per conjunct it can disturb.
From `IInv` follow `TypeCorrect`, `BoundedConcurrency`, `FinalFacts`,
`CompleteReport` and `NoCutReport` (which needs that nothing is cut under a live
context, and that the context was live when the exit code was chosen);
`MeasuredOnce` is an action property, and needs that a fact exists exactly when
its measurement is over; `Implements` maps every step of `Runner` to a step of
`RunPromise` or a stutter, under the identity on facts, reports and exit code.
`DeadlockFree` is about who waits for whom: a target waits for a slot, for the
target inside a `sync.Once`, or for the checks, and Run for all of them. `IInv`
does not say that somebody *is* inside a Once that has begun, so `OnceAttended` is
added to it; then who holds a slot can go on, or whoever it waits for can, and
somebody holds one when none is free. `NobodyStuck` spells the guards of the steps
out in `CanGoOn`, since ENABLED is out of the prover's reach. `StepsAreBounded`
gives the number of steps a run has left, by which each of them is one less.

**`AnalysisProofs` and `ResolversProofs`.** The first is about `Analyze` as an
operator, for any answers: what the reference is and where it comes from
(lemmas), when a name is unresolvable, who is suspected, which bad answers are
noticed, which findings exclude each other (`AnalyzeExcludes`, on which the
proofs about verdicts rest), and that nobody is accused where all who answered
share a public address (`AnalyzeHonest`). In the second, `DnsInv` says that the
analysis is the one of all answers and that no configured resolver is missing;
the properties of `Dns` follow from it and the operators' theorems. For
`Resolvers`, `ExTypeOK` is inductive together with `DnsInv`: a lookup is over exactly
when its answer is in, no two sockets hold the same port, and only what was
asked is answered. `StepImplements` then maps each step to a step of `Dns` or a
stutter: a lookup's end is a `Lookup`, the control name's last lookup is the
`ControlLookup`, and everything the network does is a stutter. `OwnAnswers` says
of each lookup that a reply has ended that the answer it recorded is the one this
reply, a response to its own query, gives; `AllOwn` says the same of the results as a
whole and is what is inductive. `LookupsAreBounded` counts the steps the lookups
have left in both rounds, which the network's own steps leave alone and every other
step lowers: a lookup that skips a foreign datagram gains no time by it, and the
second round, which resets every lookup, asks nobody that was not counted.

**`DnsWireProofs`.** `WireInv` says that the cursor is inside the message and
behind the header, and, while a name is read, that its end (where the first
pointer was) is inside the message and behind the cursor. Without the last part
it is not inductive: a name that ended before its beginning would move the cursor
back. It holds for any message and any hop limit. `AlwaysAdvances` follows: each step consumes
bytes or a turn, and as the turns are few (`MaxHops` and five) a natural number falls
with every step (`TurnsAreBounded`): Parse's loops end on any datagram, and what
`ParseEnds` adds to it is only that a loop that has a next step takes it.

`CutOffIsRejected` and `WhatGoesInComesOut` are about a reply of any name and any
records of any type, class and data. First, lemmas say where everything is in its
encoding (`ReplyHeader`, `ReplyLabels`, `ReplyRecords`). Then `RepliesFollowed`, the
inductive invariant, relates every step of Parse on such a message, whole or cut off,
to the reply: in which label of the question's name `readName` is, also behind an
answer's pointer; at which record the cursor stands, and that the addresses found so
far are those among the records before it; and that nothing is rejected unless bytes
are missing. The hop limit enters twice: a name has fewer labels than it, and an
answer's pointer is one hop more. At the end of the section the cursor is at the end
of the encoding, where a message that was cut off does not reach: `CutIsRejected`
needs `CursorInside` for that, and nothing about where the cut was.

**`TargetProofs`.** The inductive invariant, `MeasuredInOrder`, says which layers
have results at which step and from what: connections only to addresses of the
reference, handshakes only over connections, a response only over a handshake,
a download only where the response calls for one, and how many connections all
these have made. It is proved one action at a time. What a verdict then means is a matter
of `Decide` alone, whose `switch` and helpers give one lemma each (what each part
says, and what it says it of); `DecisionFound` puts them together, and each of
the eight properties of the verdict follows from it, the invariant and
`AnalyzeExcludes`. `RunnerAbstracts` is the link between `Target` and `Runner`: a target that
amounts to one of `Runner`'s outcomes gets that outcome's verdict. `Slower` rests on
the part of `TargetAssumption` that an answered download takes time: for one that
took none `Rate` returns 0, the slowest rate there is.

The thresholds of `Speed` are constants (a ratio of at least two, a limit,
a rate), the measurements any. `AsFastIsFine`: a target with at least the
baseline's rate and no longer a handshake is never throttled, whatever the
thresholds. `SlowerIsThrottled`: below a rate that counts as throttled every
slower one does too, as long as there are bytes enough for a rate. The condition
is needed: a download of which fewer than `MinBytes` arrive before the timeout is
never "throughput", as the guide says (how-it-works.md:199). The arithmetic is of
products of three unknowns, out of the solver's reach; the proofs use products as
an opaque operator with five laws, each a lemma.

**`ProxyProofs`.** For any script of a proxy, cut or delayed anywhere. Three things
are inductive only together: where the reader stands in the stream and what is
left in its buffer (`Positions`), in which states the connection is open and has a
deadline (`Standing`), and at which byte of the reply each read of the handshake
begins, as a function of the bytes before it (`HandshakeRead`). The last is what
makes `TunnelIntact` provable: a SOCKS5 reply's length depends on its own fourth and
fifth byte, and the tunnel begins where the arithmetic on them says.
`DialIsBounded`: a dial and its tunnel are at most `2 + 2 * Len(script)` steps,
the stages and each byte's arrival and reading, as no step of the handshake goes back.

**`CliProofs`.** `CliInv` says that Main's stages come in order,
each with what it relies on, and that a call of Resolve's closure never nests deeper
than there are presets: the calls under way are of different presets, since a
preset being visited is refused, and a stack of distinct names is no longer than
their number. `Resolves` says that the closure's recursion, with its `visiting` and
its `seen` shared by all calls, returns what a definition without either says: the first target of
each host among a preset's own targets and those of its includes, in order, and
an error exactly when an include is missing or leads back. A recursion is
unfolded by its least counterexample, as in `ConcatProofs`:
a preset's expansion, defined by levels, settles at a level no higher than
the number of presets below it (`LevelsSettle`), which each include strictly decreases.
`ResolveInv` then says of every moment in between that the stack is a chain of
includes from the name asked for and that `out` is the firsts of what the calls on it
have gathered so far. From these and from `SetStaysSound` follow
`ConfiguredIsMeasured` (what is measured comes from the last file that says
anything about it) and `ExitIsTrue` (the exit code, and that a listing that ends
well has counted every preset).

`StepsAreBounded` says that Main ends on any command and files, cycles of includes
among them. Main's stages are few; within one, what falls is the number of files,
presets or steps of Resolve left. Resolve's is the hard one, as a preset included on
two paths is walked twice: the open calls are read as the digits of a number, what
each has left to do, in a base larger than any call has to do, the outermost call's
digit first. A call that is opened takes one off its caller's digit and adds smaller ones
behind it, and `CliInv` bounds the number of digits by the number of presets.

**Only model-checked:** liveness (`Terminates`, `LayersDontWait`, `ParseEnds`,
`MainEnds`, `LookupsEnd`, `DialEnds`), which the prover does not handle under
fairness. What is particular to this code in them is proved: that there are
boundedly many steps (`TurnsAreBounded`, `LookupsAreBounded`, `DialIsBounded` and both
`StepsAreBounded`) and, for `Runner`, that nobody is stuck (`DeadlockFree`); TLC is
left with the step from there to "they are taken". Also only model-checked are the four
runs that show a disagreement, which are about one instance each.

## 5. Not modelled

- Formatting of reports, translations, defaults, the program entry and the web
  site: pure data, text or configuration, with no state.
- Evidence rows that only inform (VPN and proxy settings, timings).
- How many entries signature files add, and the parsing of YAML, URLs, flags and
  durations: outcomes only.
- What is written to a proxy and to a DoH server; `crypto/tls`, `net/http`
  (`http.ReadResponse` is modelled from its use) and certificate checking.
- The operating system's view of interfaces, routes and proxies, and its resolver's
  own retries.
- Ctrl-C before `signal.NotifyContext`, which ends the process outright, and while
  the report is printed, when it has no effect.
- Names of more than 64 labels, and datagrams longer than the read buffer (1500
  bytes; they are cut by the system and rejected like any cut message, see
  `CutIsRejected`).

## 6. Plan

Done: 1 `Runner` with `RunPromise` and proofs; 2 `DnsAnalysis`, `Dns` and proofs;
3 `Layers`, `Speed`, `Verdict`, `Target` and proofs; 4 `DnsWire` and proofs;
5 `Resolvers` and proofs; 6 `ProxyDial` and proofs; 7 `Presets`, `Cli` and proofs;
8 measures for all that has to end. Next:

9. `RoundTrip` for replies whose records have names of their own, compressed by
   pointers into any earlier name, as real servers send them and Answer does not.
