------------------------------- MODULE MCCli --------------------------------
(***************************************************************************)
(* Cli on three built-in presets, a user's file and an extra one that each *)
(* redefine a preset, and commands with one or two things out of the       *)
(* ordinary.                                                               *)
(***************************************************************************)
EXTENDS Cli

Entry(h, file) == [host |-> h, url |-> file, rest |-> file]
Group(ts) == [targets |-> ts, include |-> <<>>]
Including(ns) == [targets |-> <<>>, include |-> ns]
File(default, presets) == [state |-> "file", default |-> default, presets |-> presets]
NoFile(state) == [state |-> state]

\* 3 includes 1 and 2, which share a host; 4 is a name nobody defines.
BuiltinFile ==
    File(3, (1 :> Group(<<Entry("a", "b1")>>)) @@ (2 :> Group(<<Entry("b", "b2"), Entry("a", "b2")>>))
              @@ (3 :> Including(<<1, 2>>)))

Shapes(file) ==
    {Group(<<>>), Group(<<Entry("a", file)>>), Group(<<Entry("c", file), Entry("c", "again")>>)}
      \cup {Including(ns) : ns \in {<<1>>, <<2>>, <<3>>, <<4>>, <<1, 2>>, <<2, 1>>, <<2, 2>>, <<3, 1>>}}

\* A preset with both targets and includes, or a target without a host.
Unsound == {[targets |-> <<Entry("a", "x")>>, include |-> <<1>>], Group(<<Entry("", "x")>>)}

FilesFrom(file, defaults) ==
    {File(d, n :> s) : d \in defaults, n \in Names, s \in Shapes(file)}
BadFiles == {File(NoName, 1 :> s) : s \in Unsound} \cup {NoFile("malformed"), NoFile("unreadable")}

Plain ==
    [parse |-> "ok", version |-> FALSE, json |-> FALSE, markdown |-> FALSE, timeout |-> 5,
     concurrency |-> 8, preset |-> NoName, hosts |-> <<>>, lang |-> "", list |-> FALSE,
     proxy |-> "none", resolver |-> "none", userConfig |-> TRUE,
     builtin |-> BuiltinFile, user |-> NoFile("missing"), extra |-> NoFile("ungiven"),
     userSigs |-> "missing", extraSigs |-> "ungiven"]

Arg(form, h) == [form |-> form, host |-> h]

\* One thing out of the ordinary.
Odd(c) ==
    {[c EXCEPT !.parse = v] : v \in {"help", "bad"}}
      \cup {[c EXCEPT !.version = TRUE], [c EXCEPT !.json = TRUE], [c EXCEPT !.markdown = TRUE],
            [c EXCEPT !.list = TRUE], [c EXCEPT !.userConfig = FALSE], [c EXCEPT !.timeout = 0]}
      \cup {[c EXCEPT !.concurrency = v] : v \in {0, 1, 64, 65}}
      \cup {[c EXCEPT !.preset = v] : v \in {1, 4}}
      \cup {[c EXCEPT !.hosts = <<Arg(f, h)>>] : f \in {"host", "url", "invalid"}, h \in {"a", "z"}}
      \cup {[c EXCEPT !.hosts = <<Arg("host", "b"), Arg("url", "b")>>]}
      \cup {[c EXCEPT !.lang = v] : v \in {"known", "unknown"}}
      \cup {[c EXCEPT !.proxy = v] : v \in {"good", "bad"}}
      \cup {[c EXCEPT !.resolver = v] : v \in {"good", "bad"}}
      \cup {[c EXCEPT !.user = v] : v \in BadFiles}
      \cup {[c EXCEPT !.extra = v] : v \in BadFiles \cup {NoFile("missing")}}
      \cup {[c EXCEPT !.userSigs = v] : v \in {"file", "malformed"}}
      \cup {[c EXCEPT !.extraSigs = v] : v \in {"file", "malformed", "missing"}}

MCCommands ==
    UNION {Odd(c) : c \in Odd(Plain)}
      \cup {[Plain EXCEPT !.user = u, !.extra = x, !.list = l] :
                u \in FilesFrom("u", {NoName}), x \in FilesFrom("x", {NoName, 1}) \cup {NoFile("ungiven")}, l \in BOOLEAN}
=============================================================================
