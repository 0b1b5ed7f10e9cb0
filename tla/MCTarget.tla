------------------------------ MODULE MCTarget ------------------------------
(***************************************************************************)
(* Target on small inputs: for every shape of analysis that lookups of the *)
(* small instance can lead to, one lookup; a local result of each kind the *)
(* engine tells apart; errors, responses and downloads on either side of   *)
(* each condition of the layers.                                           *)
(***************************************************************************)
EXTENDS Target

Sign(S) == IF S = {} THEN 0 ELSE 1

\* What the layers after DNS, the verdict and the evidence can tell of an analysis.
Shape(a) ==
    [addrs |-> ProbeCount(a.reference),
     block |-> Sign(a.blockIPs), bogon |-> Sign(a.bogons), suspect |-> Sign(a.suspects),
     injected |-> a.injectedPublic,
     failure |-> IF a.systemFailure \in {"", "nxdomain"} THEN a.systemFailure ELSE "failed",
     unresolvable |-> a.unresolvable,
     silent |-> a.allPlainTimeout]

Configured == [system : Answer, public : [Public -> Answer], doh : [DoH -> Answer]]

MCLookups ==
    {CHOOSE r \in Configured : Shape(Analyze(r)) = s : s \in {Shape(Analyze(r)) : r \in Configured}}

MCLocals ==
    {NoLocal,
     [iface |-> "inactive", route |-> TRUE, baseline |-> "some"],
     [iface |-> "active", route |-> FALSE, baseline |-> "untried"],
     [iface |-> "active", route |-> TRUE, baseline |-> "failed"],
     [iface |-> "active", route |-> TRUE, baseline |-> "some"]}

-----------------------------------------------------------------------------
(* One error for each check of Classify, and those that pass more than one. *)

MCErrors ==
    {{"AlertError", "says remote error"}, {"RecordHeaderError"}, {"ECONNREFUSED", "says refused"},
     {"ECONNRESET", "says reset"}, {"EHOSTUNREACH", "says unreachable"},
     {"DeadlineExceeded", "Timeout()", "says timeout"}, {"EOF", "says eof"},
     {"DNSError", "DNSError.IsTimeout", "Timeout()", "says timeout"},
     {"DNSError", "says refused"}, {"Timeout()", "says timeout"}, {"says refused"},
     {"says reset"}, {"says unreachable"}, {"says timeout"}, {"says eof"},
     {"says remote error"}, {"unknown"}}

MCSignatures ==
    [pages |-> {[url |-> {"filter"}, body |-> {}], [url |-> {}, body |-> {"filtered"}]},
     geos |-> {[hosts |-> {"this"}, status |-> {403}, body |-> {"country"}],
               [hosts |-> {"other"}, status |-> {}, body |-> {"hello"}]}]

Response(status, location, body) ==
    [host |-> "this", status |-> status, location |-> location, body |-> body]

MCResponses ==
    {Response(200, {}, {}), Response(200, {}, {"hello"}), Response(302, {"filter"}, {}),
     Response(403, {}, {"filtered", "country"}), Response(403, {}, {"country"}),
     Response(200, {}, {"country"}), Response(451, {}, {}), Response(451, {}, {"filtered"}),
     Response(503, {}, {}), Response(503, {}, {"country"})}

MCExchanges ==
    {[err |-> e, response |-> Response(0, {}, {}), readErr |-> NoError] : e \in MCErrors}
      \cup [err : {NoError}, response : MCResponses, readErr : MCErrors \cup {NoError}]

-----------------------------------------------------------------------------
(* Downloads on either side of each threshold: with MinBytes 2, MaxBytes 4 and a ratio *)
(* of 2 for both.                                                                       *)

MCDownload(status, received, end, duration, handshake) ==
    [replied |-> status # 0, status |-> status, received |-> received, end |-> end,
     duration |-> duration, handshake |-> handshake]

MCDownloads ==
    {MCDownload(200, 4, "eof", 1, 1), MCDownload(200, 2, "timeout", 4, 1),
     MCDownload(200, 3, "eof", 2, 4), MCDownload(200, 6, "error", 3, 3),
     MCDownload(200, 1, "timeout", 4, 5), MCDownload(404, 4, "eof", 4, 1),
     MCDownload(0, 0, "error", 0, 0), MCDownload(200, 0, "timeout", 4, 5)}

MCBaselines ==
    {MCDownload(200, 4, "eof", 1, 1), MCDownload(200, 4, "eof", 2, 2),
     MCDownload(403, 4, "eof", 1, 1), MCDownload(200, 4, "eof", 1, 0),
     MCDownload(0, 0, "error", 4, 0)}
=============================================================================
