----------------------------- MODULE ProxyDial ------------------------------
(***************************************************************************)
(* netx.proxyDialer.DialContext: a TCP connection through an HTTP CONNECT  *)
(* or SOCKS5 proxy, and the tunnel it returns. The proxy's bytes arrive    *)
(* one after the other, at any time, with the tunnel's own bytes behind    *)
(* them, and end in silence or with the connection.                        *)
(*                                                                         *)
(* What SOCKS5 reads are bytes. What CONNECT reads are lines: a status     *)
(* (200 or another), other header lines (1), a malformed line (-1) and the *)
(* empty line that ends them (0). Network and address arguments are those  *)
(* the layers pass: TCP, and host:port.                                    *)
(***************************************************************************)
EXTENDS Integers, Sequences

CONSTANTS
    Dials,    \* what may be dialed: the scheme, the credentials, the host, the deadline
    Scripts   \* for a scheme, the bytes a proxy may send

Schemes == {"http", "socks5"}

ASSUME ProxyAssumption ==
    /\ Dials \subseteq [scheme : Schemes, creds : {"none", "short", "long"},
                        host : {"good", "long"}, deadline : BOOLEAN]
    /\ Scripts["http"] \subseteq Seq(Int)
    /\ Scripts["socks5"] \subseteq Seq(0..255)

VARIABLES
    dial,      \* the arguments of DialContext
    script,    \* the bytes the proxy sends
    closes,    \* the proxy closes the connection behind them
    arrived,   \* how many have arrived
    pos,       \* how many were read from the connection
    buffered,  \* how many of these are in the bufio.Reader, not handed out yet
    pc,        \* what the handshake reads next, "returned" or "failed"
    skip,      \* the length of the address in the reply
    conn,      \* the connection to the proxy: "none", "open" or "closed"
    deadline,  \* it has a deadline
    got        \* bytes of the tunnel read from the connection that was returned

proxyVars == <<dial, script, closes>>
vars == <<proxyVars, arrived, pos, buffered, pc, skip, conn, deadline, got>>

Handshake == {"head", "greeting", "auth", "reply", "length", "address"}

Init ==
    /\ dial \in Dials
    /\ script \in Scripts[dial.scheme]
    /\ closes \in BOOLEAN
    /\ arrived = 0
    /\ pos = 0
    /\ buffered = 0
    /\ pc = "start"
    /\ skip = 0
    /\ conn = "none"
    /\ deadline = FALSE
    /\ got = 0

\* Every error closes the connection.
Fail ==
    /\ pc' = "failed"
    /\ conn' = "closed"
    /\ UNCHANGED <<buffered, deadline>>

\* Variants: the connection is returned as it is; the deadline is left in place.
SucceedUnbuffered(n) ==
    /\ pc' = "returned"
    /\ buffered' = 0
    /\ deadline' = FALSE
    /\ UNCHANGED conn

SucceedUnderDeadline(n) ==
    /\ pc' = "returned"
    /\ buffered' = n
    /\ UNCHANGED <<conn, deadline>>

\* The deadline is lifted; bytes already read are handed out first (bufferedConn).
Succeed(n) ==
    /\ pc' = "returned"
    /\ buffered' = n
    /\ deadline' = FALSE
    /\ UNCHANGED conn

GoOn(next) == pc' = next /\ UNCHANGED <<buffered, conn, deadline>>

Require(sound, next) == IF sound THEN GoOn(next) ELSE Fail

\* The proxy is connected to, and the deadline set if the context has one.
Dial ==
    /\ pc = "start"
    /\ conn' = "open"
    /\ deadline' = dial.deadline
    /\ pc' = IF dial.scheme = "http" THEN "head" ELSE "greeting"
    /\ UNCHANGED <<proxyVars, arrived, pos, buffered, skip, got>>

CannotDial ==
    /\ pc = "start"
    /\ pc' = "failed"
    /\ UNCHANGED <<proxyVars, arrived, pos, buffered, skip, conn, deadline, got>>

-----------------------------------------------------------------------------
(* HTTP CONNECT. *)

\* The first n lines have a malformed one in the head.
Malformed(n) ==
    \E i \in 1..n : script[i] = -1 /\ \A j \in 1..i-1 : script[j] # 0

Ends(n) == \E i \in 1..n : script[i] = 0
HeadEnd == CHOOSE i \in 1..Len(script) : script[i] = 0 /\ \A j \in 1..i-1 : script[j] # 0

\* http.ReadResponse through a bufio.Reader, which reads as much as it is given:
\* between the end of the head and everything that has arrived. Any status but 200
\* fails, at once here; the code's Close of the refusal's body may read on for a while
\* first, under the same deadline, and the connection is closed either way.
ReadHead ==
    /\ pc = "head"
    /\ \/ /\ Malformed(arrived)
          /\ pos' = arrived
          /\ Fail
       \/ /\ ~Malformed(arrived) /\ Ends(arrived)
          /\ pos' \in HeadEnd..arrived
          /\ IF script[1] = 200 THEN Succeed(pos' - HeadEnd) ELSE Fail
    /\ UNCHANGED <<proxyVars, arrived, skip, got>>

-----------------------------------------------------------------------------
(* SOCKS5. *)

Byte(i) == script[pos + i]

\* io.ReadFull of n bytes.
Take(n) ==
    /\ arrived - pos >= n
    /\ pos' = pos + n

\* What the request needs: a name it can hold.
Request == Require(dial.host # "long", "reply")

\* The method the proxy chose, whether it was offered or not.
ReadGreeting ==
    /\ pc = "greeting"
    /\ Take(2)
    /\ IF Byte(1) = 5 /\ Byte(2) = 0 THEN Request
       ELSE Require(Byte(1) = 5 /\ Byte(2) = 2 /\ dial.creds # "long", "auth")
    /\ UNCHANGED <<proxyVars, arrived, skip, got>>

ReadAuth ==
    /\ pc = "auth"
    /\ Take(2)
    /\ IF Byte(2) = 0 THEN Request ELSE Fail
    /\ UNCHANGED <<proxyVars, arrived, skip, got>>

\* The code, and how long the bound address is: 4, 16 or as its first byte says.
ReadReply ==
    /\ pc = "reply"
    /\ Take(4)
    /\ Require(Byte(2) = 0 /\ Byte(4) \in {1, 3, 4}, IF Byte(4) = 3 THEN "length" ELSE "address")
    /\ skip' = CASE Byte(4) = 1 -> 4 [] Byte(4) = 4 -> 16 [] OTHER -> 0
    /\ UNCHANGED <<proxyVars, arrived, got>>

ReadLength ==
    /\ pc = "length"
    /\ Take(1)
    /\ skip' = Byte(1)
    /\ GoOn("address")
    /\ UNCHANGED <<proxyVars, arrived, got>>

ReadAddress ==
    /\ pc = "address"
    /\ Take(skip + 2)
    /\ Succeed(0)
    /\ UNCHANGED <<proxyVars, arrived, skip, got>>

-----------------------------------------------------------------------------
(* The proxy, the network and time; the tunnel's reader. *)

Arrive ==
    /\ conn = "open"
    /\ arrived < Len(script)
    /\ arrived' = arrived + 1
    /\ UNCHANGED <<proxyVars, pos, buffered, pc, skip, conn, deadline, got>>

\* What the step at pc waits for has arrived.
Enough ==
    CASE pc = "head" -> Malformed(arrived) \/ Ends(arrived)
      [] pc \in {"greeting", "auth"} -> arrived - pos >= 2
      [] pc = "reply" -> arrived - pos >= 4
      [] pc = "length" -> arrived > pos
      [] pc = "address" -> arrived - pos >= skip + 2
      [] OTHER -> TRUE

\* The proxy closes the connection and a read ends short.
EndOfStream ==
    /\ pc \in Handshake
    /\ closes /\ arrived = Len(script)
    /\ ~Enough
    /\ pos' = arrived
    /\ Fail
    /\ UNCHANGED <<proxyVars, arrived, skip, got>>

\* A read or a write fails.
Break ==
    /\ pc \in Handshake
    /\ Fail
    /\ UNCHANGED <<proxyVars, arrived, pos, skip, got>>

\* Variant: a read that meets the deadline is tried again.
ExpireIgnored ==
    /\ pc \in Handshake
    /\ deadline
    /\ UNCHANGED vars

\* The deadline passes before the handshake is over. Cancellation is not looked at.
Expire ==
    /\ pc \in Handshake
    /\ deadline
    /\ Fail
    /\ UNCHANGED <<proxyVars, arrived, pos, skip, got>>

\* The layer that dialed reads from what it was given: from the buffer while there is
\* something in it, then from the connection.
ReadTunnel ==
    /\ pc = "returned"
    /\ \/ buffered > 0 /\ buffered' = buffered - 1 /\ UNCHANGED pos
       \/ buffered = 0 /\ pos < arrived /\ pos' = pos + 1 /\ UNCHANGED buffered
    /\ got' = got + 1
    /\ UNCHANGED <<proxyVars, arrived, pc, skip, conn, deadline>>

Read == ReadHead \/ ReadGreeting \/ ReadAuth \/ ReadReply \/ ReadLength \/ ReadAddress

Ended == pc \in {"returned", "failed"}

Next ==
    \/ Dial \/ CannotDial \/ Read
    \/ Arrive \/ EndOfStream \/ Break \/ Expire
    \/ ReadTunnel
    \/ Ended /\ UNCHANGED vars

Spec == Init /\ [][Next]_vars

\* The dialer's own timeout bounds the dial, a deadline passes, a read returns when
\* there is something to return or the connection has ended. No proxy has to answer.
FairSpec ==
    /\ Spec
    /\ WF_vars(Dial \/ CannotDial)
    /\ WF_vars(Read)
    /\ WF_vars(Arrive)
    /\ WF_vars(EndOfStream)
    /\ WF_vars(Expire)

-----------------------------------------------------------------------------
(* The handshake a script holds, read off as a whole. *)

SocksAuth == script[2] = 2
ReplyAt == IF SocksAuth THEN 4 ELSE 2
AddressType == script[ReplyAt + 4]
AddressEnd ==
    CASE AddressType = 1 -> ReplyAt + 4 + 4
      [] AddressType = 4 -> ReplyAt + 4 + 16
      [] AddressType = 3 -> ReplyAt + 5 + script[ReplyAt + 5]

\* Where the tunnel's own bytes begin.
HandshakeEnd == IF dial.scheme = "http" THEN HeadEnd ELSE AddressEnd + 2

\* What the proxy has agreed to when the request is sent, and how it is asked.
Admitted ==
    /\ script[1] = 5 /\ script[2] \in {0, 2}
    /\ SocksAuth => script[4] = 0 /\ dial.creds # "long"
    /\ dial.host # "long"

Granted ==
    IF dial.scheme = "http" THEN script[1] = 200
    ELSE Admitted /\ script[ReplyAt + 2] = 0

-----------------------------------------------------------------------------
(* Properties. *)

TypeOK ==
    /\ dial \in Dials
    /\ script \in Scripts[dial.scheme]
    /\ closes \in BOOLEAN
    /\ arrived \in 0..Len(script)
    /\ pos \in 0..arrived
    /\ buffered \in 0..pos
    /\ pc \in Handshake \cup {"start", "returned", "failed"}
    /\ skip \in Nat
    /\ conn \in {"none", "open", "closed"}
    /\ deadline \in BOOLEAN
    /\ got \in Nat

\* Nothing is left behind and nothing is left on: a dial that failed has closed its
\* connection, one that succeeded hands over a connection whose deadline is lifted,
\* and in between the deadline is the context's.
Settled ==
    /\ pc = "start" => conn = "none"
    /\ pc = "failed" => conn # "open"
    /\ pc = "returned" => conn = "open" /\ ~deadline
    /\ pc \in Handshake => conn = "open" /\ deadline = dial.deadline

\* Only a reader of lines reads ahead.
NothingAhead == pc # "returned" \/ dial.scheme = "socks5" => buffered = 0

\* Each step of the handshake begins where the one before it ended: so much of the
\* script is read, and it was not a refusal.
HandshakeRead ==
    /\ pc = "start" => arrived = 0
    /\ pc \in Handshake \cup {"start"} => got = 0
    /\ pc = "head" => dial.scheme = "http"
    /\ pc \in Handshake \ {"head"} => dial.scheme = "socks5"
    /\ pc \in {"start", "head", "greeting"} => pos = 0
    /\ pc = "auth" => pos = 2 /\ script[1] = 5 /\ SocksAuth /\ dial.creds # "long"
    /\ pc = "reply" => pos = ReplyAt /\ Admitted
    /\ pc = "length" => pos = ReplyAt + 4 /\ Granted /\ AddressType = 3
    /\ pc = "address" => pos + skip = AddressEnd /\ Granted
    /\ pc = "returned" => HandshakeEnd \in 1..arrived

\* proxy.go:46-73: types, what becomes of the connection and its deadline, and the
\* buffer, and how far the handshake was read, whatever the proxy sends and whenever.
ProxyInv == TypeOK /\ Settled /\ NothingAhead /\ HandshakeRead

\* "The tunnel may already carry data from the far end" (proxy.go:61): a connection is
\* returned only if the proxy granted it, and the next byte read from it is always the
\* next of the tunnel: none of the handshake's is left over, none of the tunnel's lost.
TunnelIntact ==
    pc = "returned" =>
        /\ Granted
        /\ pos - buffered = HandshakeEnd + got

\* A dial with a deadline ends, however silent the proxy, and so does any dial to a
\* proxy that closes the connection. Without either nothing ends it.
DialEnds == (dial.deadline \/ closes) => <>Ended
=============================================================================
