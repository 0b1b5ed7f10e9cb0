---------------------------- MODULE ProxyProofs -----------------------------
(***************************************************************************)
(* Proofs about ProxyDial: whatever the proxy sends and however its bytes  *)
(* arrive, the connection, its deadline and its buffer are as they should  *)
(* be, and a connection that is returned is at the first byte of a tunnel  *)
(* the proxy granted.                                                      *)
(***************************************************************************)
EXTENDS ProxyDial, SequenceTheorems, WellFoundedInduction, TLAPS

LEMMA ScriptType ==
    ASSUME TypeOK
    PROVE  /\ dial.scheme \in Schemes /\ dial.deadline \in BOOLEAN
           /\ script \in Seq(Int)
           /\ dial.scheme = "socks5" => script \in Seq(0..255)
<1>1. dial.scheme \in Schemes /\ dial.deadline \in BOOLEAN
  BY ProxyAssumption DEF TypeOK
<1>2. CASE dial.scheme = "http"
  BY <1>1, <1>2, ProxyAssumption DEF TypeOK
<1>3. CASE dial.scheme = "socks5"
  <2>1. script \in Seq(0..255)
    BY <1>3, ProxyAssumption DEF TypeOK
  <2>2. script \in Seq(Int)
    BY <2>1, SeqMonotonic, 0..255 \subseteq Int
  <2>3. QED
    BY <1>1, <2>1, <2>2
<1>4. QED
  BY <1>1, <1>2, <1>3 DEF Schemes

\* The head ends at the first empty line, among the lines that have arrived.
LEMMA HeadEndFirst ==
    ASSUME TypeOK, NEW n \in 0..Len(script), Ends(n)
    PROVE  HeadEnd \in 1..n
<1> DEFINE Z == {i \in 1..n : script[i] = 0}
<1>1. Z \subseteq Nat /\ Z # {}
  BY DEF Ends
<1>2. PICK m \in Z : \A i \in Z : ~(<<i, m>> \in OpToRel(<, Nat))
  BY <1>1, WFMin, NatLessThanWellFounded
<1>3. \A i \in Z : ~(i < m)
  BY <1>1, <1>2 DEF OpToRel
<1>4. m \in 1..n /\ script[m] = 0 /\ \A j \in 1..m-1 : script[j] # 0
  BY <1>3
<1>5. Len(script) \in Nat
  BY ScriptType
<1>6. \E i \in 1..Len(script) : script[i] = 0 /\ \A j \in 1..i-1 : script[j] # 0
  BY <1>4, <1>5
<1>7. HeadEnd \in 1..Len(script) /\ \A j \in 1..HeadEnd-1 : script[j] # 0
  BY <1>6 DEF HeadEnd
<1>8. HeadEnd <= m
  BY <1>4, <1>5, <1>7
<1>9. QED
  BY <1>4, <1>5, <1>7, <1>8

-----------------------------------------------------------------------------
(* How far the script is read. *)

LEMMA Difference ==
    ASSUME NEW h \in Nat, NEW p \in Int, h <= p
    PROVE  p \in Nat /\ p - h \in 0..p
OBVIOUS

\* The positions stay in the script, in their order.
Positions ==
    /\ arrived \in 0..Len(script)
    /\ pos \in 0..arrived
    /\ buffered \in 0..pos
    /\ skip \in Nat
    /\ got \in Nat

LEMMA PositionsKept ==
    ASSUME TypeOK, NothingAhead, HandshakeRead, [Next]_vars
    PROVE  Positions'
<1>1. /\ script' = script
      /\ Len(script) \in Nat /\ arrived \in Nat /\ pos \in Nat /\ buffered \in Nat
      /\ arrived <= Len(script) /\ pos <= arrived /\ buffered <= pos
      /\ skip \in Nat /\ got \in Nat
  <2>1. script' = script
    BY DEF Next, Dial, CannotDial, Read, ReadHead, ReadGreeting, ReadAuth, ReadReply, ReadLength,
           ReadAddress, Arrive, EndOfStream, Break, Expire, ReadTunnel, vars, proxyVars
  <2>2. QED
    BY <2>1, ScriptType DEF TypeOK
<1> USE DEF Positions
<1>2. ASSUME Dial PROVE Positions'
  BY <1>1, <1>2 DEF Dial, proxyVars
<1>3. ASSUME CannotDial PROVE Positions'
  BY <1>1, <1>3 DEF CannotDial, proxyVars
<1>4. ASSUME ReadHead PROVE Positions'
  <2>1. CASE Malformed(arrived) /\ pos' = arrived /\ Fail
    <3>1. pc # "returned"
      BY <1>4 DEF ReadHead
    <3>2. buffered = 0
      BY <3>1 DEF NothingAhead
    <3>3. QED
      BY <1>1, <1>4, <2>1, <3>2 DEF ReadHead, Fail
  <2>2. CASE /\ ~Malformed(arrived) /\ Ends(arrived)
             /\ pos' \in HeadEnd..arrived
             /\ IF script[1] = 200 THEN Succeed(pos' - HeadEnd) ELSE Fail
    <3>1. HeadEnd \in 1..arrived
      BY <1>1, <2>2, HeadEndFirst
    <3>2. buffered' \in {buffered, pos' - HeadEnd} /\ buffered = 0
      <4>1. buffered = 0
        BY <1>4 DEF NothingAhead, ReadHead
      <4>2. QED
        BY <2>2, <4>1 DEF Succeed, Fail
    <3>3. arrived' = arrived /\ skip' = skip /\ got' = got
      BY <1>4 DEF ReadHead
    <3>4. pos' \in HeadEnd..arrived
      BY <2>2
    <3>5. pos' \in Nat /\ pos' <= arrived /\ pos' - HeadEnd \in 0..pos'
      <4>1. HeadEnd \in Nat
        BY <1>1, <3>1
      <4>2. pos' \in Int /\ HeadEnd <= pos' /\ pos' <= arrived
        BY <1>1, <3>4, <4>1
      <4>3. QED
        BY <4>1, <4>2, Difference
    <3>6. buffered' \in 0..pos'
      BY <1>1, <3>2, <3>5
    <3>7. QED
      BY <1>1, <3>3, <3>5, <3>6
  <2>3. QED
    BY <1>4, <2>1, <2>2 DEF ReadHead
<1>5. ASSUME ReadGreeting PROVE Positions'
  <2>1. buffered' = buffered
    BY <1>5 DEF ReadGreeting, Request, Require, GoOn, Fail
  <2>2. QED
    BY <1>1, <1>5, <2>1 DEF ReadGreeting, Take
<1>6. ASSUME ReadAuth PROVE Positions'
  <2>1. buffered' = buffered
    BY <1>6 DEF ReadAuth, Request, Require, GoOn, Fail
  <2>2. QED
    BY <1>1, <1>6, <2>1 DEF ReadAuth, Take
<1>7. ASSUME ReadReply PROVE Positions'
  <2>1. buffered' = buffered
    BY <1>7 DEF ReadReply, Require, GoOn, Fail
  <2>2. skip' \in Nat
    BY <1>7 DEF ReadReply
  <2>3. QED
    BY <1>1, <1>7, <2>1, <2>2 DEF ReadReply, Take
<1>8. ASSUME ReadLength PROVE Positions'
  <2>1. pos + 1 \in 1..Len(script) /\ script \in Seq(0..255)
    <3>1. dial.scheme = "socks5"
      BY <1>8 DEF ReadLength, HandshakeRead, Handshake
    <3>2. QED
      BY <1>1, <1>8, <3>1, ScriptType DEF ReadLength, Take
  <2>2. skip' \in Nat
    <3>1. script[pos + 1] \in 0..255
      BY <2>1, ElementOfSeq
    <3>2. skip' = script[pos + 1]
      BY <1>8 DEF ReadLength, Byte
    <3>3. QED
      BY <3>1, <3>2
  <2>3. QED
    BY <1>1, <1>8, <2>2 DEF ReadLength, Take, GoOn
<1>9. ASSUME ReadAddress PROVE Positions'
  BY <1>1, <1>9 DEF ReadAddress, Take, Succeed
<1>10. ASSUME Arrive PROVE Positions'
  BY <1>1, <1>10 DEF Arrive
<1>11. ASSUME EndOfStream PROVE Positions'
  <2>1. buffered = 0
    BY <1>11 DEF EndOfStream, NothingAhead, Handshake
  <2>2. QED
    BY <1>1, <1>11, <2>1 DEF EndOfStream, Fail
<1>12. ASSUME Break \/ Expire PROVE Positions'
  BY <1>1, <1>12 DEF Break, Expire, Fail
<1>13. ASSUME ReadTunnel PROVE Positions'
  BY <1>1, <1>13 DEF ReadTunnel
<1>14. ASSUME UNCHANGED vars PROVE Positions'
  BY <1>1, <1>14 DEF vars
<1>15. QED
  BY <1>2, <1>3, <1>4, <1>5, <1>6, <1>7, <1>8, <1>9, <1>10, <1>11, <1>12, <1>13, <1>14 DEF Next, Read

-----------------------------------------------------------------------------
(* What becomes of the connection. *)

Standing ==
    /\ pc \in Handshake \cup {"start", "returned", "failed"}
    /\ conn \in {"none", "open", "closed"}
    /\ deadline \in BOOLEAN
    /\ Settled
    /\ NothingAhead

\* During the handshake nothing is buffered and the deadline is the context's.
LEMMA Underway ==
    ASSUME TypeOK, Settled, NothingAhead, pc \in Handshake
    PROVE  /\ conn = "open" /\ buffered = 0 /\ deadline = dial.deadline
           /\ deadline \in BOOLEAN
<1>1. pc # "returned"
  BY DEF Handshake
<1>2. QED
  BY <1>1 DEF Settled, NothingAhead, TypeOK

LEMMA FailStands ==
    ASSUME TypeOK, Settled, NothingAhead, pc \in Handshake, Fail
    PROVE  Standing'
<1>1. pc' = "failed" /\ conn' = "closed" /\ buffered' = 0 /\ deadline' \in BOOLEAN
  BY Underway DEF Fail
<1>2. QED
  BY <1>1, Zenon DEF Standing, Settled, NothingAhead, Handshake

LEMMA GoOnStands ==
    ASSUME TypeOK, Settled, NothingAhead, pc \in Handshake, NEW next \in Handshake, GoOn(next),
           dial' = dial
    PROVE  Standing'
<1>1. pc' \in Handshake /\ conn' = "open" /\ buffered' = 0
  BY Underway DEF GoOn
<1>2. deadline' = dial.deadline /\ deadline' \in BOOLEAN
  BY Underway, Zenon DEF GoOn
<1>3. pc' \notin {"start", "returned", "failed"}
  BY <1>1 DEF Handshake
<1>4. deadline' = dial'.deadline
  BY <1>2, Zenon
<1>5. QED
  BY <1>1, <1>2, <1>3, <1>4, Zenon DEF Standing, Settled, NothingAhead

LEMMA SucceedStands ==
    ASSUME TypeOK, Settled, NothingAhead, pc \in Handshake, NEW n, Succeed(n),
           dial' = dial, dial.scheme = "socks5" => n = 0
    PROVE  Standing'
<1>1. pc' = "returned" /\ conn' = "open" /\ deadline' = FALSE /\ buffered' = n
  BY Underway DEF Succeed
<1>2. pc' # "returned" \/ dial'.scheme = "socks5" => buffered' = 0
  BY <1>1, Zenon
<1>3. QED
  BY <1>1, <1>2, Zenon DEF Standing, Settled, NothingAhead, Handshake

LEMMA RequireStands ==
    ASSUME TypeOK, Settled, NothingAhead, pc \in Handshake, NEW next \in Handshake, NEW sound,
           Require(sound, next), dial' = dial
    PROVE  Standing'
<1>1. GoOn(next) \/ Fail
  BY Zenon DEF Require
<1>2. QED
  BY <1>1, GoOnStands, FailStands

LEMMA StandingKept ==
    ASSUME TypeOK, Settled, NothingAhead, HandshakeRead, [Next]_vars
    PROVE  Standing'
<1>1. dial' = dial
  BY DEF Next, Dial, CannotDial, Read, ReadHead, ReadGreeting, ReadAuth, ReadReply, ReadLength,
         ReadAddress, Arrive, EndOfStream, Break, Expire, ReadTunnel, vars, proxyVars
<1>2. ASSUME Dial PROVE Standing'
  <2>1. pc' \in {"head", "greeting"} /\ conn' = "open" /\ buffered' = 0
    BY <1>2 DEF Dial, NothingAhead
  <2>2. deadline' = dial'.deadline /\ deadline' \in BOOLEAN
    <3>1. deadline' = dial.deadline
      BY <1>2 DEF Dial
    <3>2. QED
      BY <1>1, <3>1, ScriptType, Zenon
  <2>3. QED
    BY <2>1, <2>2, Zenon DEF Standing, Settled, NothingAhead, Handshake
<1>3. ASSUME CannotDial PROVE Standing'
  <2>1. pc' = "failed" /\ conn' = "none" /\ buffered' = 0 /\ deadline' \in BOOLEAN
    BY <1>3 DEF CannotDial, Settled, NothingAhead, TypeOK
  <2>2. QED
    BY <2>1, Zenon DEF Standing, Settled, NothingAhead, Handshake
<1>4. ASSUME ReadHead PROVE Standing'
  <2>1. pc \in Handshake /\ dial.scheme # "socks5"
    BY <1>4 DEF ReadHead, Handshake, HandshakeRead
  <2>2. Succeed(pos' - HeadEnd) \/ Fail
    BY <1>4, Zenon DEF ReadHead
  <2>3. QED
    BY <1>1, <2>1, <2>2, SucceedStands, FailStands
<1>5. ASSUME ReadGreeting PROVE Standing'
  <2>1. pc \in Handshake /\ "reply" \in Handshake /\ "auth" \in Handshake
    BY <1>5 DEF ReadGreeting, Handshake
  <2>2. Request \/ \E sound : Require(sound, "auth")
    BY <1>5, Zenon DEF ReadGreeting
  <2>3. QED
    BY <1>1, <2>1, <2>2, RequireStands DEF Request
<1>6. ASSUME ReadAuth PROVE Standing'
  <2>1. pc \in Handshake /\ "reply" \in Handshake
    BY <1>6 DEF ReadAuth, Handshake
  <2>2. Request \/ Fail
    BY <1>6, Zenon DEF ReadAuth
  <2>3. QED
    BY <1>1, <2>1, <2>2, RequireStands, FailStands DEF Request
<1>7. ASSUME ReadReply PROVE Standing'
  <2>1. pc \in Handshake /\ "length" \in Handshake /\ "address" \in Handshake
    BY <1>7 DEF ReadReply, Handshake
  <2>2. \E sound : Require(sound, "length") \/ Require(sound, "address")
    BY <1>7, Zenon DEF ReadReply
  <2>3. QED
    BY <1>1, <2>1, <2>2, RequireStands
<1>8. ASSUME ReadLength PROVE Standing'
  BY <1>1, <1>8, GoOnStands DEF ReadLength, Handshake
<1>9. ASSUME ReadAddress PROVE Standing'
  BY <1>1, <1>9, SucceedStands DEF ReadAddress, Handshake
<1>10. ASSUME EndOfStream \/ Break \/ Expire PROVE Standing'
  BY <1>10, FailStands DEF EndOfStream, Break, Expire
<1>11. ASSUME \/ Arrive /\ UNCHANGED buffered
              \/ UNCHANGED vars
       PROVE  Standing'
  <2>1. UNCHANGED <<pc, conn, deadline, buffered>>
    BY <1>11 DEF Arrive, vars
  <2>2. QED
    BY <1>1, <2>1, Zenon DEF Standing, TypeOK, Settled, NothingAhead
<1>12. ASSUME ReadTunnel PROVE Standing'
  <2>1. UNCHANGED <<pc, conn, deadline>> /\ pc = "returned"
    BY <1>12 DEF ReadTunnel
  <2>2. dial.scheme = "socks5" => buffered' = 0
    <3>1. dial.scheme = "socks5" => buffered = 0
      BY DEF NothingAhead
    <3>2. QED
      BY <1>12, <3>1 DEF ReadTunnel
  <2>3. NothingAhead'
    BY <1>1, <2>1, <2>2, Zenon DEF NothingAhead
  <2>4. QED
    BY <1>1, <2>1, <2>3, Zenon DEF Standing, TypeOK, Settled
<1>13. QED
  BY <1>2, <1>3, <1>4, <1>5, <1>6, <1>7, <1>8, <1>9, <1>10, <1>11, <1>12 DEF Next, Read, Arrive

-----------------------------------------------------------------------------
(* What was read of the handshake. *)

\* The script and what it holds are the proxy's, and do not change.
LEMMA ScriptStays ==
    ASSUME [Next]_vars
    PROVE  /\ dial' = dial /\ script' = script
           /\ ReplyAt' = ReplyAt /\ AddressType' = AddressType /\ AddressEnd' = AddressEnd
           /\ HandshakeEnd' = HandshakeEnd
           /\ (SocksAuth' <=> SocksAuth) /\ (Admitted' <=> Admitted) /\ (Granted' <=> Granted)
<1>1. dial' = dial /\ script' = script
  BY DEF Next, Dial, CannotDial, Read, ReadHead, ReadGreeting, ReadAuth, ReadReply, ReadLength,
         ReadAddress, Arrive, EndOfStream, Break, Expire, ReadTunnel, vars, proxyVars
<1>2. (SocksAuth' <=> SocksAuth) /\ ReplyAt' = ReplyAt
  BY <1>1, Zenon DEF SocksAuth, ReplyAt
<1>3. AddressType' = AddressType
  BY <1>1, <1>2, Zenon DEF AddressType
<1>4. AddressEnd' = AddressEnd
  BY <1>1, <1>2, <1>3 DEF AddressEnd
<1>5. HeadEnd' = HeadEnd
  BY <1>1 DEF HeadEnd
<1>6. HandshakeEnd' = HandshakeEnd
  BY <1>1, <1>4, <1>5 DEF HandshakeEnd
<1>7. Admitted' <=> Admitted
  BY <1>1, <1>2, Zenon DEF Admitted
<1>8. Granted' <=> Granted
  BY <1>1, <1>2, <1>7, Zenon DEF Granted
<1>9. QED
  BY <1>1, <1>2, <1>3, <1>4, <1>6, <1>7, <1>8

LEMMA Remainder ==
    ASSUME NEW h \in Int, NEW p \in Int
    PROVE  p - (p - h) = h
OBVIOUS

ReadSoFar == HandshakeRead /\ TunnelIntact

LEMMA FailRead ==
    ASSUME Fail
    PROVE  ReadSoFar'
BY DEF Fail, ReadSoFar, HandshakeRead, TunnelIntact, Handshake

LEMMA RequestRead ==
    ASSUME Request, [Next]_vars, dial.scheme = "socks5", got' = 0, pos' = ReplyAt,
           dial.host # "long" => Admitted
    PROVE  ReadSoFar'
<1>1. CASE dial.host # "long" /\ GoOn("reply")
  <2>1. pc' = "reply" /\ dial'.scheme = "socks5" /\ Admitted' /\ pos' = ReplyAt'
    BY <1>1, ScriptStays DEF GoOn
  <2>2. QED
    BY <2>1 DEF ReadSoFar, HandshakeRead, TunnelIntact
<1>2. CASE Fail
  BY <1>2, FailRead
<1>3. QED
  BY <1>1, <1>2, Zenon DEF Request, Require

LEMMA ReadKept ==
    ASSUME TypeOK, Settled, NothingAhead, ReadSoFar, [Next]_vars
    PROVE  ReadSoFar'
<1>1. /\ arrived \in Nat /\ pos \in Nat /\ buffered \in Nat /\ skip \in Nat /\ got \in Nat
      /\ dial.scheme \in Schemes
  BY ScriptType DEF TypeOK
<1>2. ASSUME Dial PROVE ReadSoFar'
  <2>1. got' = 0 /\ pos' = 0
    BY <1>2 DEF Dial, ReadSoFar, HandshakeRead, Handshake
  <2>2. \/ pc' = "head" /\ dial'.scheme = "http"
        \/ pc' = "greeting" /\ dial'.scheme = "socks5"
    BY <1>1, <1>2, ScriptStays DEF Dial, Schemes
  <2>3. QED
    BY <2>1, <2>2 DEF ReadSoFar, HandshakeRead, TunnelIntact
<1>3. ASSUME CannotDial PROVE ReadSoFar'
  BY <1>3 DEF CannotDial, ReadSoFar, HandshakeRead, TunnelIntact, Handshake
<1>4. ASSUME ReadHead PROVE ReadSoFar'
  <2>1. dial.scheme = "http" /\ got' = 0
    BY <1>4 DEF ReadHead, ReadSoFar, HandshakeRead, Handshake
  <2>2. CASE /\ ~Malformed(arrived) /\ Ends(arrived)
             /\ pos' \in HeadEnd..arrived
             /\ script[1] = 200 /\ Succeed(pos' - HeadEnd)
    <3>1. HeadEnd \in 1..arrived
      <4>1. arrived \in 0..Len(script)
        BY DEF TypeOK
      <4>2. QED
        BY <2>2, <4>1, HeadEndFirst
    <3>2. HeadEnd \in Int /\ pos' \in Int
      BY <1>1, <2>2, <3>1
    <3>3. pc' = "returned" /\ buffered' = pos' - HeadEnd
      BY <2>2 DEF Succeed
    <3>4. HandshakeEnd' = HeadEnd
      BY <2>1, ScriptStays DEF HandshakeEnd
    <3>5. Granted'
      BY <2>1, <2>2, ScriptStays DEF Granted
    <3>6. pos' - buffered' = HeadEnd
      BY <3>2, <3>3, Remainder
    <3>7. arrived' = arrived /\ got' = 0 /\ HeadEnd + 0 = HeadEnd
      BY <1>4, <2>1, <3>2 DEF ReadHead
    <3>8. HandshakeEnd' \in 1..arrived' /\ pos' - buffered' = HandshakeEnd' + got'
      BY <3>1, <3>4, <3>6, <3>7, Zenon
    <3>9. QED
      BY <3>3, <3>5, <3>8 DEF ReadSoFar, HandshakeRead, TunnelIntact, Handshake
  <2>3. CASE Fail
    BY <2>3, FailRead
  <2>4. QED
    BY <1>4, <2>2, <2>3, Zenon DEF ReadHead
<1>5. ASSUME ReadGreeting PROVE ReadSoFar'
  <2>1. /\ dial.scheme = "socks5" /\ pos = 0 /\ got' = 0 /\ pos' = 2
        /\ Byte(1) = script[1] /\ Byte(2) = script[2]
    BY <1>5 DEF ReadGreeting, ReadSoFar, HandshakeRead, Handshake, Take, Byte
  <2>2. CASE Byte(1) = 5 /\ Byte(2) = 0 /\ Request
    <3>1. ReplyAt = 2 /\ ~SocksAuth
      BY <2>1, <2>2 DEF ReplyAt, SocksAuth
    <3>2. dial.host # "long" => Admitted
      BY <2>1, <2>2, <3>1 DEF Admitted
    <3>3. QED
      BY <2>1, <2>2, <3>1, <3>2, RequestRead
  <2>3. CASE Byte(1) = 5 /\ Byte(2) = 2 /\ dial.creds # "long" /\ GoOn("auth")
    <3>1. /\ pc' = "auth" /\ dial'.scheme = "socks5" /\ dial'.creds # "long"
          /\ script'[1] = 5 /\ SocksAuth'
      BY <2>1, <2>3, ScriptStays DEF GoOn, SocksAuth
    <3>2. QED
      BY <2>1, <3>1 DEF ReadSoFar, HandshakeRead, TunnelIntact
  <2>4. CASE Fail
    BY <2>4, FailRead
  <2>5. QED
    BY <1>5, <2>2, <2>3, <2>4, Zenon DEF ReadGreeting, Require
<1>6. ASSUME ReadAuth PROVE ReadSoFar'
  <2>1. /\ dial.scheme = "socks5" /\ pos = 2 /\ got' = 0 /\ pos' = 4
        /\ script[1] = 5 /\ SocksAuth /\ dial.creds # "long" /\ Byte(2) = script[4]
    BY <1>6 DEF ReadAuth, ReadSoFar, HandshakeRead, Handshake, Take, Byte
  <2>2. CASE Byte(2) = 0 /\ Request
    <3>1. ReplyAt = 4
      BY <2>1 DEF ReplyAt
    <3>2. dial.host # "long" => Admitted
      BY <2>1, <2>2 DEF Admitted, SocksAuth
    <3>3. QED
      BY <2>1, <2>2, <3>1, <3>2, RequestRead
  <2>3. CASE Fail
    BY <2>3, FailRead
  <2>4. QED
    BY <1>6, <2>2, <2>3, Zenon DEF ReadAuth
<1>7. ASSUME ReadReply PROVE ReadSoFar'
  <2>1. /\ dial.scheme = "socks5" /\ got' = 0 /\ pos = ReplyAt /\ Admitted
        /\ pos' = ReplyAt + 4
        /\ Byte(2) = script[ReplyAt + 2] /\ Byte(4) = AddressType
    BY <1>7 DEF ReadReply, ReadSoFar, HandshakeRead, Handshake, Take, Byte, AddressType
  <2>2. CASE Byte(2) = 0 /\ Byte(4) = 3 /\ GoOn("length")
    <3>1. Granted
      BY <2>1, <2>2 DEF Granted
    <3>2. /\ pc' = "length" /\ dial'.scheme = "socks5" /\ Granted' /\ AddressType' = 3
          /\ pos' = ReplyAt' + 4
      BY <2>1, <2>2, <3>1, ScriptStays DEF GoOn
    <3>3. QED
      BY <2>1, <3>2 DEF ReadSoFar, HandshakeRead, TunnelIntact
  <2>3. CASE Byte(2) = 0 /\ Byte(4) \in {1, 4} /\ GoOn("address")
    <3>1. Granted
      BY <2>1, <2>3 DEF Granted
    <3>2. pos' + skip' = AddressEnd
      BY <1>1, <1>7, <2>1, <2>3 DEF ReadReply, AddressEnd
    <3>3. /\ pc' = "address" /\ dial'.scheme = "socks5" /\ Granted'
          /\ pos' + skip' = AddressEnd'
      BY <2>1, <2>3, <3>1, <3>2, ScriptStays DEF GoOn
    <3>4. QED
      BY <2>1, <3>3 DEF ReadSoFar, HandshakeRead, TunnelIntact
  <2>4. CASE Fail
    BY <2>4, FailRead
  <2>5. QED
    BY <1>7, <2>2, <2>3, <2>4, Zenon DEF ReadReply, Require
<1>8. ASSUME ReadLength PROVE ReadSoFar'
  <2>1. /\ dial.scheme = "socks5" /\ got' = 0 /\ pos = ReplyAt + 4 /\ Granted
        /\ AddressType = 3 /\ pos' = pos + 1 /\ skip' = script[pos + 1] /\ pc' = "address"
    BY <1>8 DEF ReadLength, ReadSoFar, HandshakeRead, Handshake, Take, Byte, GoOn
  <2>2. ReplyAt \in {2, 4}
    BY DEF ReplyAt
  <2>3. AddressEnd = ReplyAt + 5 + script[ReplyAt + 5]
    BY <2>1 DEF AddressEnd
  <2>4. pos' + skip' = AddressEnd
    BY <2>1, <2>2, <2>3
  <2>5. dial'.scheme = "socks5" /\ Granted' /\ pos' + skip' = AddressEnd'
    BY <2>1, <2>4, ScriptStays
  <2>6. QED
    BY <2>1, <2>5 DEF ReadSoFar, HandshakeRead, TunnelIntact
<1>9. ASSUME ReadAddress PROVE ReadSoFar'
  <2>1. /\ dial.scheme = "socks5" /\ got' = 0 /\ pos + skip = AddressEnd /\ Granted
        /\ pos' = pos + (skip + 2) /\ pc' = "returned" /\ buffered' = 0
    BY <1>9 DEF ReadAddress, ReadSoFar, HandshakeRead, Handshake, Take, Succeed
  <2>2. HandshakeEnd = AddressEnd + 2
    BY <2>1 DEF HandshakeEnd
  <2>3. pos' - buffered' = HandshakeEnd + got'
    BY <1>1, <2>1, <2>2
  <2>4. pos' >= 1 /\ pos' <= arrived' /\ HandshakeEnd \in 1..arrived'
    <3>1. arrived' = arrived /\ arrived - pos >= skip + 2
      BY <1>9 DEF ReadAddress, Take
    <3>2. pos' = HandshakeEnd
      BY <1>1, <2>1, <2>2
    <3>3. QED
      BY <1>1, <2>1, <3>1, <3>2
  <2>5. /\ Granted' /\ pos' - buffered' = HandshakeEnd' + got'
        /\ HandshakeEnd' \in 1..arrived'
    BY <2>1, <2>3, <2>4, ScriptStays
  <2>6. QED
    BY <2>1, <2>5 DEF ReadSoFar, HandshakeRead, TunnelIntact, Handshake
<1>10. ASSUME EndOfStream \/ Break \/ Expire PROVE ReadSoFar'
  BY <1>10, FailRead DEF EndOfStream, Break, Expire
<1>11. ASSUME Arrive \/ UNCHANGED vars PROVE ReadSoFar'
  <2>1. UNCHANGED <<pc, pos, skip, got, buffered>>
    BY <1>11 DEF Arrive, vars
  <2>2. pc = "start" => arrived' = arrived
    BY <1>11 DEF Arrive, Settled, vars
  <2>3. pc = "returned" => HandshakeEnd' \in 1..arrived'
    <3>1. arrived' \in {arrived, arrived + 1}
      BY <1>11 DEF Arrive, vars
    <3>2. pc = "returned" => HandshakeEnd \in 1..arrived
      BY DEF ReadSoFar, HandshakeRead
    <3>3. QED
      BY <1>1, <3>1, <3>2, ScriptStays
  <2>4. HandshakeRead'
    BY <2>1, <2>2, <2>3, ScriptStays DEF ReadSoFar, HandshakeRead
  <2>5. TunnelIntact'
    BY <2>1, ScriptStays DEF ReadSoFar, TunnelIntact
  <2>6. QED
    BY <2>4, <2>5 DEF ReadSoFar
<1>12. ASSUME ReadTunnel PROVE ReadSoFar'
  <2>1. pc = "returned" /\ pc' = "returned" /\ got' = got + 1
    BY <1>12 DEF ReadTunnel
  <2>2. Granted /\ pos - buffered = HandshakeEnd + got
    BY <2>1 DEF ReadSoFar, TunnelIntact
  <2>3. pos' - buffered' = (pos - buffered) + 1
    BY <1>1, <1>12 DEF ReadTunnel
  <2>4. HandshakeEnd \in 1..arrived /\ arrived' = arrived
    BY <1>12, <2>1 DEF ReadTunnel, ReadSoFar, HandshakeRead
  <2>5. /\ Granted' /\ HandshakeEnd' \in 1..arrived'
        /\ pos' - buffered' = HandshakeEnd' + got'
    BY <1>1, <2>1, <2>2, <2>3, <2>4, ScriptStays
  <2>6. QED
    BY <2>1, <2>5 DEF ReadSoFar, HandshakeRead, TunnelIntact, Handshake
<1>13. QED
  BY <1>2, <1>3, <1>4, <1>5, <1>6, <1>7, <1>8, <1>9, <1>10, <1>11, <1>12 DEF Next, Read

-----------------------------------------------------------------------------
(* The theorems. *)

Ordered == ProxyInv /\ TunnelIntact

LEMMA OrderedAtFirst == Init => Ordered
<1> SUFFICES ASSUME Init PROVE Ordered
  OBVIOUS
<1>1. dial.scheme \in Schemes
  BY ProxyAssumption DEF Init
<1>2. script \in Seq(Int) \/ script \in Seq(0..255)
  BY <1>1, ProxyAssumption DEF Init, Schemes
<1>3. Len(script) \in Nat
  BY <1>2
<1>4. TypeOK
  <2>1. Positions
    BY <1>3 DEF Init, Positions
  <2>2. QED
    BY <2>1, Zenon DEF Init, TypeOK, Positions
<1>5. Settled /\ NothingAhead
  BY DEF Init, Settled, NothingAhead, Handshake
<1>6. HandshakeRead /\ TunnelIntact
  BY DEF Init, HandshakeRead, TunnelIntact, Handshake
<1>7. QED
  BY <1>4, <1>5, <1>6 DEF Ordered, ProxyInv

LEMMA OrderedStep == Ordered /\ [Next]_vars => Ordered'
<1> SUFFICES ASSUME Ordered, [Next]_vars PROVE Ordered'
  OBVIOUS
<1>1. TypeOK /\ Settled /\ NothingAhead /\ HandshakeRead /\ ReadSoFar
  BY DEF Ordered, ProxyInv, ReadSoFar
<1>2. dial' = dial /\ script' = script
  BY ScriptStays
<1>3. closes' = closes
  BY DEF Next, Dial, CannotDial, Read, ReadHead, ReadGreeting, ReadAuth, ReadReply, ReadLength,
         ReadAddress, Arrive, EndOfStream, Break, Expire, ReadTunnel, vars, proxyVars
<1>4. Positions' /\ Standing' /\ ReadSoFar'
  BY <1>1, PositionsKept, StandingKept, ReadKept
<1>5. TypeOK'
  BY <1>1, <1>2, <1>3, <1>4 DEF TypeOK, Positions, Standing
<1>6. QED
  BY <1>4, <1>5 DEF Ordered, ProxyInv, ReadSoFar, Standing

\* proxy.go:46-73: whatever the proxy sends and whenever, a dial that fails has closed
\* its connection, one that succeeds hands it over with the deadline lifted, only the
\* reader of lines leaves bytes in the buffer, and each read of the handshake begins
\* where the one before it ended.
THEOREM ConnectionInOrder == Spec => []ProxyInv
<1>1. Ordered => ProxyInv
  BY DEF Ordered
<1>2. QED
  BY <1>1, OrderedAtFirst, OrderedStep, PTL DEF Spec

\* "The tunnel may already carry data from the far end" (proxy.go:61): for every script
\* a proxy may send, a connection that is returned was granted, and what is read from
\* it is the tunnel from its first byte on, with none lost and none of the handshake's.
THEOREM TunnelFromItsStart == Spec => []TunnelIntact
<1>1. Ordered => TunnelIntact
  BY DEF Ordered
<1>2. QED
  BY <1>1, OrderedAtFirst, OrderedStep, PTL DEF Spec

-----------------------------------------------------------------------------
(* That a dial ends. *)

\* Before the dial, in the handshake, and behind it.
StagesLeft == CASE pc = "start" -> 2 [] pc \in Handshake -> 1 [] OTHER -> 0

\* The steps a dial and its tunnel have before them, at most: the stages, the bytes that
\* have not arrived, and those that have not been handed out.
DialLeft == StagesLeft + (Len(script) - arrived) + (Len(script) - (pos - buffered))

\* A step that takes no stage back is one less, if a byte arrives, is handed out or a
\* stage is over.
LEMMA OneLess ==
    ASSUME TypeOK, Positions', script' = script,
           StagesLeft' <= StagesLeft, arrived <= arrived', pos - buffered <= pos' - buffered',
           \/ StagesLeft' < StagesLeft
           \/ arrived < arrived'
           \/ pos - buffered < pos' - buffered'
    PROVE  DialLeft' < DialLeft
<1>1. /\ Len(script) \in Nat /\ arrived \in Nat /\ pos \in Nat /\ buffered \in Nat
      /\ arrived' \in Nat /\ pos' \in Nat /\ buffered' \in Nat
  BY ScriptType DEF TypeOK, Positions
<1>2. StagesLeft \in Nat /\ StagesLeft' \in Nat
  BY DEF StagesLeft
<1>3. DialLeft' = StagesLeft' + (Len(script) - arrived') + (Len(script) - (pos' - buffered'))
  BY DEF DialLeft
<1>4. DialLeft = StagesLeft + (Len(script) - arrived) + (Len(script) - (pos - buffered))
  BY DEF DialLeft
<1>5. \A s, t, a, b, n \in Nat, u, v \in Int :
        t <= s /\ a <= b /\ u <= v /\ (t < s \/ a < b \/ u < v)
          => t + (n - b) + (n - v) < s + (n - a) + (n - u)
  OBVIOUS
<1>6. pos - buffered \in Int /\ pos' - buffered' \in Int
  BY <1>1
<1>7. QED
  BY <1>1, <1>2, <1>3, <1>4, <1>5, <1>6, Zenon

LEMMA DialLeftIs ==
    ASSUME TypeOK
    PROVE  DialLeft \in Nat
<1>1. /\ Len(script) \in Nat /\ arrived \in 0..Len(script) /\ pos \in 0..arrived
      /\ buffered \in 0..pos /\ StagesLeft \in Nat
  BY ScriptType DEF TypeOK, StagesLeft
<1>2. Len(script) - arrived \in Nat /\ Len(script) - (pos - buffered) \in Nat
  BY <1>1
<1>3. QED
  BY <1>1, <1>2 DEF DialLeft

\* A handshake that is over has a stage less, and takes no byte back.
LEMMA HandshakeOver ==
    ASSUME Ordered, [Next]_vars, pc \in Handshake, pc' \in {"returned", "failed"}, arrived' = arrived,
           pos - buffered <= pos' - buffered'
    PROVE  DialLeft' < DialLeft
<1>1. TypeOK /\ Positions' /\ script' = script
  BY OrderedStep, ScriptStays DEF Ordered, ProxyInv, TypeOK, Positions
<1>2. arrived <= arrived'
  BY <1>1 DEF TypeOK, Positions
<1>3. StagesLeft = 1 /\ StagesLeft' = 0
  BY DEF StagesLeft, Handshake
<1>4. QED
  BY <1>1, <1>2, <1>3, OneLess

\* Each read of the handshake takes at least a byte, and none of the tunnel's with it.
LEMMA BytesTaken ==
    ASSUME Ordered, [Next]_vars, pc \in Handshake, pc' # "start", arrived' = arrived,
           buffered' = 0, pos < pos'
    PROVE  DialLeft' < DialLeft
<1>1. TypeOK /\ Positions' /\ script' = script
  BY OrderedStep, ScriptStays DEF Ordered, ProxyInv, TypeOK, Positions
<1>2. buffered = 0
  BY Underway DEF Ordered, ProxyInv
<1>3. pos \in Nat /\ pos' \in Nat /\ arrived <= arrived'
  BY <1>1 DEF TypeOK, Positions
<1>4. pos - buffered < pos' - buffered' /\ pos - buffered <= pos' - buffered'
  <2>1. pos - buffered = pos /\ pos' - buffered' = pos'
    <3>1. \A n \in Nat : n - 0 = n
      OBVIOUS
    <3>2. QED
      BY <1>2, <1>3, <3>1, Zenon
  <2>2. pos < pos' /\ pos <= pos'
    BY <1>3
  <2>3. QED
    BY <2>1, <2>2, Zenon
<1>5. StagesLeft' <= StagesLeft
  <2>1. StagesLeft = 1
    BY DEF StagesLeft, Handshake
  <2>2. StagesLeft' \in {0, 1}
    BY DEF StagesLeft
  <2>3. QED
    BY <2>1, <2>2
<1>6. QED
  BY <1>1, <1>3, <1>4, <1>5, OneLess

LEMMA DialFalls ==
    ASSUME Ordered, Next, vars' # vars
    PROVE  DialLeft' < DialLeft
<1>1. TypeOK /\ Settled /\ NothingAhead /\ HandshakeRead
  BY DEF Ordered, ProxyInv
<1>2. TypeOK' /\ Positions' /\ script' = script
  BY OrderedStep, ScriptStays DEF Ordered, ProxyInv, TypeOK, Positions
<1>3. /\ Len(script) \in Nat /\ arrived \in Nat /\ pos \in Nat /\ buffered \in Nat /\ skip \in Nat
      /\ pos <= arrived /\ buffered <= pos /\ pos - buffered \in Int
  BY <1>1, ScriptType DEF TypeOK
<1>4. arrived <= arrived /\ pos - buffered <= pos - buffered
  BY <1>3
<1>5. CASE Dial \/ CannotDial
  <2>1. pc = "start" /\ pc' \in {"head", "greeting", "failed"}
        /\ arrived' = arrived /\ pos' = pos /\ buffered' = buffered
    BY <1>5 DEF Dial, CannotDial
  <2>2. StagesLeft = 2 /\ StagesLeft' \in {0, 1} /\ StagesLeft' <= StagesLeft
    BY <2>1 DEF StagesLeft, Handshake
  <2>3. pos - buffered <= pos' - buffered' /\ arrived <= arrived'
    BY <1>4, <2>1, Zenon
  <2>4. QED
    BY <1>1, <1>2, <2>1, <2>2, <2>3, OneLess
<1>6. CASE ReadHead
  <2>1. pc \in Handshake /\ pc # "returned" /\ buffered = 0 /\ pos = 0 /\ arrived' = arrived
    BY <1>1, <1>6 DEF ReadHead, Handshake, NothingAhead, HandshakeRead
  <2>2. pc' \in {"returned", "failed"}
    BY <1>6, Zenon DEF ReadHead, Succeed, Fail
  <2>3. pos - buffered <= pos' - buffered'
    <3>1. buffered' \in 0..pos' /\ pos' \in Nat
      BY <1>2 DEF Positions
    <3>2. \A n \in Nat : \A b \in 0..n : 0 - 0 <= n - b
      OBVIOUS
    <3>3. QED
      BY <2>1, <3>1, <3>2, Zenon
  <2>4. QED
    BY <2>1, <2>2, <2>3, HandshakeOver
<1>7. CASE ReadGreeting \/ ReadAuth \/ ReadReply \/ ReadLength \/ ReadAddress
  <2>1. pc \in Handshake /\ arrived' = arrived
    BY <1>7 DEF ReadGreeting, ReadAuth, ReadReply, ReadLength, ReadAddress, Handshake
  <2>2. buffered = 0
    BY <1>1, <2>1, Underway
  <2>3. buffered' = 0 /\ pc' # "start"
    BY <1>7, <2>1, <2>2
       DEF ReadGreeting, ReadAuth, ReadReply, ReadLength, ReadAddress, Request, Require, GoOn, Fail, Succeed
  <2>4. pos < pos'
    BY <1>3, <1>7 DEF ReadGreeting, ReadAuth, ReadReply, ReadLength, ReadAddress, Take
  <2>5. QED
    BY <2>1, <2>3, <2>4, BytesTaken
<1>8. CASE Arrive
  <2>1. arrived' = arrived + 1 /\ pos' = pos /\ buffered' = buffered /\ pc' = pc
    BY <1>8 DEF Arrive
  <2>2. StagesLeft' = StagesLeft /\ StagesLeft \in Nat
    BY <2>1 DEF StagesLeft
  <2>3. arrived < arrived' /\ arrived <= arrived' /\ StagesLeft' <= StagesLeft
    BY <1>3, <2>1, <2>2
  <2>4. pos - buffered <= pos' - buffered'
    BY <1>4, <2>1, Zenon
  <2>5. QED
    BY <1>1, <1>2, <2>3, <2>4, OneLess
<1>9. CASE EndOfStream \/ Break \/ Expire
  <2>1. pc \in Handshake /\ pc' = "failed" /\ arrived' = arrived /\ buffered' = buffered
        /\ pos' \in {pos, arrived}
    BY <1>9 DEF EndOfStream, Break, Expire, Fail
  <2>2. pos <= pos' /\ pos' \in Nat
    BY <1>3, <2>1
  <2>3. pos - buffered <= pos' - buffered'
    <3>1. \A m, n, b \in Nat : m <= n => m - b <= n - b
      OBVIOUS
    <3>2. QED
      BY <1>3, <2>1, <2>2, <3>1, Zenon
  <2>4. QED
    BY <2>1, <2>3, HandshakeOver
<1>10. CASE ReadTunnel
  <2>1. arrived' = arrived /\ pc' = pc
    BY <1>10 DEF ReadTunnel
  <2>2. StagesLeft' = StagesLeft /\ StagesLeft \in Nat
    BY <2>1 DEF StagesLeft
  <2>3. arrived <= arrived' /\ StagesLeft' <= StagesLeft
    BY <1>4, <2>1, <2>2
  <2>4. pos - buffered < pos' - buffered' /\ pos - buffered <= pos' - buffered'
    <3>1. \/ buffered' = buffered - 1 /\ pos' = pos
          \/ buffered' = buffered /\ pos' = pos + 1
      BY <1>10 DEF ReadTunnel
    <3>2. \A n, b \in Nat : n - b < n - (b - 1) /\ n - b <= n - (b - 1)
                            /\ n - b < (n + 1) - b /\ n - b <= (n + 1) - b
      OBVIOUS
    <3>3. QED
      BY <1>3, <3>1, <3>2, Zenon
  <2>5. QED
    BY <1>1, <1>2, <2>3, <2>4, OneLess
<1>11. QED
  BY <1>5, <1>6, <1>7, <1>8, <1>9, <1>10 DEF Next, Read

\* proxy.go:46-73: a dial and the reading of its tunnel are at most 2 + 2 * Len(script)
\* steps, whatever the proxy sends: no byte is read twice, and no answer brings the
\* handshake back to where it was. This is what DialEnds rests on; that the steps are
\* taken is fairness.
THEOREM DialIsBounded ==
    Spec => /\ DialLeft = 2 + 2 * Len(script)
            /\ [](DialLeft \in Nat)
            /\ [][DialLeft' < DialLeft]_vars
<1>1. Ordered => DialLeft \in Nat
  BY DialLeftIs DEF Ordered, ProxyInv
<1>2. Ordered /\ [Next]_vars => [DialLeft' < DialLeft]_vars
  BY DialFalls
<1>3. Init => DialLeft = 2 + 2 * Len(script)
  <2>1. ASSUME Init PROVE Len(script) \in Nat /\ StagesLeft = 2 /\ arrived = 0 /\ pos = 0 /\ buffered = 0
    <3>1. TypeOK
      BY <2>1, OrderedAtFirst DEF Ordered, ProxyInv
    <3>2. Len(script) \in Nat
      BY <3>1, ScriptType
    <3>3. pc = "start" /\ arrived = 0 /\ pos = 0 /\ buffered = 0
      BY <2>1 DEF Init
    <3>4. StagesLeft = 2
      BY <3>3 DEF StagesLeft, Handshake
    <3>5. QED
      BY <3>2, <3>3, <3>4
  <2>2. \A n \in Nat : 2 + (n - 0) + (n - (0 - 0)) = 2 + 2 * n
    OBVIOUS
  <2>3. QED
    BY <2>1, <2>2, Zenon DEF DialLeft
<1>4. QED
  BY <1>1, <1>2, <1>3, OrderedAtFirst, OrderedStep, PTL DEF Spec
=============================================================================
