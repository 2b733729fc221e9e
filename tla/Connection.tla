------------------------------ MODULE Connection ------------------------------
(* One connection of a client, from handle() to close(), in                  *)
(* pypproxy/proxy/proxy.py and the relay of pypproxy/proto/ws.py: a plain    *)
(* request, a decrypted stream of requests, a WebSocket, or the tunnel to an *)
(* ignored host.  What _forward() does with a request is module Forward.     *)
(*                                                                           *)
(* The client's stream is a row of pieces, <<i, k>> being piece k of request *)
(* i: its line (0), its header lines (1), its body (2 and up).  The framing  *)
(* turns on which pieces have arrived when the handler reads.                *)
EXTENDS Naturals, Sequences

CONSTANTS Plans,        \* the sequences of requests the client may make
          MaxRequests,  \* bound: the length of a plan
          MaxFrames     \* bound: what a peer of a relay writes

\* Pieces of body, how its length is told, and whether the connection is to stay.
Requests ==
    {r \in [size : Nat, coding : {"length", "chunked", "upgrade"}, then : {"open", "close"}] :
        r.coding = "upgrade" => r.size = 0}

ASSUME ConnectionAssumption ==
    /\ MaxRequests \in Nat /\ MaxFrames \in Nat
    /\ \A p \in Plans : p \in Seq(Requests) /\ Len(p) <= MaxRequests

VARIABLES kind,     \* what the first line asks for: a plain request, CONNECT
                    \* to a host, CONNECT to an ignored host
          plan,     \* the requests the client will make
          wrote,    \* the piece the client writes next
          over,     \* the peers that have ended their stream
          reset,    \* and those among them whose connection is lost
          pc,       \* where the handler is
          at,       \* the piece its reader reads next
          cur,      \* the request it is handling
          asked,    \* the requests it passed on
          replies,  \* how many the client has had
          slip,     \* why requests and reading may be out of step
          listed,   \* is the WebSocket in the store?
          written, read, got,  \* relay: frames a peer wrote, frames its pump
                               \* has passed on, what a peer was sent
          stopped              \* the peers whose pump has returned

clientVars == <<kind, plan, wrote>>
requestVars == <<at, cur, asked, replies, slip>>
relayVars == <<listed, written, read, got, stopped>>
peerVars == <<over, reset>>
vars == <<clientVars, peerVars, pc, requestVars, relayVars>>

Sides == {"client", "server"}
Other(s) == IF s = "client" THEN "server" ELSE "client"

\* What the handler takes for one request: whose line and whose headers (0:
\* of no single request), and how many pieces of body.
Parsed == [line : Nat, head : Nat, body : Nat]
Nothing == [line |-> 0, head |-> 0, body |-> 0]

TypeOK ==
    /\ kind \in {"plain", "mitm", "ignored"}
    /\ plan \in Plans
    /\ wrote \in Nat \X Nat
    /\ over \subseteq Sides /\ reset \subseteq over
    /\ pc \in {"handshake", "upgraded", "head", "body", "forward",
               "dial", "greet", "relay", "closed"}
    /\ at \in Nat \X Nat
    /\ cur \in Parsed
    /\ asked \in Seq(Parsed)
    /\ replies \in Nat
    /\ slip \subseteq {"early", "short", "chunked", "cut"}
    /\ listed \in BOOLEAN
    /\ written \in [Sides -> Seq({"data", "close"})]
    /\ read \in [Sides -> 0..MaxFrames]
    /\ got \in [Sides -> Seq({"crlf", "data", "close"})]
    /\ stopped \subseteq Sides

\* A CONNECT has been read, and answered 200.
Init ==
    /\ \/ kind = "plain" /\ pc = "head"
       \/ kind = "mitm" /\ pc = "handshake"
       \/ kind = "ignored" /\ pc = "dial"
    /\ plan \in Plans
    /\ wrote = <<1, 0>> /\ at = <<1, 0>>
    /\ over = {} /\ reset = {}
    /\ cur = Nothing /\ asked = <<>> /\ replies = 0 /\ slip = {}
    /\ listed = FALSE
    /\ written = [s \in Sides |-> <<>>]
    /\ read = [s \in Sides |-> 0]
    /\ got = [s \in Sides |-> <<>>]
    /\ stopped = {}

-------------------------------------------------------------------------------
(* The peers *)

Before(p, q) == p[1] < q[1] \/ (p[1] = q[1] /\ p[2] < q[2])

\* Piece k of request i, or the next request if it has no such piece.
Piece(i, k) == IF k <= plan[i].size + 1 THEN <<i, k>> ELSE <<i + 1, 0>>

\* The client waits for the answer to a request before it makes the next one.
Write ==
    /\ kind # "ignored"
    /\ pc \in {"upgraded", "head", "body", "forward"}
    /\ "client" \notin over
    /\ wrote[1] <= Len(plan)
    /\ wrote[2] = 0 => replies + 1 >= wrote[1]
    /\ wrote' = Piece(wrote[1], wrote[2] + 1)
    /\ UNCHANGED <<kind, plan, peerVars, pc, requestVars, relayVars>>

\* A client may go at any time; what it does between its last handshake message
\* and the switch of readers is only what came along with that message.
PeerEnds(s) ==
    /\ IF s = "client" THEN pc \notin {"upgraded", "closed"} ELSE pc \in {"greet", "relay"}
    /\ over' = over \cup {s}
    /\ \/ s \notin over /\ UNCHANGED reset
       \/ s \notin reset /\ reset' = reset \cup {s}
    /\ UNCHANGED <<clientVars, pc, requestVars, relayVars>>

\* A frame of a WebSocket or a chunk of a tunnel; nothing follows a close.
PeerWrites(s) ==
    /\ pc = "relay" /\ s \notin over
    /\ Len(written[s]) < MaxFrames
    /\ \A n \in DOMAIN written[s] : written[s][n] # "close"
    /\ \E frame \in IF kind = "mitm" THEN {"data", "close"} ELSE {"data"} :
         written' = [written EXCEPT ![s] = Append(@, frame)]
    /\ UNCHANGED <<clientVars, peerVars, pc, requestVars, listed, read, got, stopped>>

-------------------------------------------------------------------------------
(* TLS *)

\* handle() closes the writer, however it ends.
Finish == pc' = "closed"

HandshakeDone ==
    /\ pc = "handshake" /\ "client" \notin over
    /\ pc' = "upgraded"
    /\ UNCHANGED <<clientVars, peerVars, requestVars, relayVars>>

\* Ten seconds, or an error.
HandshakeFails ==
    /\ pc = "handshake"
    /\ Finish
    /\ UNCHANGED <<clientVars, peerVars, requestVars, relayVars>>

\* set_protocol(): data that came with the end of the handshake has been given
\* to the old protocol, and stays in the old reader.
SwitchReader ==
    /\ pc = "upgraded"
    /\ pc' = "head"
    /\ at' = wrote
    /\ slip' = IF at' # at THEN slip \cup {"early"} ELSE slip
    /\ UNCHANGED <<clientVars, peerVars, cur, asked, replies, relayVars>>

-------------------------------------------------------------------------------
(* Requests *)

\* The next line and the next block of headers.  When the reader is not at the
\* start of a request, the line is made of what it finds there.
LineRead == IF at[2] = 0 THEN at[1] ELSE 0
HeadRead == IF at[2] <= 1 THEN at[1] ELSE at[1] + 1

HeadArrived == Before(<<HeadRead, 1>>, wrote)

\* Mutated: a byte less.
LengthLessOne(i) == IF plan[i].coding = "length" /\ plan[i].size > 0 THEN plan[i].size - 1 ELSE 0

\* Content-Length, 0 without one.
ContentLength(i) == IF plan[i].coding = "length" THEN plan[i].size ELSE 0

PassOn(parsed) ==
    /\ pc' = "forward"
    /\ asked' = Append(asked, parsed)

\* readline() and _read_headers(); only the decrypted stream knows WebSockets.
\* A line that is none may have too few words, and ends the connection.
ReadHead ==
    /\ pc = "head" /\ HeadArrived /\ "client" \notin reset
    /\ cur' = [line |-> LineRead, head |-> HeadRead, body |-> 0]
    /\ at' = Piece(HeadRead, 2)
    /\ slip' = IF plan[HeadRead].coding = "chunked" /\ plan[HeadRead].size > 0
               THEN slip \cup {"chunked"} ELSE slip
    /\ IF kind = "mitm" /\ plan[HeadRead].coding = "upgrade"
       THEN pc' = "dial" /\ UNCHANGED asked
       ELSE \/ LineRead = 0 /\ Finish /\ UNCHANGED asked
            \/ ContentLength(HeadRead) > 0 /\ pc' = "body" /\ UNCHANGED asked
            \/ ContentLength(HeadRead) = 0 /\ PassOn(cur')
    /\ UNCHANGED <<clientVars, peerVars, replies, relayVars>>

\* The stream has ended before the next block of headers has: readline() and
\* _read_headers() return what is there, and only an empty line is noticed.
ReadEnd ==
    /\ pc = "head" /\ ~HeadArrived /\ "client" \in over \ reset
    /\ at' = wrote
    /\ cur' = [line |-> LineRead, head |-> 0, body |-> 0]
    /\ slip' = IF at = wrote THEN slip ELSE slip \cup {"cut"}
    /\ \/ Finish /\ UNCHANGED asked
       \/ at # wrote /\ PassOn(cur')
    /\ UNCHANGED <<clientVars, peerVars, replies, relayVars>>

\* The pieces of body i that are in the buffer when none has been read.
Arrived(i) == IF wrote[1] > i THEN plan[i].size ELSE wrote[2] - 2

\* Mutated: one piece more is waited for.
ReadBodyAndMore ==
    /\ pc = "body" /\ (Before(<<cur.head + 1, 0>>, wrote) \/ "client" \in over) /\ "client" \notin reset
    /\ cur' = [cur EXCEPT !.body = plan[cur.head].size]
    /\ at' = <<cur.head + 1, 0>>
    /\ PassOn(cur')
    /\ UNCHANGED <<clientVars, peerVars, replies, slip, relayVars>>

\* read(n) returns what has arrived, n bytes at most; it waits only for the
\* first byte.
ReadBody ==
    /\ pc = "body" /\ (Before(at, wrote) \/ "client" \in over) /\ "client" \notin reset
    /\ LET i == cur.head
           length == IF Arrived(i) < ContentLength(i) THEN Arrived(i) ELSE ContentLength(i)
       IN  /\ cur' = [cur EXCEPT !.body = length]
           /\ at' = Piece(i, length + 2)
           /\ slip' = IF Arrived(i) < plan[i].size THEN slip \cup {"short"} ELSE slip
    /\ PassOn(cur')
    /\ UNCHANGED <<clientVars, peerVars, replies, relayVars>>

\* Reading from a connection that is lost raises, whatever has arrived.
ReadFails ==
    /\ pc \in {"head", "body"} /\ "client" \in reset
    /\ Finish
    /\ UNCHANGED <<clientVars, peerVars, requestVars, relayVars>>

\* What _forward() returned is written.  handle() serves one plain request.
Answer ==
    /\ pc = "forward"
    /\ replies' = replies + 1
    /\ IF kind = "plain" \/ (cur.head # 0 /\ plan[cur.head].then = "close")
       THEN Finish ELSE pc' = "head"
    /\ UNCHANGED <<clientVars, peerVars, at, cur, asked, slip, relayVars>>

\* _forward() or the write to the client raises.
AnswerFails ==
    /\ pc = "forward"
    /\ Finish
    /\ UNCHANGED <<clientVars, peerVars, requestVars, relayVars>>

-------------------------------------------------------------------------------
(* _handle_websocket(), _tunnel() and the relays *)

DialFails ==
    /\ pc = "dial"
    /\ Finish
    /\ UNCHANGED <<clientVars, peerVars, requestVars, relayVars>>

DialTunnel ==
    /\ pc = "dial" /\ kind = "ignored"
    /\ pc' = "relay"
    /\ UNCHANGED <<clientVars, peerVars, requestVars, relayVars>>

\* headers_raw ends in an empty line already, and another one is written.
DialWebSocket ==
    /\ pc = "dial" /\ kind = "mitm"
    /\ pc' = "greet"
    /\ asked' = Append(asked, cur)
    /\ got' = [got EXCEPT !["server"] = Append(@, "crlf")]
    /\ UNCHANGED <<clientVars, peerVars, at, cur, replies, slip, listed, written, read, stopped>>

\* The server's answer, whatever its status, or the end of its stream.
Greet ==
    /\ pc = "greet" /\ reset = {}
    /\ pc' = "relay"
    /\ replies' = replies + 1 \/ ("server" \in over /\ replies' = replies)
    /\ got' = [got EXCEPT !["client"] = Append(@, "crlf")]
    /\ listed' = TRUE
    /\ UNCHANGED <<clientVars, peerVars, at, cur, asked, slip, written, read, stopped>>

\* The server's connection is lost, or the client's.
GreetFails ==
    /\ pc = "greet" /\ reset # {}
    /\ Finish
    /\ UNCHANGED <<clientVars, peerVars, requestVars, relayVars>>

Pump(s) ==
    /\ pc = "relay" /\ s \notin stopped /\ reset = {}
    /\ read[s] < Len(written[s])
    /\ LET frame == written[s][read[s] + 1]
       IN  /\ got' = [got EXCEPT ![Other(s)] = Append(@, frame)]
           /\ stopped' = IF frame = "close" THEN stopped \cup {s} ELSE stopped
    /\ read' = [read EXCEPT ![s] = @ + 1]
    /\ UNCHANGED <<clientVars, peerVars, pc, requestVars, listed, written>>

\* Mutated: the end of the stream is not noticed.
PumpMissesEnd(s) ==
    /\ pc = "relay" /\ s \notin stopped
    /\ s \in reset \/ (Other(s) \in reset /\ read[s] < Len(written[s]))
    /\ stopped' = stopped \cup {s}
    /\ UNCHANGED <<clientVars, peerVars, pc, requestVars, listed, written, read, got>>

\* The end of the stream, a lost connection to read from, or a frame for a
\* peer whose connection is lost.
PumpEnds(s) ==
    /\ pc = "relay" /\ s \notin stopped
    /\ \/ s \in over /\ read[s] = Len(written[s])
       \/ s \in reset
       \/ Other(s) \in reset /\ read[s] < Len(written[s])
    /\ stopped' = stopped \cup {s}
    /\ UNCHANGED <<clientVars, peerVars, pc, requestVars, listed, written, read, got>>

\* _relay() does not catch BrokenPipeError: gather() raises without waiting
\* for the other pump.
PumpBreaks(s) ==
    /\ pc = "relay" /\ s \notin stopped /\ kind = "mitm"
    /\ Other(s) \in reset /\ read[s] < Len(written[s])
    /\ Finish
    /\ UNCHANGED <<clientVars, peerVars, requestVars, relayVars>>

\* Mutated: the first pump to return ends the relay.
RelayEndsFirst ==
    /\ pc = "relay" /\ stopped # {}
    /\ Finish
    /\ UNCHANGED <<clientVars, peerVars, requestVars, relayVars>>

\* gather() waits for both.
RelayEnds ==
    /\ pc = "relay" /\ stopped = Sides
    /\ Finish
    /\ UNCHANGED <<clientVars, peerVars, requestVars, relayVars>>

Handler ==
    \/ HandshakeDone \/ HandshakeFails \/ SwitchReader
    \/ ReadHead \/ ReadEnd \/ ReadBody \/ ReadFails
    \/ DialFails \/ DialTunnel \/ DialWebSocket \/ RelayEnds

Next ==
    \/ Write \/ Handler \/ Answer \/ AnswerFails \/ Greet \/ GreetFails
    \/ \E s \in Sides : PeerEnds(s) \/ PeerWrites(s) \/ Pump(s) \/ PumpEnds(s) \/ PumpBreaks(s)

Spec == Init /\ [][Next]_vars

\* The loop runs each task that can go on, and a dial ends one way or the other.
\* No peer has to do anything, and _forward() need not return: nothing limits the
\* time of the manual review, nor of a server that keeps sending.
FairSpec ==
    /\ Spec
    /\ WF_vars(Handler)
    /\ WF_vars("server" \in over /\ (Greet \/ GreetFails))
    /\ \A s \in Sides : WF_vars(Pump(s) \/ PumpEnds(s) \/ PumpBreaks(s))
-------------------------------------------------------------------------------
(* Properties *)

\* The n-th request passed on is the n-th one the client made, with its line,
\* its headers and its whole body.
Whole(n) == asked[n] = [line |-> n, head |-> n, body |-> plan[n].size]

\* Reading keeps in step with the client, request by request and answer by
\* answer, but for four reasons: data came with the end of the handshake, a
\* body had not arrived when it was read, a body was chunked, or the client
\* left in the middle of a request.
InStep ==
    slip = {} =>
        /\ \A n \in DOMAIN asked : n <= Len(plan) /\ Whole(n)
        /\ replies <= Len(asked) /\ Len(asked) <= replies + 1
        /\ Before(<<Len(asked), 0>>, wrote)

\* A request that was made whole is passed on while nothing is out of step,
\* or its connection is closed.
MadeIsAsked ==
    \A n \in 1..MaxRequests :
        (slip = {} /\ kind # "ignored" /\ Before(<<n, 1>>, wrote) /\ wrote[1] > n)
            ~> (Len(asked) >= n \/ slip # {} \/ pc = "closed")

\* What a peer of a relay writes is passed on, whatever becomes of the other
\* direction, unless one of the connections is lost.  In particular a peer that
\* has ended its own stream still gets the rest of the other one.
FrameArrives ==
    \A s \in Sides : \A n \in 1..MaxFrames :
        (Len(written[s]) >= n) ~> (read[s] >= n \/ reset # {})

\* A client that has left does not keep its connection, unless the handler is
\* in _forward(), or waits for the server of a relay, which has not left.
Waiting == pc = "forward" \/ (pc \in {"greet", "relay"} /\ "server" \notin over)
ConnectionEnds == [](("client" \in over) => <>[](pc = "closed" \/ Waiting))

\* docs/architecture.md, "asyncio TCP server": a single connection handles
\* keep-alive, so on a decrypted connection whose client is there, and sent
\* nothing early, the line of the n-th request is the line of the client's n-th.
KeepAliveHolds ==
    (kind = "mitm" /\ "client" \notin over /\ "early" \notin slip) =>
        \A n \in DOMAIN asked : asked[n].line = n
===============================================================================
