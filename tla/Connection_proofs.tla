-------------------------- MODULE Connection_proofs --------------------------
(* Reading keeps in step with the client, for every plan of requests.  The   *)
(* place of the reader follows from the number of requests passed on and     *)
(* from where the handler is: that is the inductive invariant.               *)
EXTENDS Connection, TLAPS

\* How many requests have been passed on.
n == Len(asked)

\* The client writes the pieces of its plan and no others; what is read of a
\* body follows its head; a relay has only so many frames.
Bounded ==
    /\ wrote[1] >= 1 /\ at[1] >= 1
    /\ wrote[1] <= Len(plan) \/ wrote = <<Len(plan) + 1, 0>>
    /\ pc = "body" => cur.head \in DOMAIN plan /\ Before(<<cur.head, 1>>, wrote)
    /\ \A s \in Sides : Len(written[s]) <= MaxFrames

\* Where the reader is, and how many answers there were, at each point of the
\* handler.
Placed ==
    /\ pc \in {"handshake", "upgraded"} => at = <<1, 0>> /\ n = 0 /\ replies = 0
    /\ pc = "head" => at = <<n + 1, 0>> /\ replies = n
    /\ pc = "body" => /\ at = <<n + 1, 2>> /\ replies = n
                      /\ cur = [line |-> n + 1, head |-> n + 1, body |-> 0]
                      /\ ContentLength(n + 1) = plan[n + 1].size
    /\ pc \in {"forward", "greet"} => at = <<n + 1, 0>> /\ replies + 1 = n
    /\ pc = "dial" /\ kind = "mitm" =>
         /\ at = <<n + 2, 0>> /\ replies = n
         /\ cur = [line |-> n + 1, head |-> n + 1, body |-> 0]
         /\ n + 1 \in DOMAIN plan /\ plan[n + 1].size = 0
         /\ Before(<<n + 1, 1>>, wrote)
    /\ pc \in {"dial", "relay", "closed"} => replies <= n /\ n <= replies + 1

AllWhole ==
    /\ \A m \in DOMAIN asked : m <= Len(plan) /\ Whole(m)
    /\ Before(<<n, 0>>, wrote)

IInv == TypeOK /\ Bounded /\ (slip = {} => Placed /\ AllWhole)

\* A plan is a sequence of requests.
LEMMA PlanType ==
    ASSUME TypeOK
    PROVE  /\ plan \in Seq(Requests) /\ Len(plan) \in Nat /\ DOMAIN plan = 1..Len(plan)
           /\ \A i \in DOMAIN plan :
                /\ plan[i].size \in Nat
                /\ plan[i].coding = "upgrade" => plan[i].size = 0
                /\ ContentLength(i) \in Nat
<1>1. plan \in Seq(Requests)
  BY ConnectionAssumption DEF TypeOK
<1>2. \A i \in DOMAIN plan : plan[i] \in Requests
  BY <1>1
<1> QED
  BY <1>1, <1>2 DEF Requests, ContentLength

\* The client's next piece is a later one, and one of its plan.
LEMMA WriteAdvances ==
    ASSUME IInv, Write
    PROVE  /\ wrote' \in Nat \X Nat /\ wrote'[1] >= 1
           /\ wrote'[1] <= Len(plan) \/ wrote' = <<Len(plan) + 1, 0>>
           /\ \A p \in Nat \X Nat : Before(p, wrote) => Before(p, wrote')
<1>1. wrote \in Nat \X Nat /\ wrote[1] \in DOMAIN plan /\ wrote[1] \in Nat /\ wrote[2] \in Nat
  BY PlanType DEF IInv, TypeOK, Bounded, Write
<1>2. wrote' = <<wrote[1], wrote[2] + 1>> \/ wrote' = <<wrote[1] + 1, 0>>
  BY DEF Write, Piece
<1>3. CASE wrote' = <<wrote[1], wrote[2] + 1>>
  BY <1>1, <1>3, PlanType DEF Before, IInv
<1>4. CASE wrote' = <<wrote[1] + 1, 0>>
  BY <1>1, <1>4, PlanType DEF Before, IInv
<1> QED
  BY <1>2, <1>3, <1>4

\* A block of headers that has arrived belongs to the plan.
LEMMA HeadInPlan ==
    ASSUME IInv, HeadArrived
    PROVE  HeadRead \in DOMAIN plan /\ HeadRead \in Nat
<1>1. /\ wrote \in Nat \X Nat /\ at \in Nat \X Nat /\ at[1] >= 1
      /\ wrote[1] <= Len(plan) \/ wrote = <<Len(plan) + 1, 0>>
  BY DEF IInv, TypeOK, Bounded
<1>2. HeadRead \in Nat /\ HeadRead >= 1
  BY <1>1 DEF HeadRead
<1>3. wrote[1] > HeadRead \/ (wrote[1] = HeadRead /\ wrote[2] > 1)
  BY <1>1, <1>2 DEF HeadArrived, Before
<1> QED
  BY <1>1, <1>2, <1>3, PlanType DEF IInv

\* A request whose reading found nothing wrong is whole.
LEMMA OneMoreWhole ==
    ASSUME IInv, slip = {}, AllWhole, Before(<<n + 1, 0>>, wrote), n + 1 \in DOMAIN plan,
           UNCHANGED <<plan, wrote>>,
           asked' = Append(asked, [line |-> n + 1, head |-> n + 1, body |-> plan[n + 1].size])
    PROVE  AllWhole' /\ Len(asked') = n + 1
<1>1. asked \in Seq(Parsed) /\ n \in Nat /\ DOMAIN asked = 1..n
  BY DEF IInv, TypeOK, n
<1>2. n + 1 <= Len(plan) /\ plan[n + 1].size \in Nat
  BY <1>1, PlanType DEF IInv
<1>3. [line |-> n + 1, head |-> n + 1, body |-> plan[n + 1].size] \in Parsed
  BY <1>1, <1>2 DEF Parsed
<1>4. /\ Len(asked') = n + 1 /\ DOMAIN asked' = 1..(n + 1)
      /\ asked'[n + 1] = [line |-> n + 1, head |-> n + 1, body |-> plan[n + 1].size]
      /\ \A m \in 1..n : asked'[m] = asked[m]
  BY <1>1, <1>3 DEF n
<1>5. \A m \in DOMAIN asked' : m <= Len(plan') /\ Whole(m)'
  BY <1>1, <1>2, <1>4 DEF AllWhole, Whole
<1> QED
  BY <1>4, <1>5 DEF AllWhole, n

\* The first state.
LEMMA Start == Init => IInv
<1> SUFFICES ASSUME Init PROVE IInv
  OBVIOUS
<1>1. TypeOK
  <2>1. written \in [Sides -> Seq({"data", "close"})] /\ read \in [Sides -> 0..MaxFrames]
    BY ConnectionAssumption DEF Init
  <2>2. got \in [Sides -> Seq({"crlf", "data", "close"})]
    BY DEF Init
  <2>3. wrote \in Nat \X Nat /\ at \in Nat \X Nat /\ cur \in Parsed /\ asked \in Seq(Parsed)
    BY DEF Init, Nothing, Parsed
  <2> QED
    BY <2>1, <2>2, <2>3 DEF Init, TypeOK
<1>2. Len(plan) \in Nat
  BY <1>1, PlanType
<1>3. Bounded
  BY <1>2, ConnectionAssumption DEF Init, Bounded, Sides
<1>4. n = 0
  BY DEF Init, n
<1>5. Placed
  BY <1>4 DEF Init, Placed
<1>6. AllWhole
  BY <1>4 DEF Init, AllWhole, Before, n
<1> QED
  BY <1>1, <1>3, <1>5, <1>6 DEF IInv

\* Steps of the peers.
LEMMA PeersKeep ==
    ASSUME IInv,
           Write \/ \E s \in Sides : PeerEnds(s) \/ PeerWrites(s)
    PROVE  IInv'
<1>1. CASE Write
  <2>1. TypeOK'
    BY <1>1, WriteAdvances DEF IInv, TypeOK, Write, peerVars, requestVars, relayVars
  <2>2. Bounded'
    <3>1. pc = "body" => <<cur.head, 1>> \in Nat \X Nat
      BY DEF IInv, TypeOK, Parsed
    <3> QED
      BY <1>1, <3>1, WriteAdvances DEF IInv, Bounded, Write, requestVars, relayVars
  <2>3. n \in Nat /\ n' = n
    BY <1>1 DEF IInv, TypeOK, Write, requestVars, n
  <2>4. ASSUME slip' = {} PROVE Placed' /\ AllWhole'
    <3>1. Placed /\ AllWhole
      BY <1>1, <2>4 DEF IInv, Write, requestVars
    <3>2. AllWhole'
      BY <1>1, <2>3, <3>1, WriteAdvances DEF AllWhole, Whole, Write, requestVars
    <3>3. Placed'
      BY <1>1, <2>3, <3>1 DEF Placed, ContentLength, Write, requestVars
    <3> QED
      BY <3>2, <3>3
  <2> QED
    BY <2>1, <2>2, <2>4 DEF IInv
<1>2. ASSUME NEW s \in Sides, PeerEnds(s) PROVE IInv'
  <2>1. UNCHANGED <<clientVars, pc, requestVars, relayVars>> /\ over' \subseteq Sides /\ reset' \subseteq over'
    BY <1>2 DEF PeerEnds, IInv, TypeOK
  <2>2. TypeOK'
    BY <2>1 DEF IInv, TypeOK, clientVars, peerVars, requestVars, relayVars
  <2>3. Bounded' /\ (slip' = {} => Placed' /\ AllWhole')
    BY <2>1 DEF IInv, Bounded, Before, Placed, AllWhole, Whole, ContentLength, n,
                clientVars, peerVars, requestVars, relayVars
  <2> QED
    BY <2>2, <2>3 DEF IInv
<1>3. ASSUME NEW s \in Sides, PeerWrites(s) PROVE IInv'
  <2>1. UNCHANGED <<clientVars, over, reset, pc, requestVars, listed, read, got, stopped>>
    BY <1>3 DEF PeerWrites, peerVars
  <2>2. PICK frame \in {"data", "close"} : written' = [written EXCEPT ![s] = Append(@, frame)]
    BY <1>3 DEF PeerWrites, peerVars
  <2>3. /\ written' \in [Sides -> Seq({"data", "close"})]
        /\ \A t \in Sides : Len(written'[t]) <= MaxFrames
    BY <1>3, <2>2, ConnectionAssumption DEF IInv, TypeOK, Bounded, PeerWrites
  <2>4. TypeOK'
    BY <2>1, <2>3 DEF IInv, TypeOK, clientVars, peerVars, requestVars
  <2>5. Bounded'
    BY <2>1, <2>3 DEF IInv, Bounded, Before, clientVars, peerVars, requestVars
  <2>6. slip' = {} => Placed' /\ AllWhole'
    BY <2>1 DEF IInv, Before, Placed, AllWhole, Whole, ContentLength, n,
                clientVars, peerVars, requestVars
  <2> QED
    BY <2>4, <2>5, <2>6 DEF IInv
<1> QED
  BY <1>1, <1>2, <1>3

\* What the reader does to the types.
LEMMA PieceType ==
    ASSUME NEW i \in Nat, NEW k \in Nat, i >= 1
    PROVE  Piece(i, k) \in Nat \X Nat /\ Piece(i, k)[1] >= 1
BY DEF Piece

LEMMA ReadHeadKeeps == ASSUME IInv, ReadHead PROVE IInv'
<1>1. /\ HeadRead \in DOMAIN plan /\ HeadRead \in Nat /\ HeadRead >= 1
      /\ plan[HeadRead].size \in Nat
      /\ plan[HeadRead].coding = "upgrade" => plan[HeadRead].size = 0
      /\ Before(<<HeadRead, 1>>, wrote)
  BY HeadInPlan, PlanType DEF ReadHead, IInv, HeadArrived
<1>2. /\ pc = "head" /\ at' = Piece(HeadRead, 2)
      /\ cur' = [line |-> LineRead, head |-> HeadRead, body |-> 0]
      /\ UNCHANGED <<kind, plan, wrote, over, reset, replies, listed, written, read, got, stopped>>
  BY DEF ReadHead, clientVars, peerVars, relayVars
<1>3. LineRead \in Nat /\ cur' \in Parsed
  BY <1>1, <1>2 DEF LineRead, IInv, TypeOK, Parsed
<1>4. at' \in Nat \X Nat /\ at'[1] >= 1
  BY <1>1, <1>2, PieceType
<1>5. pc' \in {"dial", "closed", "body", "forward"}
  BY DEF ReadHead, Finish, PassOn
<1>6. asked' \in Seq(Parsed)
  <2>1. asked' = asked \/ asked' = Append(asked, cur')
    BY DEF ReadHead, PassOn
  <2>2. asked \in Seq(Parsed)
    BY DEF IInv, TypeOK
  <2> QED
    BY <1>3, <2>1, <2>2
<1>7. TypeOK'
  BY <1>2, <1>3, <1>4, <1>5, <1>6 DEF ReadHead, IInv, TypeOK
<1>8. Bounded'
  BY <1>1, <1>2, <1>4 DEF IInv, Bounded, Before
<1>9. ASSUME slip' = {} PROVE Placed' /\ AllWhole'
  <2>1. slip = {} /\ ~(plan[HeadRead].coding = "chunked" /\ plan[HeadRead].size > 0)
    BY <1>9 DEF ReadHead
  <2>2. /\ n \in Nat /\ at = <<n + 1, 0>> /\ replies = n /\ AllWhole
    BY <1>2, <2>1 DEF IInv, Placed, TypeOK, n
  <2>3. LineRead = n + 1 /\ HeadRead = n + 1
    BY <2>2 DEF LineRead, HeadRead
  <2>4. ContentLength(n + 1) = plan[n + 1].size
    BY <1>1, <2>1, <2>3, PlanType DEF ContentLength, IInv, Requests
  <2>5. at' = IF plan[n + 1].size = 0 THEN <<n + 2, 0>> ELSE <<n + 1, 2>>
    BY <1>1, <1>2, <2>2, <2>3 DEF Piece
  <2>6. CASE pc' = "forward"
    <3>1. /\ asked' = Append(asked, cur') /\ plan[n + 1].size = 0
      BY <2>3, <2>4, <2>6 DEF ReadHead, Finish, PassOn
    <3>2. Before(<<n + 1, 0>>, wrote)
      BY <1>1, <2>3, <2>2 DEF Before, IInv, TypeOK
    <3>3. AllWhole' /\ Len(asked') = n + 1
      BY <1>1, <1>2, <2>1, <2>2, <2>3, <3>1, <3>2, OneMoreWhole
    <3>4. Placed'
      BY <1>2, <2>2, <2>5, <2>6, <3>1, <3>3 DEF Placed, n
    <3> QED
      BY <3>3, <3>4
  <2>7. CASE pc' # "forward"
    <3>1. asked' = asked /\ n' = n
      BY <2>7 DEF ReadHead, PassOn, n
    <3>2. AllWhole'
      BY <1>2, <2>2, <3>1 DEF AllWhole, Whole, Before
    <3>3. CASE pc' = "dial"
      <4>1. plan[n + 1].size = 0 /\ n + 1 \in DOMAIN plan
        BY <1>1, <2>3, <3>3 DEF ReadHead, Finish, PassOn
      <4> QED
        BY <1>1, <1>2, <2>2, <2>3, <2>5, <3>1, <3>2, <3>3, <4>1 DEF Placed, Before
    <3>4. CASE pc' = "closed"
      BY <1>2, <2>2, <3>1, <3>2, <3>4 DEF Placed
    <3>5. CASE pc' = "body"
      <4>1. plan[n + 1].size > 0
        BY <2>3, <2>4, <3>5 DEF ReadHead, Finish, PassOn
      <4>2. at' = <<n + 1, 2>>
        BY <2>5, <4>1
      <4>3. ContentLength(n + 1)' = ContentLength(n + 1)
        BY <1>2, <3>1 DEF ContentLength
      <4> QED
        BY <1>2, <2>2, <2>3, <2>4, <3>1, <3>2, <3>5, <4>2, <4>3 DEF Placed
    <3> QED
      BY <1>5, <2>7, <3>2, <3>3, <3>4, <3>5
  <2> QED
    BY <2>6, <2>7
<1> QED
  BY <1>7, <1>8, <1>9 DEF IInv

LEMMA ReadEndKeeps == ASSUME IInv, ReadEnd PROVE IInv'
<1>1. /\ pc = "head" /\ at' = wrote
      /\ cur' = [line |-> LineRead, head |-> 0, body |-> 0]
      /\ UNCHANGED <<kind, plan, wrote, over, reset, replies, listed, written, read, got, stopped>>
      /\ pc' \in {"closed", "forward"}
  BY DEF ReadEnd, clientVars, peerVars, relayVars, Finish, PassOn
<1>2. cur' \in Parsed
  BY <1>1 DEF LineRead, IInv, TypeOK, Parsed
<1>3. asked' \in Seq(Parsed)
  <2>1. asked' = asked \/ asked' = Append(asked, cur')
    BY DEF ReadEnd, PassOn
  <2>2. asked \in Seq(Parsed)
    BY DEF IInv, TypeOK
  <2> QED
    BY <1>2, <2>1, <2>2
<1>4. TypeOK'
  BY <1>1, <1>2, <1>3 DEF ReadEnd, IInv, TypeOK
<1>5. Bounded'
  BY <1>1 DEF IInv, Bounded
<1>6. ASSUME slip' = {} PROVE Placed' /\ AllWhole'
  <2>1. slip = {} /\ pc' = "closed" /\ asked' = asked
    BY <1>6 DEF ReadEnd, Finish, PassOn
  <2>2. replies = n /\ AllWhole /\ n' = n /\ n \in Nat
    BY <1>1, <2>1 DEF IInv, Placed, n, TypeOK
  <2>3. Placed'
    BY <1>1, <2>1, <2>2 DEF Placed
  <2>4. AllWhole'
    BY <1>1, <2>1, <2>2 DEF AllWhole, Whole, Before
  <2> QED
    BY <2>3, <2>4
<1> QED
  BY <1>4, <1>5, <1>6 DEF IInv

LEMMA ReadBodyKeeps == ASSUME IInv, ReadBody PROVE IInv'
<1> DEFINE i == cur.head
           length == IF Arrived(i) < ContentLength(i) THEN Arrived(i) ELSE ContentLength(i)
<1>1. /\ i \in DOMAIN plan /\ i \in Nat /\ i >= 1
      /\ plan[i].size \in Nat /\ ContentLength(i) \in Nat
      /\ Before(<<i, 1>>, wrote)
  BY PlanType DEF ReadBody, IInv, Bounded, TypeOK, Parsed
<1>2. Arrived(i) \in Nat
  BY <1>1 DEF Arrived, Before, IInv, TypeOK
<1>3. length \in Nat
  BY <1>1, <1>2
<1>4. /\ pc = "body" /\ pc' = "forward"
      /\ cur' = [cur EXCEPT !.body = length]
      /\ at' = Piece(i, length + 2)
      /\ asked' = Append(asked, cur')
      /\ slip' = IF Arrived(i) < plan[i].size THEN slip \cup {"short"} ELSE slip
      /\ UNCHANGED <<kind, plan, wrote, over, reset, replies, listed, written, read, got, stopped>>
  BY DEF ReadBody, PassOn, clientVars, peerVars, relayVars
<1> HIDE DEF length
<1>5. cur' \in Parsed
  BY <1>3, <1>4 DEF IInv, TypeOK, Parsed
<1>6. at' \in Nat \X Nat /\ at'[1] >= 1
  BY <1>1, <1>3, <1>4, PieceType
<1>7. asked' \in Seq(Parsed)
  BY <1>4, <1>5 DEF IInv, TypeOK
<1>8. TypeOK'
  BY <1>4, <1>5, <1>6, <1>7 DEF IInv, TypeOK
<1>9. Bounded'
  BY <1>4, <1>6 DEF IInv, Bounded
<1>10. ASSUME slip' = {} PROVE Placed' /\ AllWhole'
  <2>1. slip = {} /\ ~(Arrived(i) < plan[i].size)
    BY <1>4, <1>10
  <2>2. /\ n \in Nat /\ replies = n /\ AllWhole /\ i = n + 1
        /\ cur = [line |-> n + 1, head |-> n + 1, body |-> 0]
        /\ ContentLength(n + 1) = plan[n + 1].size
    BY <1>4, <2>1 DEF IInv, Placed, TypeOK, n
  <2>3. length = plan[n + 1].size
    BY <1>1, <1>2, <2>1, <2>2 DEF length
  <2>4. cur' = [line |-> n + 1, head |-> n + 1, body |-> plan[n + 1].size]
    BY <1>4, <2>2, <2>3
  <2>5. Before(<<n + 1, 0>>, wrote)
    BY <1>1, <2>2 DEF Before, IInv, TypeOK
  <2>6. AllWhole' /\ Len(asked') = n + 1
    BY <1>1, <1>4, <2>1, <2>2, <2>4, <2>5, OneMoreWhole
  <2>7. at' = <<n + 2, 0>>
    BY <1>1, <1>4, <2>2, <2>3 DEF Piece
  <2>8. Placed'
    BY <1>4, <2>2, <2>6, <2>7 DEF Placed, n
  <2> QED
    BY <2>6, <2>8
<1> QED
  BY <1>8, <1>9, <1>10 DEF IInv

\* The handler's other steps up to the relay.
LEMMA HandlerKeeps ==
    ASSUME IInv,
           \/ HandshakeDone \/ HandshakeFails \/ SwitchReader \/ Answer \/ AnswerFails
           \/ DialFails \/ DialTunnel \/ RelayEnds \/ GreetFails
           \/ ReadFails \/ (\E s \in Sides : PumpBreaks(s))
    PROVE  IInv'
<1>1. /\ UNCHANGED <<kind, plan, wrote, over, reset, cur, asked, listed, written, read, got, stopped>>
      /\ n \in Nat /\ n' = n /\ replies \in Nat
  BY DEF HandshakeDone, HandshakeFails, SwitchReader, Answer, AnswerFails, DialFails,
         DialTunnel, RelayEnds, GreetFails, ReadFails, PumpBreaks, clientVars, peerVars, requestVars, relayVars, IInv, TypeOK, n
<1>2. slip' = {} => slip = {}
  BY DEF HandshakeDone, HandshakeFails, SwitchReader, Answer, AnswerFails, DialFails,
         DialTunnel, RelayEnds, GreetFails, ReadFails, PumpBreaks, requestVars
<1>3. slip' = {} => AllWhole'
  BY <1>1, <1>2 DEF AllWhole, Whole, Before, IInv
<1>4. CASE SwitchReader
  <2>1. pc = "upgraded" /\ pc' = "head" /\ at' = wrote /\ UNCHANGED replies
    BY <1>4 DEF SwitchReader
  <2>2. TypeOK' /\ Bounded'
    BY <1>1, <1>4, <2>1 DEF SwitchReader, IInv, TypeOK, Bounded
  <2>3. slip' = {} => at' = at
    BY <1>4 DEF SwitchReader
  <2>4. slip' = {} => Placed'
    BY <1>1, <1>2, <2>1, <2>3 DEF IInv, Placed
  <2> QED
    BY <1>3, <2>2, <2>4 DEF IInv
<1>5. CASE Answer
  <2>1. /\ pc = "forward" /\ replies' = replies + 1 /\ UNCHANGED <<at, slip>>
        /\ pc' \in {"closed", "head"}
    BY <1>5 DEF Answer, Finish
  <2>2. TypeOK' /\ Bounded'
    <3>1. TypeOK'
      BY <1>1, <2>1 DEF IInv, TypeOK, Bounded
    <3>2. Bounded'
      BY <1>1, <2>1 DEF IInv, TypeOK, Bounded
    <3> QED
      BY <3>1, <3>2
  <2>3. slip' = {} => Placed'
    BY <1>1, <2>1 DEF IInv, Placed
  <2> QED
    BY <1>3, <2>2, <2>3 DEF IInv
<1>6. CASE ~(SwitchReader \/ Answer)
  <2>1. UNCHANGED <<at, replies, slip>>
    BY <1>6 DEF HandshakeDone, HandshakeFails, AnswerFails, DialFails,
                DialTunnel, RelayEnds, GreetFails, ReadFails, PumpBreaks, requestVars
  <2>2. \/ pc = "handshake" /\ pc' = "upgraded"
        \/ pc \in {"handshake", "head", "body", "forward", "dial", "relay", "greet"} /\ pc' = "closed"
        \/ pc = "dial" /\ pc' = "relay"
    BY <1>6 DEF HandshakeDone, HandshakeFails, AnswerFails, DialFails,
                DialTunnel, RelayEnds, GreetFails, ReadFails, PumpBreaks, Finish
  <2>3. TypeOK' /\ Bounded'
    <3>1. TypeOK'
      BY <1>1, <2>1, <2>2 DEF IInv, TypeOK, Bounded
    <3>2. Bounded'
      BY <1>1, <2>1, <2>2 DEF IInv, TypeOK, Bounded
    <3> QED
      BY <3>1, <3>2
  <2>4. slip' = {} => Placed'
    BY <1>1, <2>1, <2>2 DEF IInv, Placed
  <2> QED
    BY <1>3, <2>3, <2>4 DEF IInv
<1> QED
  BY <1>4, <1>5, <1>6

\* Writing to a peer.
LEMMA GreetType ==
    ASSUME IInv, NEW s \in Sides
    PROVE  [got EXCEPT ![s] = Append(@, "crlf")] \in [Sides -> Seq({"crlf", "data", "close"})]
<1>1. got \in [Sides -> Seq({"crlf", "data", "close"})]
  BY DEF IInv, TypeOK
<1>2. Append(got[s], "crlf") \in Seq({"crlf", "data", "close"})
  BY <1>1
<1> QED
  BY <1>1, <1>2

\* The WebSocket's two heads, and the pumps.
LEMMA RelayKeeps ==
    ASSUME IInv,
           \/ DialWebSocket \/ Greet
           \/ \E s \in Sides : Pump(s) \/ PumpEnds(s)
    PROVE  IInv'
<1>1. n \in Nat /\ asked \in Seq(Parsed) /\ cur \in Parsed /\ {"client", "server"} = Sides
  BY DEF IInv, TypeOK, Sides, n
<1>2. CASE DialWebSocket
  <2>1. /\ pc = "dial" /\ kind = "mitm" /\ pc' = "greet"
        /\ asked' = Append(asked, cur)
        /\ got' = [got EXCEPT !["server"] = Append(@, "crlf")]
        /\ UNCHANGED <<kind, plan, wrote, over, reset, at, cur, replies, slip, listed, written, read, stopped>>
    BY <1>2 DEF DialWebSocket, clientVars, peerVars
  <2>2. asked' \in Seq(Parsed) /\ got' \in [Sides -> Seq({"crlf", "data", "close"})]
    BY <1>1, <2>1, GreetType
  <2>3. TypeOK' /\ Bounded'
    <3>1. /\ pc' = "greet"
          /\ UNCHANGED <<kind, plan, wrote, over, reset, at, cur, replies, slip, listed, written, read, stopped>>
      BY <2>1
    <3>2. TypeOK'
      BY <2>2, <3>1 DEF IInv, TypeOK
    <3>3. Bounded'
      BY <3>1 DEF IInv, Bounded, Before
    <3> QED
      BY <3>2, <3>3
  <2>4. ASSUME slip' = {} PROVE Placed' /\ AllWhole'
    <3>1. /\ slip = {} /\ at = <<n + 2, 0>> /\ replies = n /\ AllWhole
          /\ n + 1 \in DOMAIN plan
          /\ cur = [line |-> n + 1, head |-> n + 1, body |-> plan[n + 1].size]
          /\ Before(<<n + 1, 1>>, wrote)
      BY <2>1, <2>4 DEF IInv, Placed
    <3>2. Before(<<n + 1, 0>>, wrote)
      BY <1>1, <3>1 DEF Before, IInv, TypeOK
    <3>3. AllWhole' /\ Len(asked') = n + 1
      BY <2>1, <3>1, <3>2, OneMoreWhole
    <3>4. Placed'
      BY <1>1, <2>1, <3>1, <3>3 DEF Placed, n
    <3> QED
      BY <3>3, <3>4
  <2> QED
    BY <2>3, <2>4 DEF IInv
<1>3. CASE Greet
  <2>1. /\ pc = "greet" /\ pc' = "relay" /\ listed' = TRUE
        /\ replies' = replies \/ replies' = replies + 1
        /\ got' = [got EXCEPT !["client"] = Append(@, "crlf")]
        /\ UNCHANGED <<kind, plan, wrote, over, reset, at, cur, asked, slip, written, read, stopped>>
        /\ n' = n
    BY <1>3 DEF Greet, clientVars, peerVars, n
  <2>2. got' \in [Sides -> Seq({"crlf", "data", "close"})]
    BY <1>1, <2>1, GreetType
  <2>3. TypeOK' /\ Bounded'
    <3>1. /\ pc' = "relay" /\ replies' \in Nat /\ listed' = TRUE
          /\ UNCHANGED <<kind, plan, wrote, over, reset, at, cur, asked, slip, written, read, stopped>>
      BY <2>1 DEF IInv, TypeOK
    <3>2. TypeOK'
      BY <2>2, <3>1 DEF IInv, TypeOK
    <3>3. Bounded'
      BY <3>1 DEF IInv, Bounded, Before
    <3> QED
      BY <3>2, <3>3
  <2>4. slip' = {} => Placed' /\ AllWhole'
    BY <1>1, <2>1 DEF IInv, TypeOK, Placed, AllWhole, Whole, Before
  <2> QED
    BY <2>3, <2>4 DEF IInv
<1>4. ASSUME NEW s \in Sides, Pump(s) \/ PumpEnds(s) PROVE IInv'
  <2>1. /\ UNCHANGED <<kind, plan, wrote, over, reset, pc, at, cur, asked, replies, slip, listed, written>>
        /\ n' = n
    BY <1>4 DEF Pump, PumpEnds, clientVars, peerVars, requestVars, n
  <2>2. /\ read' \in [Sides -> 0..MaxFrames] /\ stopped' \subseteq Sides
        /\ got' \in [Sides -> Seq({"crlf", "data", "close"})]
    <3>1. CASE PumpEnds(s)
      BY <3>1 DEF PumpEnds, IInv, TypeOK
    <3>2. CASE Pump(s)
      <4> DEFINE frame == written[s][read[s] + 1]
      <4>1. /\ read \in [Sides -> 0..MaxFrames] /\ written[s] \in Seq({"data", "close"})
            /\ Len(written[s]) <= MaxFrames /\ read[s] < Len(written[s])
            /\ got \in [Sides -> Seq({"crlf", "data", "close"})]
        BY <3>2 DEF IInv, TypeOK, Bounded, Pump
      <4>2. frame \in {"data", "close"} /\ read[s] + 1 \in 0..MaxFrames
        BY <4>1, ConnectionAssumption
      <4>3. /\ read' = [read EXCEPT ![s] = read[s] + 1]
            /\ got' = [got EXCEPT ![Other(s)] = Append(got[Other(s)], frame)]
            /\ stopped' \in {stopped, stopped \cup {s}}
        BY <3>2 DEF Pump
      <4>4. Append(got[Other(s)], frame) \in Seq({"crlf", "data", "close"})
        BY <4>1, <4>2 DEF Other, Sides
      <4> QED
        BY <4>1, <4>2, <4>3, <4>4 DEF IInv, TypeOK
    <3> QED
      BY <1>4, <3>1, <3>2
  <2>3. TypeOK'
    BY <2>1, <2>2 DEF IInv, TypeOK
  <2>4. Bounded'
    BY <2>1 DEF IInv, Bounded, Before
  <2>5. slip' = {} => Placed' /\ AllWhole'
    BY <2>1 DEF IInv, Placed, AllWhole, Whole, Before, ContentLength
  <2> QED
    BY <2>3, <2>4, <2>5 DEF IInv
<1> QED
  BY <1>2, <1>3, <1>4

\* The invariant holds of every behaviour.
THEOREM Invariance == Spec => []IInv
<1>1. ASSUME IInv, [Next]_vars PROVE IInv'
  <2>1. CASE UNCHANGED vars
    BY <1>1, <2>1 DEF IInv, TypeOK, Bounded, Before, Placed, AllWhole, Whole, ContentLength, n,
                      vars, clientVars, peerVars, requestVars, relayVars
  <2>2. CASE Next
    BY <1>1, <2>2, PeersKeep, ReadHeadKeeps, ReadEndKeeps, ReadBodyKeeps, HandlerKeeps, RelayKeeps
    DEF Next, Handler
  <2> QED
    BY <1>1, <2>1, <2>2
<1> QED
  BY Start, <1>1, PTL DEF Spec

\* TypeOK, for every plan and any number of requests and frames.
THEOREM TypeCorrect == Spec => []TypeOK
<1>1. IInv => TypeOK
  BY DEF IInv
<1> QED
  BY Invariance, <1>1, PTL

\* As long as none of the four named things has happened, the requests passed
\* on are the client's, whole and in order, and so are its answers.
THEOREM StaysInStep == Spec => []InStep
<1>1. ASSUME IInv PROVE InStep
  <2>1. n \in Nat /\ replies \in Nat
    BY <1>1 DEF IInv, TypeOK, n
  <2>2. pc \in {"handshake", "upgraded", "head", "body", "forward",
               "dial", "greet", "relay", "closed"}
    BY <1>1 DEF IInv, TypeOK
  <2>3. ASSUME slip = {} PROVE replies <= n /\ n <= replies + 1
    BY <1>1, <2>1, <2>2, <2>3 DEF IInv, Placed
  <2> QED
    BY <1>1, <2>3 DEF IInv, AllWhole, InStep, n
<1> QED
  BY Invariance, <1>1, PTL
==============================================================================
