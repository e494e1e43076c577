--------------------------- MODULE P2PSocketNode ---------------------------
(***************************************************************************)
(* Nodes that dial each other over sockets and broadcast                   *)
(* (p2p_socket_node.js), each scoring its peers by the messages that come  *)
(* from them (peer_scoring.js).  A node keeps its sockets by name: the     *)
(* peer's when it has dialed, one it makes up when it has accepted, to     *)
(* which the first message adds the sender's.                              *)
(***************************************************************************)
EXTENDS Integers, Sequences, SequencesExt

CONSTANTS Peers,
          startScore, minScore, banScore, maxMessagesPerWindow, duplicatePenalty,
          invalidPenalty, stalePenalty, spamPenalty, goodMessageReward,
          MaxSockets, MaxMessages    \* bounds; the second for each node

ASSUME PeersAssumption ==
  /\ "made up" \notin Peers /\ IsFiniteSet(Peers)
  /\ {startScore, minScore, banScore, maxMessagesPerWindow} \subseteq Nat
  /\ {duplicatePenalty, invalidPenalty, stalePenalty, spamPenalty, goodMessageReward} \subseteq Nat
  /\ MaxSockets \in Nat /\ MaxMessages \in Nat

Sockets == 1..MaxSockets
Kinds == {"good", "stale", "invalid"}
PeerMessage == [from : Peers, id : 1..MaxMessages, kind : Kinds]

VARIABLES
  sockets,    \* the sockets dialed so far
  names,      \* the names a node keeps a socket under
  wire,       \* what is under way to a node over a socket
  made,       \* how many messages a node has made
  scores,     \* a node's record of each peer
  accepted    \* the messages a node has accepted, as <<from, id>>

peersVars == <<sockets, names, wire, made, scores, accepted>>

PeersTypeOK ==
  /\ sockets \in Seq([dialer : Peers, acceptor : Peers, phase : {"dialed", "open", "closed"}])
  /\ Len(sockets) <= MaxSockets
  /\ names \in [Peers -> [Sockets -> SUBSET (Peers \cup {"made up"})]]
  /\ wire \in [Peers -> [Sockets -> Seq(PeerMessage)]]
  /\ made \in [Peers -> 0..MaxMessages]
  /\ scores \in [Peers -> [Peers -> [score : Int, banned : BOOLEAN,
                 seenMessages : SUBSET (1..MaxMessages), messageCount : Nat]]]
  /\ accepted \in [Peers -> Seq(Peers \X (1..MaxMessages))]

\* A record exists as soon as it is asked for.
NewPeer == [score |-> startScore, banned |-> FALSE, seenMessages |-> {}, messageCount |-> 0]

PeersInit ==
  /\ sockets = << >>
  /\ names = [n \in Peers |-> [s \in Sockets |-> {}]]
  /\ wire = [n \in Peers |-> [s \in Sockets |-> << >>]]
  /\ made = [n \in Peers |-> 0]
  /\ scores = [n \in Peers |-> [p \in Peers |-> NewPeer]]
  /\ accepted = [n \in Peers |-> << >>]

Ends(s) == {sockets[s].dialer, sockets[s].acceptor}
Known(n) == UNION {names[n][s] : s \in Sockets}

Make(n) == made[n] < MaxMessages /\ made' = [made EXCEPT ![n] = @ + 1]
NewMessage(n, kind) == [from |-> n, id |-> made[n] + 1, kind |-> kind]

\* The name of the peer moves to the new socket, whichever it stood for.
Connect(n, p) ==
  /\ n # p /\ Len(sockets) < MaxSockets
  /\ Make(n)
  /\ LET new == Len(sockets) + 1
     IN  /\ sockets' = Append(sockets, [dialer |-> n, acceptor |-> p, phase |-> "dialed"])
         /\ names' = [names EXCEPT ![n] =
                        [s \in Sockets |-> IF s = new THEN {p} ELSE @[s] \ {p}]]
         /\ wire' = [wire EXCEPT ![p][new] = <<NewMessage(n, "good")>>]
  /\ UNCHANGED <<scores, accepted>>

Accept(s) ==
  /\ s \in DOMAIN sockets /\ sockets[s].phase = "dialed"
  /\ sockets' = [sockets EXCEPT ![s].phase = "open"]
  /\ names' = [names EXCEPT ![sockets[s].acceptor][s] = {"made up"}]
  /\ UNCHANGED <<wire, made, scores, accepted>>

\* A message is written once for every name that is not banned, and a name that
\* was made up is not.
Copies(n, s, m) == [i \in 1..Cardinality({p \in names[n][s] :
                                 p = "made up" \/ ~scores[n][p].banned}) |-> m]

Broadcast(n, kind) ==
  /\ Known(n) # {}
  /\ Make(n)
  /\ wire' = [p \in Peers |-> [s \in Sockets |->
       IF s \in DOMAIN sockets /\ sockets[s].phase # "closed" /\ Ends(s) = {n, p} /\ p # n
       THEN wire[p][s] \o Copies(n, s, NewMessage(n, kind))
       ELSE wire[p][s]]]
  /\ UNCHANGED <<sockets, names, scores, accepted>>

penalize(p, amount) ==
  LET score == IF p.score - amount < minScore THEN minScore ELSE p.score - amount
  IN  [p EXCEPT !.score = score, !.banned = @ \/ score <= banScore]

reward(p) ==
  [p EXCEPT !.score = IF @ + goodMessageReward > startScore THEN startScore
                                                            ELSE @ + goodMessageReward]

\* Mutant: a new window forgets the messages
AcceptForgetting(p, m, count) ==
  LET counted == [p EXCEPT !.messageCount = count + 1]
      listed == [counted EXCEPT !.seenMessages = IF count = 0 THEN {m.id} ELSE @ \cup {m.id}]
  IN  IF p.banned THEN p
      ELSE IF m.kind = "invalid" THEN penalize(p, invalidPenalty)
      ELSE IF counted.messageCount > maxMessagesPerWindow THEN penalize(counted, spamPenalty)
      ELSE IF m.id \in p.seenMessages THEN penalize(counted, duplicatePenalty)
      ELSE IF m.kind = "stale" THEN penalize(listed, stalePenalty)
      ELSE reward(listed)

\* The record after a message, counted on from count.
acceptMessage(p, m, count) ==
  LET counted == [p EXCEPT !.messageCount = count + 1]
      listed == [counted EXCEPT !.seenMessages = @ \cup {m.id}]
  IN  IF p.banned THEN p
      ELSE IF m.kind = "invalid" THEN penalize(p, invalidPenalty)
      ELSE IF counted.messageCount > maxMessagesPerWindow THEN penalize(counted, spamPenalty)
      ELSE IF m.id \in p.seenMessages THEN penalize(counted, duplicatePenalty)
      ELSE IF m.kind = "stale" THEN penalize(listed, stalePenalty)
      ELSE reward(listed)

IsAccepted(p, m, count) ==
  /\ ~p.banned /\ m.kind = "good"
  /\ count < maxMessagesPerWindow
  /\ m.id \notin p.seenMessages

\* The count starts anew when the time of a window has passed.
Receive(n, s) ==
  /\ s \in DOMAIN sockets /\ sockets[s].phase = "open"
  /\ wire[n][s] # << >>
  /\ LET m == Head(wire[n][s])
         p == scores[n][m.from]
     IN  \E count \in {0, p.messageCount} :
           /\ scores' = [scores EXCEPT ![n][m.from] = acceptMessage(p, m, count)]
           /\ accepted' = IF IsAccepted(p, m, count)
                          THEN [accepted EXCEPT ![n] = Append(@, <<m.from, m.id>>)]
                          ELSE accepted
           /\ names' = IF m.from \in Known(n) THEN names
                       ELSE [names EXCEPT ![n][s] = @ \cup {m.from}]
  /\ wire' = [wire EXCEPT ![n][s] = Tail(@)]
  /\ UNCHANGED <<sockets, made>>

\* What is under way is lost.  Each end drops the names once it is told.
Close(s) ==
  /\ s \in DOMAIN sockets /\ sockets[s].phase = "open"
  /\ sockets' = [sockets EXCEPT ![s].phase = "closed"]
  /\ wire' = [n \in Peers |-> [wire[n] EXCEPT ![s] = << >>]]
  /\ UNCHANGED <<names, made, scores, accepted>>

HandleClose(n, s) ==
  /\ s \in DOMAIN sockets /\ sockets[s].phase = "closed"
  /\ names[n][s] # {}
  /\ names' = [names EXCEPT ![n][s] = {}]
  /\ UNCHANGED <<sockets, wire, made, scores, accepted>>

PeersNext ==
  \/ \E n, p \in Peers : Connect(n, p)
  \/ \E n \in Peers, kind \in Kinds : Broadcast(n, kind)
  \/ \E s \in Sockets :
       \/ Accept(s)
       \/ Close(s)
       \/ \E n \in Peers : Receive(n, s) \/ HandleClose(n, s)

PeersSpec == PeersInit /\ [][PeersNext]_peersVars
-----------------------------------------------------------------------------
\* A message is accepted once, although an acceptor keeps a socket under two names
\* and writes every broadcast to it twice, nodes are connected by several sockets,
\* and the count of messages starts anew every window.
AcceptedAtMostOnce == \A n \in Peers : IsInjective(accepted[n])
=============================================================================
