----------------------------- MODULE GossipNode -----------------------------
(***************************************************************************)
(* Processes that pass gossip on (gossip_node.js).  A process listens, and *)
(* then may dial one that listens, itself and one that dials it included.  *)
(* It says hello and later gossips over that socket.  A socket is named by *)
(* the process that has dialed it.  Nothing keeps what has been passed on  *)
(* already.                                                                *)
(***************************************************************************)
EXTENDS Naturals, Sequences

CONSTANTS Processes,
          NoPeer,     \* the peer of a process that has dialed none
          MaxHeard    \* bound on the gossip a process hears

HELLO == "HELLO"

ASSUME GossipAssumption ==
  NoPeer \notin Processes /\ HELLO \notin Processes /\ MaxHeard \in Nat

VARIABLES
  started, stopped,
  peer,       \* whom a process has dialed
  gossiped,   \* the processes that have sent their own gossip
  helloed,    \* the dialers a process has heard from, its peers
  up, down,   \* what is under way over a socket to the dialed and to the dialer
  heard       \* the gossip a process has received, by who it is from

gossipVars == <<started, stopped, peer, gossiped, helloed, up, down, heard>>

GossipTypeOK ==
  /\ started \subseteq Processes /\ stopped \subseteq started
  /\ peer \in [Processes -> Processes \cup {NoPeer}]
  /\ gossiped \subseteq started
  /\ helloed \in [Processes -> SUBSET Processes]
  /\ up \in [Processes -> Seq(Processes \cup {HELLO})]
  /\ down \in [Processes -> Seq(Processes)]
  /\ heard \in [Processes -> Seq(Processes)]

GossipInit ==
  /\ started = {} /\ stopped = {} /\ gossiped = {}
  /\ peer = [n \in Processes |-> NoPeer]
  /\ helloed = [n \in Processes |-> {}]
  /\ up = [n \in Processes |-> << >>]
  /\ down = up /\ heard = up

Running == started \ stopped
Dialers(n) == {d \in Running : peer[d] = n}

StartProcess(n) ==
  /\ n \notin started
  /\ started' = started \cup {n}
  /\ UNCHANGED <<stopped, peer, gossiped, helloed, up, down, heard>>

\* Meanwhile others may have dialed n, p among them.
Dial(n, p) ==
  /\ n \in Running /\ peer[n] = NoPeer
  /\ p \in Running
  /\ peer' = [peer EXCEPT ![n] = p]
  /\ up' = [up EXCEPT ![n] = <<HELLO>>]
  /\ UNCHANGED <<started, stopped, gossiped, helloed, down, heard>>

\* What is sent to a process that has ended is lost.
Gossip(n) ==
  /\ n \in Running \ gossiped /\ peer[n] # NoPeer
  /\ gossiped' = gossiped \cup {n}
  /\ up' = [up EXCEPT ![n] = Append(@, n)]
  /\ UNCHANGED <<started, stopped, peer, helloed, down, heard>>

\* Mutant: it goes back to where it came from
BroadcastToAll(n, msg, source) ==
  [d \in Processes |-> IF d \in helloed[n] \cap Running THEN Append(down[d], msg) ELSE down[d]]

\* down after n has passed msg on to its peers except over the socket of source, which
\* is NoPeer when msg came over the socket n has dialed itself.
broadcast(n, msg, source) ==
  [d \in Processes |-> IF d \in helloed[n] \cap Running /\ d # source
                       THEN Append(down[d], msg) ELSE down[d]]

\* The dialed process handles what its dialer d has sent.
HandleUp(d) ==
  /\ up[d] # << >> /\ peer[d] \in Running
  /\ up' = [up EXCEPT ![d] = Tail(@)]
  /\ LET n == peer[d]
         msg == Head(up[d])
     IN  \/ /\ msg = HELLO
            /\ helloed' = [helloed EXCEPT ![n] = @ \cup {d}]
            /\ UNCHANGED <<down, heard>>
         \/ /\ msg # HELLO /\ Len(heard[n]) < MaxHeard
            /\ heard' = [heard EXCEPT ![n] = Append(@, msg)]
            /\ down' = broadcast(n, msg, d)
            /\ UNCHANGED helloed
  /\ UNCHANGED <<started, stopped, peer, gossiped>>

\* The dialer handles what comes over the socket it has dialed.
HandleDown(d) ==
  /\ down[d] # << >> /\ Len(heard[d]) < MaxHeard
  /\ heard' = [heard EXCEPT ![d] = Append(@, Head(down[d]))]
  /\ down' = [broadcast(d, Head(down[d]), NoPeer) EXCEPT ![d] = Tail(@)]
  /\ UNCHANGED <<started, stopped, peer, gossiped, helloed, up>>

\* What is under way to a process that ends is lost.
End(n) ==
  /\ stopped' = stopped \cup {n}
  /\ down' = [down EXCEPT ![n] = << >>]
  /\ UNCHANGED <<started, peer, gossiped, helloed, up, heard>>

\* A process ends once no dialer is connected; one that has dialed itself never does.
Shutdown(n) == n \in Running /\ Dialers(n) = {} /\ End(n)

\* No error of a socket is handled: a dial to where nobody listens ends the process,
\* and so may a connection whose other end is gone.
Fail(n) ==
  /\ n \in Running
  /\ peer[n] \in stopped \cup {NoPeer} \/ \E d \in stopped : peer[d] = n
  /\ End(n)

GossipNext ==
  \E n \in Processes :
    \/ StartProcess(n)
    \/ \E p \in Processes : Dial(n, p)
    \/ Gossip(n)
    \/ HandleUp(n)
    \/ HandleDown(n)
    \/ Shutdown(n)
    \/ Fail(n)

GossipSpec == GossipInit /\ [][GossipNext]_gossipVars
-----------------------------------------------------------------------------
\* n is no member of a ring of processes that have dialed each other, but has dialed one.
DialedARing(n) ==
  \E ring \in SUBSET Processes : {peer[c] : c \in ring} = ring /\ peer[n] \in ring /\ n \notin ring

\* Although nobody remembers what has been passed on, a process hears another's gossip
\* once, and its own only if it has dialed itself.  What keeps gossip from going round,
\* in a ring too, is that it is passed on to dialers only and not over the socket it came
\* from; so the gossip of one outside that has dialed into a ring is the exception.
GossipAtMostOnce ==
  \A n \in Processes : \A i \in DOMAIN heard[n] :
    LET m == heard[n][i]
    IN  DialedARing(m) \/ /\ \A j \in DOMAIN heard[n] : heard[n][j] = m => j = i
                          /\ m = n => peer[n] = n
=============================================================================
