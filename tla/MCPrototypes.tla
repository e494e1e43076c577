---------------------------- MODULE MCPrototypes ----------------------------
(***************************************************************************)
(* Six programs that share nothing, one of which runs in a behaviour: the  *)
(* rounds of three validators of which one is byzantine, a daemon that may *)
(* crash twice, two socket peers, three gossiping processes, an epoch of   *)
(* three branches, and the acceptance of data objects.                     *)
(***************************************************************************)
EXTENDS Rounds, ValidatorDaemon, P2PSocketNode, GossipNode, ValidatorSim, DataValidator, TLC

VARIABLE program

MCValidators == {"v1", "v2", "v3"}
MCStake == [v \in MCValidators |-> IF v = "v3" THEN 1 ELSE 2]
MCRoster == <<"v1", "v2", "v3">>
\* Nothing in Rounds tells the blocks apart, and no property is temporal.
MCSymmetry == Permutations(Blocks)
MCMessages == {[height |-> 1, round |-> 0], [height |-> 1, round |-> 1],
               [height |-> 2, round |-> 0]}

Init ==
  /\ program \in {"rounds", "daemon", "peers", "gossip", "sim", "data"}
  /\ RoundsInit /\ DaemonInit /\ PeersInit /\ GossipInit /\ DataInit
  /\ IF program = "sim" THEN SimInit
     ELSE /\ roster = <<[stake |-> 1, active |-> TRUE]>> /\ scenario = "normal"
          /\ results = << >> /\ uptime = <<START_UPTIME>> /\ slashed = <<0>> /\ confirmed = 0

Next ==
  /\ UNCHANGED program
  /\ \/ /\ program = "rounds" /\ RoundsNext
        /\ UNCHANGED <<daemonVars, peersVars, gossipVars, simVars, dataVars>>
     \/ /\ program = "daemon" /\ DaemonNext
        /\ UNCHANGED <<roundsVars, peersVars, gossipVars, simVars, dataVars>>
     \/ /\ program = "peers" /\ PeersNext
        /\ UNCHANGED <<roundsVars, daemonVars, gossipVars, simVars, dataVars>>
     \/ /\ program = "gossip" /\ GossipNext
        /\ UNCHANGED <<roundsVars, daemonVars, peersVars, simVars, dataVars>>
     \/ /\ program = "sim" /\ SimNext
        /\ UNCHANGED <<roundsVars, daemonVars, peersVars, gossipVars, dataVars>>
     \/ /\ program = "data" /\ DataNext
        /\ UNCHANGED <<roundsVars, daemonVars, peersVars, gossipVars, simVars>>

Spec == Init /\ [][Next]_<<program, roundsVars, daemonVars, peersVars, gossipVars, simVars, dataVars>>
=============================================================================
