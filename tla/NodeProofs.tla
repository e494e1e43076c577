----------------------------- MODULE NodeProofs -----------------------------
(***************************************************************************)
(* The node's parts and prototypes that keep state of their own, for any   *)
(* messages, peers, rosters and bounds: the daemon's log agrees with its   *)
(* position through crashes, a peer's message is accepted once, an         *)
(* accepted dataset never changes its content, gossip goes round only when *)
(* it comes from outside a ring of dials, a draw by stake is fair and each *)
(* timeout but the first is paid for.                                      *)
(***************************************************************************)
EXTENDS ValidatorDaemon, P2PSocketNode, DataValidator, GossipNode, ValidatorSim, FiniteSums

-----------------------------------------------------------------------------
\* The daemon.  What it is doing decides how far its memory is ahead of the file.
MemoryIsBehindNothing ==
  /\ pc = "idle" => state = savedState
  /\ pc = "persisting" => /\ state.height = savedState.height
                          /\ state.round = savedState.round
                          /\ state.processedMessages = savedState.processedMessages
  /\ pc = "accepting" => /\ state.height = handling[1].height
                         /\ state.round = handling[1].round
                         /\ ~Stale(state, savedState)
                         /\ state.processedMessages = savedState.processedMessages + 1
  /\ pc = "appending" => /\ state = savedState
                         /\ state.height = handling[1].height
                         /\ state.round = handling[1].round

Unlogged == IF pc = "appending" THEN 1 ELSE 0

LogIsCounted ==
  torn = {} =>
    /\ Len(messageLog) + Unlogged <= savedState.processedMessages
    /\ savedState.processedMessages <= Len(messageLog) + crashes + Unlogged

DaemonInv == DaemonTypeOK /\ MemoryIsBehindNothing /\ LogIsOrdered /\ LogIsCounted

\* Positions are ordered by height, then round.
LEMMA StaleIsAnOrder ==
  ASSUME NEW a, NEW b, NEW c,
         a.height \in Nat, a.round \in Nat, b.height \in Nat, b.round \in Nat,
         c.height \in Nat, c.round \in Nat
  PROVE  /\ ~Stale(a, a)
         /\ ~Stale(a, b) /\ ~Stale(b, c) => ~Stale(a, c)
BY DEF Stale

\* Staleness looks at nothing but the position.
LEMMA StaleLooksAtPositions ==
  ASSUME NEW a, NEW b, NEW m, a.height = b.height, a.round = b.round
  PROVE  /\ Stale(a, m) <=> Stale(b, m)
         /\ Stale(m, a) <=> Stale(m, b)
BY DEF Stale

\* Whatever of the daemon's position is compared is a number.
LEMMA PositionsAreNumbers ==
  ASSUME DaemonTypeOK
  PROVE  /\ state.height \in Nat /\ state.round \in Nat /\ state.processedMessages \in Nat
         /\ savedState.height \in Nat /\ savedState.round \in Nat
         /\ savedState.processedMessages \in Nat
         /\ \A m \in Messages : m.height \in Nat /\ m.round \in Nat
         /\ \A i \in 1..Len(messageLog) : messageLog[i] \in Messages
         /\ crashes \in Nat /\ Len(messageLog) \in Nat
<1>1. \A s \in DaemonState : s.height \in Nat /\ s.round \in Nat /\ s.processedMessages \in Nat
  BY DEF DaemonState
<1>2. \A m \in Messages : m.height \in Nat /\ m.round \in Nat BY DaemonAssumption
<1>3. crashes \in Nat BY DaemonAssumption DEF DaemonTypeOK
<1>4. QED BY <1>1, <1>2, <1>3 DEF DaemonTypeOK

LEMMA DaemonInvInitially == DaemonInit => DaemonInv
<1>1. SUFFICES ASSUME DaemonInit PROVE DaemonInv OBVIOUS
<1>2. DaemonTypeOK
  BY <1>1, DaemonAssumption DEF DaemonInit, DaemonTypeOK, DaemonState, FreshState
<1>3. MemoryIsBehindNothing BY <1>1 DEF DaemonInit, MemoryIsBehindNothing
<1>4. LogIsOrdered BY <1>1 DEF DaemonInit, LogIsOrdered
<1>5. LogIsCounted
  BY <1>1 DEF DaemonInit, LogIsCounted, Unlogged, FreshState
<1>6. QED BY <1>2, <1>3, <1>4, <1>5 DEF DaemonInv

\* A step of the network that leaves the process and its files alone.
LEMMA NetworkPreserves ==
  ASSUME DaemonInv, DaemonTypeOK', UNCHANGED <<process, disk, crashes>>
  PROVE  DaemonInv'
<1>1. MemoryIsBehindNothing' BY DEF DaemonInv, MemoryIsBehindNothing, process, disk, Stale
<1>2. LogIsOrdered' BY DEF DaemonInv, LogIsOrdered, disk, Stale
<1>3. LogIsCounted' BY DEF DaemonInv, LogIsCounted, Unlogged, process, disk
<1>4. QED BY <1>1, <1>2, <1>3 DEF DaemonInv

LEMMA SendPreserves ==
  ASSUME DaemonInv, NEW m \in Messages, NEW delay \in 0..MaxDelay, Send(m, delay)
  PROVE  DaemonInv'
<1>1. [id |-> sends + 1, message |-> m, delay |-> delay] \in Envelope
  BY DaemonAssumption DEF Envelope, Send, DaemonInv, DaemonTypeOK
<1>2. DaemonTypeOK'
  BY <1>1, DaemonAssumption DEF DaemonInv, DaemonTypeOK, Send, disk, process
<1>3. QED BY <1>2, NetworkPreserves DEF Send

LEMMA TickPreserves ==
  ASSUME DaemonInv, Tick
  PROVE  DaemonInv'
<1>1. \A e \in Envelope : e.delay > 1 => [e EXCEPT !.delay = @ - 1] \in Envelope
  BY DaemonAssumption DEF Envelope
<1>2. queue' \subseteq Envelope BY <1>1 DEF Tick, DaemonInv, DaemonTypeOK
<1>3. due' \subseteq Envelope BY DEF Tick, DaemonInv, DaemonTypeOK
<1>4. DaemonTypeOK' BY <1>2, <1>3 DEF DaemonInv, DaemonTypeOK, Tick, disk, process
<1>5. QED BY <1>4, NetworkPreserves DEF Tick

\* The process comes up at the position that was saved.
LEMMA ConstructPreserves ==
  ASSUME DaemonInv, Construct
  PROVE  DaemonInv'
<1>1. DaemonTypeOK' BY DEF DaemonInv, DaemonTypeOK, Construct, disk, network
<1>2. MemoryIsBehindNothing'
  BY DEF DaemonInv, MemoryIsBehindNothing, Construct, disk
<1>3. LogIsOrdered' BY DEF DaemonInv, LogIsOrdered, Construct, disk, Stale
<1>4. LogIsCounted' BY DEF DaemonInv, LogIsCounted, Unlogged, Construct, disk
<1>5. QED BY <1>1, <1>2, <1>3, <1>4 DEF DaemonInv

LEMMA SetRunningPreserves ==
  ASSUME DaemonInv, NEW running \in BOOLEAN, SetRunning(running)
  PROVE  DaemonInv'
<1>1. /\ pc = "idle" /\ pc' = "persisting" /\ state = savedState
      /\ state' = [state EXCEPT !.running = running]
  BY DEF DaemonInv, MemoryIsBehindNothing, SetRunning
<1>2. state' \in DaemonState BY <1>1 DEF DaemonInv, DaemonTypeOK, DaemonState
<1>3. /\ state'.height = state.height /\ state'.round = state.round
      /\ state'.processedMessages = state.processedMessages
  BY <1>1 DEF DaemonInv, DaemonTypeOK, DaemonState
<1>4. DaemonTypeOK' BY <1>1, <1>2 DEF DaemonInv, DaemonTypeOK, SetRunning, disk, network
<1>5. MemoryIsBehindNothing'
  BY <1>1, <1>3 DEF MemoryIsBehindNothing, SetRunning, disk
<1>6. LogIsOrdered' BY DEF DaemonInv, LogIsOrdered, SetRunning, disk, Stale
<1>7. LogIsCounted' BY <1>1 DEF DaemonInv, LogIsCounted, Unlogged, SetRunning, disk
<1>8. QED BY <1>4, <1>5, <1>6, <1>7 DEF DaemonInv

\* A message that is taken is not older than what is saved.
LEMMA HandleMessagePreserves ==
  ASSUME DaemonInv, HandleMessage
  PROVE  DaemonInv'
<1>1. PICK e \in due :
        /\ due' = due \ {e}
        /\ \/ UNCHANGED process
           \/ /\ ~Stale(e.message, state)
              /\ state' = [state EXCEPT !.height = e.message.height, !.round = e.message.round,
                                        !.processedMessages = @ + 1]
              /\ pc' = "accepting" /\ handling' = <<e.message>>
  BY DEF HandleMessage
<1>2. /\ pc = "idle" /\ state = savedState
      /\ UNCHANGED <<disk, queue, sends, crashes>>
  BY DEF DaemonInv, MemoryIsBehindNothing, HandleMessage
<1>3. CASE UNCHANGED process
  <2>1. DaemonTypeOK' BY <1>1, <1>2, <1>3 DEF DaemonInv, DaemonTypeOK, disk, process
  <2>2. QED BY <1>2, <1>3, <2>1, NetworkPreserves
<1>4. CASE /\ ~Stale(e.message, state)
           /\ state' = [state EXCEPT !.height = e.message.height, !.round = e.message.round,
                                     !.processedMessages = @ + 1]
           /\ pc' = "accepting" /\ handling' = <<e.message>>
  <2>1. e.message \in Messages BY DEF DaemonInv, DaemonTypeOK, Envelope
  <2>2. e.message.height \in Nat /\ e.message.round \in Nat BY <2>1, DaemonAssumption
  <2>3. /\ state' \in DaemonState
        /\ state'.height = e.message.height /\ state'.round = e.message.round
        /\ state'.processedMessages = state.processedMessages + 1
    <3> DEFINE moved == [state EXCEPT !.height = e.message.height]
               placed == [moved EXCEPT !.round = e.message.round]
    <3>1. /\ moved \in DaemonState /\ moved.height = e.message.height
          /\ moved.processedMessages = state.processedMessages
      BY <2>2 DEF DaemonInv, DaemonTypeOK, DaemonState
    <3>2. /\ placed \in DaemonState
          /\ placed.height = e.message.height /\ placed.round = e.message.round
          /\ placed.processedMessages = state.processedMessages
      <4> HIDE DEF moved
      <4>1. QED BY <2>2, <3>1 DEF DaemonState
    <3>3. state' = [placed EXCEPT !.processedMessages = state.processedMessages + 1] BY <1>4
    <3>4. state.processedMessages \in Nat BY PositionsAreNumbers DEF DaemonInv
    <3>5. QED
      <4> HIDE DEF placed
      <4>1. QED BY <3>2, <3>3, <3>4 DEF DaemonState
  <2>4. DaemonTypeOK'
    BY <1>1, <1>2, <1>4, <2>1, <2>3 DEF DaemonInv, DaemonTypeOK, disk
  <2>5. ~Stale(state', savedState')
    BY <1>2, <1>4, <2>3 DEF disk, Stale
  <2>6. MemoryIsBehindNothing'
    BY <1>2, <1>4, <2>3, <2>5 DEF MemoryIsBehindNothing, disk
  <2>7. LogIsOrdered' BY <1>2 DEF DaemonInv, LogIsOrdered, disk, Stale
  <2>8. LogIsCounted' BY <1>2, <1>4 DEF DaemonInv, LogIsCounted, Unlogged, disk
  <2>9. QED BY <2>4, <2>6, <2>7, <2>8 DEF DaemonInv
<1>5. QED BY <1>1, <1>3, <1>4

\* The file moves to a position that is not older, so not older than the log either.
LEMMA PersistPreserves ==
  ASSUME DaemonInv, Persist
  PROVE  DaemonInv'
<1>1. /\ savedState' = state /\ state' = state /\ handling' = handling
      /\ messageLog' = messageLog /\ torn' = torn /\ crashes' = crashes
      /\ pc \in {"persisting", "accepting"}
      /\ pc' = IF pc = "accepting" THEN "appending" ELSE "idle"
      /\ UNCHANGED network
  BY DEF Persist
<1>2. DaemonTypeOK' BY <1>1 DEF DaemonInv, DaemonTypeOK, network
<1>3. MemoryIsBehindNothing' BY <1>1 DEF DaemonInv, MemoryIsBehindNothing
<1>4. ~Stale(state, savedState)
  BY <1>1, PositionsAreNumbers DEF DaemonInv, MemoryIsBehindNothing, Stale
<1>5. LogIsOrdered'
  <2>1. ASSUME NEW i \in 1..Len(messageLog) PROVE ~Stale(state, messageLog[i])
    <3>1. ~Stale(savedState, messageLog[i]) BY DEF DaemonInv, LogIsOrdered
    <3>2. messageLog[i].height \in Nat /\ messageLog[i].round \in Nat
      BY PositionsAreNumbers DEF DaemonInv
    <3>3. QED BY <1>4, <3>1, <3>2, StaleIsAnOrder, PositionsAreNumbers DEF DaemonInv
  <2>2. QED BY <1>1, <2>1 DEF DaemonInv, LogIsOrdered, Stale
<1>6. LogIsCounted'
  BY <1>1, PositionsAreNumbers DEF DaemonInv, MemoryIsBehindNothing, LogIsCounted, Unlogged
<1>7. QED BY <1>2, <1>3, <1>5, <1>6 DEF DaemonInv

\* What is appended is at the position that was saved.
LEMMA AppendToLogPreserves ==
  ASSUME DaemonInv, AppendToLog
  PROVE  DaemonInv'
<1>1. PICK m \in Messages : handling = <<m>>
  BY DEF DaemonInv, DaemonTypeOK, AppendToLog
<1>2. /\ pc = "appending" /\ pc' = "idle" /\ handling' = << >>
      /\ state' = state /\ savedState' = savedState /\ torn' = torn /\ crashes' = crashes
      /\ UNCHANGED network
      /\ messageLog \in Seq(Messages)
      /\ messageLog' = messageLog \o <<m>>
  BY <1>1 DEF AppendToLog, DaemonInv, DaemonTypeOK
<1>3. /\ messageLog' \in Seq(Messages) /\ Len(messageLog') = Len(messageLog) + 1
      /\ \A i \in 1..Len(messageLog) : messageLog'[i] = messageLog[i]
      /\ messageLog'[Len(messageLog) + 1] = m
  BY <1>2
<1>4. state = savedState /\ savedState.height = m.height /\ savedState.round = m.round
  BY <1>1, <1>2 DEF DaemonInv, MemoryIsBehindNothing
<1>5. DaemonTypeOK' BY <1>2, <1>3 DEF DaemonInv, DaemonTypeOK, network
<1>6. MemoryIsBehindNothing' BY <1>2, <1>4 DEF MemoryIsBehindNothing
<1>7. LogIsOrdered'
  <2>1. m.height \in Nat /\ m.round \in Nat BY DaemonAssumption
  <2>2. ASSUME NEW i \in 1..Len(messageLog') PROVE ~Stale(m, messageLog'[i])
    <3>1. CASE i \in 1..Len(messageLog)
      BY <3>1, <1>3, <1>4, StaleLooksAtPositions DEF DaemonInv, LogIsOrdered
    <3>2. CASE i = Len(messageLog) + 1 BY <3>2, <1>3, <2>1, StaleIsAnOrder
    <3>3. QED BY <3>1, <3>2, <1>3, PositionsAreNumbers DEF DaemonInv
  <2>3. ASSUME NEW j \in 1..Len(messageLog'), NEW i \in 1..j
        PROVE  ~Stale(messageLog'[j], messageLog'[i])
    <3>1. CASE j \in 1..Len(messageLog)
      <4>1. i \in 1..Len(messageLog) BY <3>1, PositionsAreNumbers DEF DaemonInv
      <4>2. QED BY <3>1, <4>1, <1>3 DEF DaemonInv, LogIsOrdered
    <3>2. CASE j = Len(messageLog) + 1 BY <3>2, <1>3, <2>2
    <3>3. QED BY <3>1, <3>2, <1>3, PositionsAreNumbers DEF DaemonInv
  <2>4. QED BY <1>2, <1>4, <2>2, <2>3, StaleLooksAtPositions DEF LogIsOrdered
<1>8. LogIsCounted'
  BY <1>2, <1>3, PositionsAreNumbers DEF DaemonInv, LogIsCounted, Unlogged
<1>9. QED BY <1>5, <1>6, <1>7, <1>8 DEF DaemonInv

\* The process ends on a log that cannot be parsed: the files stay as they are.
LEMMA AppendThrowsPreserves ==
  ASSUME DaemonInv, AppendThrows
  PROVE  DaemonInv'
<1>1. DaemonTypeOK' BY DEF DaemonInv, DaemonTypeOK, AppendThrows, disk
<1>2. MemoryIsBehindNothing' BY DEF MemoryIsBehindNothing, AppendThrows
<1>3. LogIsOrdered' BY DEF DaemonInv, LogIsOrdered, AppendThrows, disk, Stale
<1>4. LogIsCounted' BY DEF DaemonInv, LogIsCounted, AppendThrows, disk
<1>5. QED BY <1>1, <1>2, <1>3, <1>4 DEF DaemonInv

\* A crash loses the entry that was to be appended, and is counted.
LEMMA CrashPreserves ==
  ASSUME DaemonInv, Crash
  PROVE  DaemonInv'
<1>1. /\ pc' = "down" /\ handling' = << >> /\ due' = {}
      /\ crashes < MaxCrashes /\ crashes' = crashes + 1
      /\ state' = state /\ savedState' = savedState /\ messageLog' = messageLog
      /\ queue' = queue /\ sends' = sends
      /\ torn \subseteq torn' /\ torn' \subseteq torn \cup BeingWritten
  BY DEF Crash
<1>2. DaemonTypeOK'
  BY <1>1, DaemonAssumption DEF DaemonInv, DaemonTypeOK, Files, BeingWritten
<1>3. MemoryIsBehindNothing' BY <1>1 DEF MemoryIsBehindNothing
<1>4. LogIsOrdered' BY <1>1 DEF DaemonInv, LogIsOrdered, Stale
<1>5. LogIsCounted'
  <2>1. torn' = {} => torn = {} BY <1>1
  <2>2. QED BY <1>1, <2>1, PositionsAreNumbers DEF DaemonInv, LogIsCounted, Unlogged
<1>6. QED BY <1>2, <1>3, <1>4, <1>5 DEF DaemonInv

LEMMA DaemonInvInductive ==
  ASSUME DaemonInv, [DaemonNext]_daemonVars
  PROVE  DaemonInv'
<1>1. CASE UNCHANGED daemonVars
  <2>1. DaemonTypeOK' BY <1>1 DEF DaemonInv, DaemonTypeOK, daemonVars, process
  <2>2. QED BY <1>1, <2>1, NetworkPreserves DEF daemonVars, disk
<1>2. CASE Start \/ Stop BY <1>2, SetRunningPreserves DEF Start, Stop
<1>3. QED
  BY <1>1, <1>2, SendPreserves, TickPreserves, ConstructPreserves, HandleMessagePreserves,
     PersistPreserves, AppendToLogPreserves, AppendThrowsPreserves, CrashPreserves
  DEF DaemonNext

LEMMA DaemonAlways == DaemonSpec => []DaemonInv
BY DaemonInvInitially, DaemonInvInductive, PTL DEF DaemonSpec

\* The daemon's log is in order, however messages overtake each other and whenever the
\* process is killed.
THEOREM LogStaysOrdered == DaemonSpec => []LogIsOrdered
<1>1. DaemonInv => LogIsOrdered BY DEF DaemonInv
<1>2. QED BY <1>1, DaemonAlways, PTL

\* A crash between the two writes of a message costs the log that one entry.  It is said
\* of files that can be parsed: a crash within a write leaves one that cannot.
THEOREM CrashesLoseOneEntry == DaemonSpec => []CrashLosesOneEntry
<1>1. DaemonInv => CrashLosesOneEntry
  BY PositionsAreNumbers DEF DaemonInv, LogIsCounted, CrashLosesOneEntry, Unlogged
<1>2. QED BY <1>1, DaemonAlways, PTL

-----------------------------------------------------------------------------
\* The data layer: what was accepted is remembered by its hash, and its dataset's
\* latest content is its own.
DataInv ==
  /\ acceptances \in Seq([object : ObjectHash, submitter : Submitters])
  /\ datasetLatest \in [Datasets -> Contents \cup {"none"}]
  /\ \A i \in 1..Len(acceptances) :
       /\ acceptances[i].object \in seenObjectHashes
       /\ datasetLatest[acceptances[i].object.datasetId] = acceptances[i].object.contentHash
  /\ DatasetsNeverChange

LEMMA DataInvInductive ==
  ASSUME DataInv, NEW h \in ObjectHash, NEW submitter \in Submitters, NEW complete \in BOOLEAN,
         validateDataObject(h, submitter, complete)
  PROVE  DataInv'
<1> DEFINE a == [object |-> h, submitter |-> submitter]
<1>1. /\ h.datasetId \in Datasets /\ h.contentHash \in Contents
      /\ a \in [object : ObjectHash, submitter : Submitters] /\ a.object = h
  BY DEF ObjectHash
<1>2. /\ acceptances' = Append(acceptances, a) /\ h \notin seenObjectHashes
      /\ seenObjectHashes' = seenObjectHashes \cup {h}
      /\ datasetLatest[h.datasetId] \in {"none", h.contentHash}
      /\ datasetLatest' = [datasetLatest EXCEPT ![h.datasetId] = h.contentHash]
  BY DEF validateDataObject, Conflicting
<1>3. /\ acceptances' \in Seq([object : ObjectHash, submitter : Submitters])
      /\ Len(acceptances') = Len(acceptances) + 1 /\ Len(acceptances) \in Nat
      /\ \A i \in 1..Len(acceptances) : acceptances'[i] = acceptances[i]
      /\ acceptances'[Len(acceptances) + 1] = a
  <2> HIDE DEF a
  <2>1. QED BY <1>1, <1>2 DEF DataInv
<1>4. datasetLatest' \in [Datasets -> Contents \cup {"none"}]
  BY <1>1, <1>2 DEF DataInv
<1>5. ASSUME NEW i \in 1..Len(acceptances)
      PROVE  /\ acceptances[i].object \in ObjectHash /\ acceptances[i].object # h
             /\ acceptances[i].object \in seenObjectHashes
             /\ acceptances[i].object.datasetId \in Datasets
             /\ acceptances[i].object.contentHash \in Contents
             /\ datasetLatest[acceptances[i].object.datasetId] = acceptances[i].object.contentHash
             /\ acceptances[i].object.datasetId = h.datasetId
                  => acceptances[i].object.contentHash = h.contentHash
  <2>1. acceptances[i].object \in ObjectHash
    <3> DEFINE Accepted == [object : ObjectHash, submitter : Submitters]
    <3>1. acceptances \in Seq(Accepted) BY DEF DataInv
    <3>2. acceptances[i] \in Accepted
      <4> HIDE DEF Accepted
      <4>1. QED BY <3>1
    <3>3. QED BY <3>2
  <2>2. /\ acceptances[i].object.datasetId \in Datasets
        /\ acceptances[i].object.contentHash \in Contents
    BY <2>1 DEF ObjectHash
  <2>3. QED BY <1>2, <2>1, <2>2, DataAssumption DEF DataInv
<1>6. ASSUME NEW i \in 1..Len(acceptances')
      PROVE  /\ acceptances'[i].object \in seenObjectHashes'
             /\ datasetLatest'[acceptances'[i].object.datasetId]
                  = acceptances'[i].object.contentHash
  <2>1. CASE i \in 1..Len(acceptances) BY <2>1, <1>1, <1>2, <1>3, <1>5 DEF DataInv
  <2>2. CASE i = Len(acceptances) + 1 BY <2>2, <1>1, <1>2, <1>3 DEF DataInv
  <2>3. QED BY <2>1, <2>2, <1>3
<1>7. DatasetsNeverChange'
  <2>1. ASSUME NEW i \in 1..Len(acceptances'), NEW j \in 1..Len(acceptances')
        PROVE  /\ acceptances'[i].object = acceptances'[j].object => i = j
               /\ acceptances'[i].object.datasetId = acceptances'[j].object.datasetId
                    => acceptances'[i].object.contentHash = acceptances'[j].object.contentHash
    <3>1. CASE i \in 1..Len(acceptances) /\ j \in 1..Len(acceptances)
      BY <3>1, <1>3 DEF DataInv, DatasetsNeverChange
    <3>2. CASE i = Len(acceptances) + 1 /\ j \in 1..Len(acceptances)
      BY <3>2, <1>1, <1>3, <1>5
    <3>3. CASE i \in 1..Len(acceptances) /\ j = Len(acceptances) + 1
      BY <3>3, <1>1, <1>3, <1>5
    <3>4. CASE i = Len(acceptances) + 1 /\ j = Len(acceptances) + 1 BY <3>4
    <3>5. QED BY <3>1, <3>2, <3>3, <3>4, <1>3
  <2>2. QED BY <1>3, <2>1 DEF DatasetsNeverChange
<1>8. QED BY <1>3, <1>4, <1>6, <1>7 DEF DataInv

\* An accepted object is never accepted again, and never contradicted by another origin
\* or submitter, for any datasets, contents, origins and submitters.
THEOREM AcceptedDataIsFinal == DataSpec => []DatasetsNeverChange
<1>1. DataInit => DataInv
  BY DEF DataInit, DataInv, DatasetsNeverChange
<1>2. DataInv /\ [DataNext]_dataVars => DataInv'
  <2>1. SUFFICES ASSUME DataInv, [DataNext]_dataVars PROVE DataInv' OBVIOUS
  <2>2. CASE UNCHANGED dataVars
    BY <2>1, <2>2 DEF DataInv, DatasetsNeverChange, dataVars
  <2>3. CASE DataNext BY <2>1, <2>3, DataInvInductive DEF DataNext
  <2>4. QED BY <2>1, <2>2, <2>3
<1>3. DataInv => DatasetsNeverChange BY DEF DataInv
<1>4. QED BY <1>1, <1>2, <1>3, PTL DEF DataSpec

-----------------------------------------------------------------------------
\* The peers: what a node has accepted from a peer it remembers having seen.
AcceptedIsSeen ==
  \A n \in Peers : \A i \in 1..Len(accepted[n]) :
    accepted[n][i][2] \in scores[n][accepted[n][i][1]].seenMessages

PeersInv == PeersTypeOK /\ AcceptedIsSeen /\ AcceptedAtMostOnce

PeerRecord == [score : Int, banned : BOOLEAN, seenMessages : SUBSET (1..MaxMessages),
               messageCount : Nat]

LEMMA BoundsAreNumbers == MaxSockets \in Nat /\ MaxMessages \in Nat
BY PeersAssumption

LEMMA ScoringInNumbers ==
  /\ startScore \in Nat /\ minScore \in Nat /\ banScore \in Nat
  /\ maxMessagesPerWindow \in Nat /\ goodMessageReward \in Nat
  /\ duplicatePenalty \in Nat /\ invalidPenalty \in Nat
  /\ stalePenalty \in Nat /\ spamPenalty \in Nat
BY PeersAssumption

Socket == [dialer : Peers, acceptor : Peers, phase : {"dialed", "open", "closed"}]
Named == SUBSET (Peers \cup {"made up"})
Acceptance == Peers \X (1..MaxMessages)

LEMMA PeersTypes ==
  PeersTypeOK <=>
    /\ sockets \in Seq(Socket) /\ Len(sockets) <= MaxSockets
    /\ names \in [Peers -> [Sockets -> Named]]
    /\ wire \in [Peers -> [Sockets -> Seq(PeerMessage)]]
    /\ made \in [Peers -> 0..MaxMessages]
    /\ scores \in [Peers -> [Peers -> PeerRecord]]
    /\ accepted \in [Peers -> Seq(Acceptance)]
BY DEF PeersTypeOK, Socket, Named, Acceptance, PeerRecord

\* A record stays one, forgets no message, and lists those that are accepted.
LEMMA RecordsOnlyGrow ==
  ASSUME NEW p \in PeerRecord, NEW m \in PeerMessage, NEW count \in Nat
  PROVE  /\ acceptMessage(p, m, count) \in PeerRecord
         /\ p.seenMessages \subseteq acceptMessage(p, m, count).seenMessages
         /\ IsAccepted(p, m, count) => m.id \in acceptMessage(p, m, count).seenMessages
<1> DEFINE counted == [p EXCEPT !.messageCount = count + 1]
           listed == [counted EXCEPT !.seenMessages = @ \cup {m.id}]
<1>1. /\ counted \in PeerRecord /\ counted.seenMessages = p.seenMessages
      /\ counted.messageCount = count + 1
  BY DEF PeerRecord
<1>2. m.id \in 1..MaxMessages BY DEF PeerMessage
<1>3. listed \in PeerRecord /\ listed.seenMessages = p.seenMessages \cup {m.id}
  <2> HIDE DEF counted
  <2>1. QED BY <1>1, <1>2 DEF PeerRecord
<1>4. ASSUME NEW q \in PeerRecord, NEW amount \in Nat
      PROVE  penalize(q, amount) \in PeerRecord /\ penalize(q, amount).seenMessages = q.seenMessages
  <2> DEFINE score == IF q.score - amount < minScore THEN minScore ELSE q.score - amount
             scored == [q EXCEPT !.score = score]
  <2>1. q.score \in Int /\ q.banned \in BOOLEAN BY DEF PeerRecord
  <2>2. score \in Int BY <2>1, ScoringInNumbers
  <2> HIDE DEF score
  <2>3. scored \in PeerRecord /\ scored.seenMessages = q.seenMessages /\ scored.banned = q.banned
    BY <2>2 DEF PeerRecord
  <2>4. penalize(q, amount) = [scored EXCEPT !.banned = q.banned \/ score <= banScore]
    BY DEF penalize, score
  <2>5. QED
    <3> HIDE DEF scored
    <3>1. QED BY <2>1, <2>3, <2>4 DEF PeerRecord
<1>5. reward(listed) \in PeerRecord /\ reward(listed).seenMessages = listed.seenMessages
  <2> DEFINE score == IF listed.score + goodMessageReward > startScore THEN startScore
                      ELSE listed.score + goodMessageReward
  <2>1. reward(listed) = [listed EXCEPT !.score = score] BY DEF reward
  <2> HIDE DEF listed
  <2>2. listed.score \in Int BY <1>3 DEF PeerRecord
  <2>3. score \in Int BY <2>2, ScoringInNumbers
  <2> HIDE DEF score
  <2>4. QED BY <1>3, <2>1, <2>3 DEF PeerRecord
<1>7. acceptMessage(p, m, count) =
        IF p.banned THEN p
        ELSE IF m.kind = "invalid" THEN penalize(p, invalidPenalty)
        ELSE IF counted.messageCount > maxMessagesPerWindow THEN penalize(counted, spamPenalty)
        ELSE IF m.id \in p.seenMessages THEN penalize(counted, duplicatePenalty)
        ELSE IF m.kind = "stale" THEN penalize(listed, stalePenalty)
        ELSE reward(listed)
  BY DEF acceptMessage
<1> HIDE DEF counted, listed
<1>8. /\ acceptMessage(p, m, count) \in
           {p, penalize(p, invalidPenalty), penalize(counted, spamPenalty),
            penalize(counted, duplicatePenalty), penalize(listed, stalePenalty), reward(listed)}
      /\ IsAccepted(p, m, count) => acceptMessage(p, m, count) = reward(listed)
  BY <1>1, <1>7, ScoringInNumbers DEF IsAccepted
<1>9. \A r \in {p, penalize(p, invalidPenalty), penalize(counted, spamPenalty),
                penalize(counted, duplicatePenalty), penalize(listed, stalePenalty),
                reward(listed)} :
        r \in PeerRecord /\ p.seenMessages \subseteq r.seenMessages
  <2>1. /\ penalize(p, invalidPenalty) \in PeerRecord
        /\ penalize(p, invalidPenalty).seenMessages = p.seenMessages
    BY <1>4, ScoringInNumbers
  <2>2. /\ penalize(counted, spamPenalty) \in PeerRecord
        /\ penalize(counted, spamPenalty).seenMessages = p.seenMessages
        /\ penalize(counted, duplicatePenalty) \in PeerRecord
        /\ penalize(counted, duplicatePenalty).seenMessages = p.seenMessages
    BY <1>1, <1>4, ScoringInNumbers
  <2>3. /\ penalize(listed, stalePenalty) \in PeerRecord
        /\ penalize(listed, stalePenalty).seenMessages = listed.seenMessages
    BY <1>3, <1>4, ScoringInNumbers
  <2>4. QED BY <1>3, <1>5, <2>1, <2>2, <2>3
<1>10. QED BY <1>3, <1>5, <1>8, <1>9

LEMMA PeersInvInitially == PeersInit => PeersInv
<1>1. SUFFICES ASSUME PeersInit PROVE PeersInv OBVIOUS
<1>2. NewPeer \in PeerRecord BY ScoringInNumbers DEF NewPeer, PeerRecord
<1>3. PeersTypeOK
  <2>1. sockets \in Seq(Socket) /\ Len(sockets) <= MaxSockets
    BY <1>1, BoundsAreNumbers DEF PeersInit
  <2>2. names \in [Peers -> [Sockets -> Named]] BY <1>1 DEF PeersInit, Named
  <2>3. wire \in [Peers -> [Sockets -> Seq(PeerMessage)]] BY <1>1 DEF PeersInit
  <2>4. made \in [Peers -> 0..MaxMessages] BY <1>1, BoundsAreNumbers DEF PeersInit
  <2>5. scores \in [Peers -> [Peers -> PeerRecord]] BY <1>1, <1>2 DEF PeersInit
  <2>6. accepted \in [Peers -> Seq(Acceptance)] BY <1>1 DEF PeersInit
  <2>7. QED BY <2>1, <2>2, <2>3, <2>4, <2>5, <2>6, PeersTypes
<1>4. AcceptedIsSeen /\ AcceptedAtMostOnce
  BY <1>1 DEF PeersInit, AcceptedIsSeen, AcceptedAtMostOnce, IsInjective
<1>5. QED BY <1>3, <1>4 DEF PeersInv

\* Whatever leaves the records and the acceptances alone has only its types to keep.
LEMMA TransportPreserves ==
  ASSUME PeersInv, PeersTypeOK', UNCHANGED <<scores, accepted>>
  PROVE  PeersInv'
BY DEF PeersInv, AcceptedIsSeen, AcceptedAtMostOnce, IsInjective

LEMMA MadeMessages ==
  ASSUME PeersTypeOK, NEW n \in Peers, NEW kind \in Kinds, Make(n)
  PROVE  /\ NewMessage(n, kind) \in PeerMessage
         /\ made' \in [Peers -> 0..MaxMessages]
<1>1. made[n] \in 0..MaxMessages /\ made[n] < MaxMessages /\ MaxMessages \in Nat
  BY PeersAssumption DEF PeersTypeOK, Make
<1>2. made[n] + 1 \in 1..MaxMessages /\ made[n] + 1 \in 0..MaxMessages BY <1>1
<1>3. NewMessage(n, kind) \in PeerMessage BY <1>2 DEF NewMessage, PeerMessage
<1>4. made' = [made EXCEPT ![n] = made[n] + 1] BY DEF Make
<1>5. QED BY <1>2, <1>3, <1>4 DEF PeersTypeOK

LEMMA ConnectPreserves ==
  ASSUME PeersInv, NEW n \in Peers, NEW p \in Peers, Connect(n, p)
  PROVE  PeersInv'
<1> DEFINE new == Len(sockets) + 1
           dialed == [dialer |-> n, acceptor |-> p, phase |-> "dialed"]
           m == NewMessage(n, "good")
           renamed == [s \in Sockets |-> IF s = new THEN {p} ELSE names[n][s] \ {p}]
<1>1. PeersTypeOK BY DEF PeersInv
<1>2. /\ Len(sockets) < MaxSockets /\ Make(n) /\ UNCHANGED <<scores, accepted>>
      /\ sockets' = Append(sockets, dialed)
      /\ names' = [names EXCEPT ![n] = renamed]
      /\ wire' = [wire EXCEPT ![p][new] = <<m>>]
  BY DEF Connect
<1>3. dialed \in Socket BY DEF Socket
<1>4. MaxSockets \in Nat /\ sockets \in Seq(Socket) /\ Len(sockets) \in Nat
  <2>1. sockets \in Seq(Socket) BY <1>1, PeersTypes
  <2>2. QED BY <2>1, BoundsAreNumbers
<1>5. sockets' \in Seq(Socket) /\ Len(sockets') <= MaxSockets
  <2> HIDE DEF dialed
  <2>1. QED BY <1>2, <1>3, <1>4
<1>6. names' \in [Peers -> [Sockets -> Named]]
  <2>1. \A s \in Sockets : names[n][s] \in Named BY <1>1, PeersTypes
  <2>2. renamed \in [Sockets -> Named] BY <2>1 DEF Named
  <2> HIDE DEF renamed
  <2>3. QED BY <1>1, <1>2, <2>2, PeersTypes
<1>7. m \in PeerMessage /\ made' \in [Peers -> 0..MaxMessages]
  BY <1>1, <1>2, MadeMessages DEF Kinds
<1>8. wire' \in [Peers -> [Sockets -> Seq(PeerMessage)]]
  <2>1. new \in Sockets BY <1>2, <1>4 DEF Sockets
  <2> HIDE DEF m, new
  <2>2. <<m>> \in Seq(PeerMessage) BY <1>7
  <2>3. wire \in [Peers -> [Sockets -> Seq(PeerMessage)]] BY <1>1, PeersTypes
  <2>4. QED BY <1>2, <2>1, <2>2, <2>3
<1>9. PeersTypeOK'
  <2>1. scores' \in [Peers -> [Peers -> PeerRecord]] /\ accepted' \in [Peers -> Seq(Acceptance)]
    BY <1>1, <1>2, PeersTypes
  <2>2. QED BY <1>5, <1>6, <1>7, <1>8, <2>1 DEF PeersTypeOK, Socket, Named, PeerRecord, Acceptance
<1>10. QED BY <1>2, <1>9, TransportPreserves

\* What becomes of one socket.
LEMMA SocketMoves ==
  ASSUME PeersTypeOK, NEW s \in DOMAIN sockets, NEW phase \in {"dialed", "open", "closed"},
         sockets' = [sockets EXCEPT ![s].phase = phase]
  PROVE  /\ sockets' \in Seq(Socket) /\ Len(sockets') <= MaxSockets
         /\ sockets[s].acceptor \in Peers
<1>1. sockets \in Seq(Socket) /\ Len(sockets) \in Nat /\ Len(sockets) <= MaxSockets
      /\ s \in 1..Len(sockets)
  BY PeersTypes
<1>2. sockets[s] \in Socket BY <1>1
<1>3. [sockets[s] EXCEPT !.phase = phase] \in Socket /\ sockets[s].acceptor \in Peers
  BY <1>2 DEF Socket
<1> DEFINE moved == [sockets[s] EXCEPT !.phase = phase]
<1>4. sockets' = [sockets EXCEPT ![s] = moved] OBVIOUS
<1> HIDE DEF moved
<1>5. moved \in Socket BY <1>3 DEF moved
<1>6. sockets' \in Seq(Socket) /\ Len(sockets') = Len(sockets) BY <1>1, <1>4, <1>5
<1>7. QED BY <1>1, <1>3, <1>6

LEMMA AcceptPreserves ==
  ASSUME PeersInv, NEW s \in Sockets, Accept(s)
  PROVE  PeersInv'
<1>1. PeersTypeOK BY DEF PeersInv
<1>2. /\ sockets' \in Seq(Socket) /\ Len(sockets') <= MaxSockets
      /\ sockets[s].acceptor \in Peers
  BY <1>1, SocketMoves DEF Accept
<1>3. names' \in [Peers -> [Sockets -> Named]]
  BY <1>1, <1>2, PeersTypes DEF Accept, Named
<1>4. PeersTypeOK'
  BY <1>1, <1>2, <1>3 DEF PeersTypeOK, Accept, Socket, Named
<1>5. QED BY <1>4, TransportPreserves DEF Accept

LEMMA BroadcastPreserves ==
  ASSUME PeersInv, NEW n \in Peers, NEW kind \in Kinds, Broadcast(n, kind)
  PROVE  PeersInv'
<1> DEFINE m == NewMessage(n, kind)
<1>1. PeersTypeOK BY DEF PeersInv
<1>2. m \in PeerMessage /\ made' \in [Peers -> 0..MaxMessages]
  BY <1>1, MadeMessages DEF Broadcast
<1>3. ASSUME NEW s \in Sockets PROVE Copies(n, s, m) \in Seq(PeerMessage)
  <2> DEFINE written == {p \in names[n][s] : p = "made up" \/ ~scores[n][p].banned}
  <2>1. written \in SUBSET (Peers \cup {"made up"})
    <3>1. names[n][s] \in Named BY <1>1, PeersTypes
    <3>2. QED BY <3>1 DEF Named
  <2>2. IsFiniteSet(Peers \cup {"made up"})
    BY PeersAssumption, FS_AddElement
  <2>3. Cardinality(written) \in Nat
    <3> HIDE DEF written
    <3>1. QED BY <2>1, <2>2, FS_Subset, FS_CardinalityType
  <2>4. Copies(n, s, m) = [i \in 1..Cardinality(written) |-> m] BY DEF Copies
  <2> HIDE DEF written, m
  <2>5. QED BY <1>2, <2>3, <2>4
<1>4. wire' \in [Peers -> [Sockets -> Seq(PeerMessage)]]
  <2> HIDE DEF m
  <2>1. \A p \in Peers, s \in Sockets : wire[p][s] \in Seq(PeerMessage)
    BY <1>1 DEF PeersTypeOK
  <2>2. \A p \in Peers, s \in Sockets : wire[p][s] \o Copies(n, s, m) \in Seq(PeerMessage)
    BY <2>1, <1>3
  <2>3. wire' = [p \in Peers |-> [s \in Sockets |->
                  IF s \in DOMAIN sockets /\ sockets[s].phase # "closed" /\ Ends(s) = {n, p} /\ p # n
                  THEN wire[p][s] \o Copies(n, s, m) ELSE wire[p][s]]]
    BY DEF Broadcast, m
  <2>4. QED BY <2>1, <2>2, <2>3
<1>5. PeersTypeOK' BY <1>1, <1>2, <1>4 DEF PeersTypeOK, Broadcast
<1>6. QED BY <1>5, TransportPreserves DEF Broadcast

LEMMA ClosePreserves ==
  ASSUME PeersInv, NEW s \in Sockets, Close(s)
  PROVE  PeersInv'
<1>1. PeersTypeOK BY DEF PeersInv
<1>2. sockets' \in Seq(Socket) /\ Len(sockets') <= MaxSockets
  BY <1>1, SocketMoves DEF Close
<1>3. wire' \in [Peers -> [Sockets -> Seq(PeerMessage)]]
  <2>1. \A n \in Peers : wire[n] \in [Sockets -> Seq(PeerMessage)] BY <1>1 DEF PeersTypeOK
  <2>2. \A n \in Peers : [wire[n] EXCEPT ![s] = << >>] \in [Sockets -> Seq(PeerMessage)]
    BY <2>1
  <2>3. wire' = [n \in Peers |-> [wire[n] EXCEPT ![s] = << >>]] BY DEF Close
  <2>4. QED BY <2>2, <2>3
<1>4. PeersTypeOK' BY <1>1, <1>2, <1>3 DEF PeersTypeOK, Close, Socket
<1>5. QED BY <1>4, TransportPreserves DEF Close

LEMMA HandleClosePreserves ==
  ASSUME PeersInv, NEW n \in Peers, NEW s \in Sockets, HandleClose(n, s)
  PROVE  PeersInv'
<1>1. PeersTypeOK' BY DEF PeersInv, PeersTypeOK, HandleClose
<1>2. QED BY <1>1, TransportPreserves DEF HandleClose

\* A message is accepted only when it has not been seen, and is seen from then on.
LEMMA ReceivePreserves ==
  ASSUME PeersInv, NEW n \in Peers, NEW s \in Sockets, Receive(n, s)
  PROVE  PeersInv'
<1> DEFINE m == Head(wire[n][s])
           from == m.from
           entry == <<m.from, m.id>>
<1>1. PeersTypeOK BY DEF PeersInv
<1>2. /\ m \in PeerMessage /\ Tail(wire[n][s]) \in Seq(PeerMessage)
      /\ from \in Peers /\ m.id \in 1..MaxMessages
  <2>1. wire[n][s] \in Seq(PeerMessage) BY <1>1, PeersTypes
  <2> wire[n][s] # << >> BY DEF Receive
  <2>2. m \in PeerMessage /\ Tail(wire[n][s]) \in Seq(PeerMessage) BY <2>1
  <2>3. QED BY <2>2 DEF PeerMessage
<1>3. scores[n][from] \in PeerRecord /\ scores[n][from].messageCount \in Nat
  <2>1. scores[n][from] \in PeerRecord BY <1>1, <1>2, PeersTypes
  <2>2. QED BY <2>1 DEF PeerRecord
<1>4. PICK count \in {0, scores[n][from].messageCount} :
        /\ scores' = [scores EXCEPT ![n][from] = acceptMessage(scores[n][from], m, count)]
        /\ accepted' = IF IsAccepted(scores[n][from], m, count)
                       THEN [accepted EXCEPT ![n] = Append(accepted[n], entry)] ELSE accepted
        /\ names' = IF from \in Known(n) THEN names
                    ELSE [names EXCEPT ![n][s] = names[n][s] \cup {from}]
  BY DEF Receive
<1> DEFINE record == acceptMessage(scores[n][from], m, count)
<1>5. /\ record \in PeerRecord /\ scores[n][from].seenMessages \subseteq record.seenMessages
      /\ IsAccepted(scores[n][from], m, count) => m.id \in record.seenMessages
  BY <1>2, <1>3, <1>4, RecordsOnlyGrow
<1>6. wire' = [wire EXCEPT ![n][s] = Tail(wire[n][s])] /\ UNCHANGED <<sockets, made>>
  BY DEF Receive
<1>7. IsAccepted(scores[n][from], m, count) => m.id \notin scores[n][from].seenMessages
  BY DEF IsAccepted
<1>8. entry \in Acceptance /\ entry[1] = from /\ entry[2] = m.id BY <1>2 DEF Acceptance
<1> HIDE DEF record, entry, m
<1>9. PeersTypeOK'
  <2>1. scores' \in [Peers -> [Peers -> PeerRecord]]
    BY <1>1, <1>2, <1>4, <1>5, PeersTypes DEF record
  <2>2. accepted' \in [Peers -> Seq(Acceptance)]
    <3>1. accepted[n] \in Seq(Acceptance) BY <1>1, PeersTypes
    <3>2. Append(accepted[n], entry) \in Seq(Acceptance) BY <3>1, <1>8
    <3>3. QED BY <1>1, <1>4, <3>2, PeersTypes
  <2>3. names' \in [Peers -> [Sockets -> Named]]
    <3>1. names \in [Peers -> [Sockets -> Named]] /\ names[n][s] \in Named BY <1>1, PeersTypes
    <3>2. names[n][s] \cup {from} \in Named BY <1>2, <3>1 DEF Named
    <3>3. [names EXCEPT ![n][s] = names[n][s] \cup {from}] \in [Peers -> [Sockets -> Named]]
      BY <3>1, <3>2
    <3>4. QED BY <1>4, <3>1, <3>3
  <2>4. wire' \in [Peers -> [Sockets -> Seq(PeerMessage)]]
    BY <1>1, <1>2, <1>6, PeersTypes
  <2>5. QED
    BY <1>1, <1>6, <2>1, <2>2, <2>3, <2>4
    DEF PeersTypeOK, PeerRecord, Named, Acceptance
<1>10. \A q, p \in Peers : scores[q][p].seenMessages \subseteq scores'[q][p].seenMessages
  BY <1>1, <1>2, <1>4, <1>5, PeersTypes DEF record
<1>11. ASSUME NEW q \in Peers
       PROVE  /\ accepted[q] \in Seq(Acceptance)
              /\ \A i \in 1..Len(accepted[q]) :
                   /\ accepted[q][i] \in Acceptance
                   /\ accepted[q][i][1] \in Peers
                   /\ accepted[q][i][2] \in scores[q][accepted[q][i][1]].seenMessages
  <2>1. accepted[q] \in Seq(Acceptance) BY <1>1, PeersTypes
  <2>2. \A i \in 1..Len(accepted[q]) : accepted[q][i] \in Acceptance BY <2>1
  <2>3. QED BY <2>1, <2>2 DEF PeersInv, AcceptedIsSeen, Acceptance
<1>12. CASE ~IsAccepted(scores[n][from], m, count)
  <2>1. accepted' = accepted BY <1>4, <1>12
  <2>2. AcceptedIsSeen' BY <1>10, <1>11, <2>1 DEF AcceptedIsSeen
  <2>3. AcceptedAtMostOnce' BY <2>1 DEF PeersInv, AcceptedAtMostOnce, IsInjective
  <2>4. QED BY <1>9, <2>2, <2>3 DEF PeersInv
<1>13. CASE IsAccepted(scores[n][from], m, count)
  <2>1. /\ accepted' = [accepted EXCEPT ![n] = Append(accepted[n], entry)]
        /\ accepted'[n] = Append(accepted[n], entry)
        /\ \A q \in Peers : q # n => accepted'[q] = accepted[q]
    BY <1>1, <1>4, <1>13 DEF PeersTypeOK
  <2>2. /\ Len(accepted'[n]) = Len(accepted[n]) + 1 /\ Len(accepted[n]) \in Nat
        /\ \A i \in 1..Len(accepted[n]) : accepted'[n][i] = accepted[n][i]
        /\ accepted'[n][Len(accepted[n]) + 1] = entry
        /\ DOMAIN accepted'[n] = 1..Len(accepted'[n])
    BY <1>8, <1>11, <2>1
  <2>3. scores'[n][from].seenMessages = record.seenMessages
    BY <1>1, <1>2, <1>4 DEF PeersTypeOK, record
  <2>4. AcceptedIsSeen'
    <3>1. ASSUME NEW i \in 1..Len(accepted'[n])
          PROVE  accepted'[n][i][2] \in scores'[n][accepted'[n][i][1]].seenMessages
      <4>1. CASE i \in 1..Len(accepted[n]) BY <4>1, <1>10, <1>11, <2>2
      <4>2. CASE i = Len(accepted[n]) + 1 BY <4>2, <1>5, <1>8, <1>13, <2>2, <2>3
      <4>3. QED BY <4>1, <4>2, <2>2
    <3>2. QED BY <1>10, <1>11, <2>1, <3>1 DEF AcceptedIsSeen
  <2>5. \A i \in 1..Len(accepted[n]) : accepted[n][i] # entry
    BY <1>7, <1>8, <1>11, <1>13
  <2>6. IsInjective(accepted[n]) /\ DOMAIN accepted[n] = 1..Len(accepted[n])
    BY <1>11 DEF PeersInv, AcceptedAtMostOnce
  <2>7. IsInjective(accepted'[n])
    <3>1. ASSUME NEW i \in 1..Len(accepted'[n]), NEW j \in 1..Len(accepted'[n]),
                 accepted'[n][i] = accepted'[n][j]
          PROVE  i = j
      <4>1. CASE i \in 1..Len(accepted[n]) /\ j \in 1..Len(accepted[n])
        BY <4>1, <3>1, <2>2, <2>6 DEF IsInjective
      <4>2. CASE i = Len(accepted[n]) + 1 /\ j \in 1..Len(accepted[n])
        BY <4>2, <3>1, <2>2, <2>5
      <4>3. CASE i \in 1..Len(accepted[n]) /\ j = Len(accepted[n]) + 1
        BY <4>3, <3>1, <2>2, <2>5
      <4>4. CASE i = Len(accepted[n]) + 1 /\ j = Len(accepted[n]) + 1 BY <4>4
      <4>5. QED BY <4>1, <4>2, <4>3, <4>4, <2>2
    <3>2. QED BY <3>1, <2>2 DEF IsInjective
  <2>8. AcceptedAtMostOnce'
    BY <2>1, <2>7 DEF PeersInv, AcceptedAtMostOnce
  <2>9. QED BY <1>9, <2>4, <2>8 DEF PeersInv
<1>14. QED BY <1>12, <1>13

\* However many sockets and names join two nodes, and however often a count of messages
\* starts anew, a node accepts a peer's message once.
THEOREM MessagesAcceptedOnce == PeersSpec => []AcceptedAtMostOnce
<1>1. PeersInv /\ [PeersNext]_peersVars => PeersInv'
  <2>1. SUFFICES ASSUME PeersInv, [PeersNext]_peersVars PROVE PeersInv' OBVIOUS
  <2>2. CASE UNCHANGED peersVars
    <3>1. PeersTypeOK' BY <2>1, <2>2 DEF PeersInv, PeersTypeOK, peersVars
    <3>2. QED BY <2>1, <2>2, <3>1, TransportPreserves DEF peersVars
  <2>3. CASE PeersNext
    BY <2>1, <2>3, ConnectPreserves, BroadcastPreserves, AcceptPreserves, ClosePreserves,
       ReceivePreserves, HandleClosePreserves
    DEF PeersNext
  <2>4. QED BY <2>1, <2>2, <2>3
<1>2. PeersInv => AcceptedAtMostOnce BY DEF PeersInv
<1>3. QED BY <1>1, <1>2, PeersInvInitially, PTL DEF PeersSpec

-----------------------------------------------------------------------------
\* Gossip.  A process passes gossip on to its dialers only, so whoever hears it reaches
\* by dials the process r that heard it first; one that would hear it again has dialed
\* back to it, and its way up to r is a ring that the gossip's source has dialed.
Elems(s) == {s[i] : i \in DOMAIN s}

Once(s, m) == \A i, j \in DOMAIN s : s[i] = m /\ s[j] = m => i = j

DialsInv ==
  /\ \A n \in Processes : peer[n] = NoPeer => Elems(up[n]) = {} /\ n \notin gossiped
  /\ \A n \in Processes : \A d \in helloed[n] : peer[d] = n

\* What goes about has been gossiped.  Under way to the dialed process is its dialer's
\* greeting and, while nobody has heard it, its own gossip.
SocketsInv ==
  /\ \A y \in Processes : Elems(down[y]) \cup Elems(heard[y]) \subseteq gossiped
  /\ \A d \in Processes :
       /\ Elems(up[d]) \subseteq {HELLO, d}
       /\ d \in Elems(up[d]) =>
            /\ d \in gossiped /\ Once(up[d], d)
            /\ \A y \in Processes : d \notin Elems(down[y]) /\ d \notin Elems(heard[y])

Closed(S) == \A c \in S : peer[c] # NoPeer => peer[c] \in S

\* The dials lead from n to r.
Reaches(n, r) == \A S \in SUBSET Processes : Closed(S) /\ n \in S => r \in S

\* n has heard m, or may hear it: from whom it has dialed, unless it is the first.
HeardFrom(n, m) ==
  /\ Reaches(n, peer[m])
  /\ n # peer[m] => n # m /\ peer[n] # NoPeer /\ m \in Elems(heard[peer[n]])

SpreadInv(m) ==
  \A y \in Processes :
    /\ Once(heard[y], m) /\ Once(down[y], m)
    /\ m \in Elems(heard[y]) => HeardFrom(y, m)
    /\ m \in Elems(down[y]) =>
         /\ m \notin Elems(heard[y])
         /\ y # peer[m] /\ y # m /\ peer[y] # NoPeer /\ m \in Elems(heard[peer[y]])

GossipInv ==
  /\ GossipTypeOK
  /\ DialsInv
  /\ SocketsInv
  /\ \A m \in Processes : ~DialedARing(m) => SpreadInv(m)

LEMMA ElemsOfAppend ==
  ASSUME NEW S, NEW s \in Seq(S), NEW x \in S
  PROVE  /\ Append(s, x) \in Seq(S)
         /\ Elems(Append(s, x)) = Elems(s) \cup {x}
         /\ \A m : Once(s, m) /\ (m # x \/ m \notin Elems(s)) => Once(Append(s, x), m)
<1> DEFINE r == Append(s, x)
<1>1. /\ Len(s) \in Nat /\ DOMAIN s = 1..Len(s)
      /\ r \in Seq(S) /\ DOMAIN r = 1..Len(s)+1 /\ r[Len(s) + 1] = x
      /\ \A i \in 1..Len(s) : r[i] = s[i]
  OBVIOUS
<1> HIDE DEF r
<1>2. \A i : i \in DOMAIN r <=> i \in DOMAIN s \/ i = Len(s) + 1
  BY <1>1
<1>3. Elems(r) = Elems(s) \cup {x}
  BY <1>1, <1>2 DEF Elems
<1>4. ASSUME NEW m, Once(s, m), m # x \/ m \notin Elems(s) PROVE Once(r, m)
  <2>1. m = x => \A i \in DOMAIN s : s[i] # m
    BY <1>4 DEF Elems
  <2>2. ASSUME NEW i \in DOMAIN r, NEW j \in DOMAIN r, r[i] = m, r[j] = m PROVE i = j
    BY <1>1, <1>2, <1>4, <2>1, <2>2 DEF Once
  <2> QED BY <2>2 DEF Once
<1> QED BY <1>1, <1>3, <1>4 DEF r

LEMMA ElemsOfTail ==
  ASSUME NEW S, NEW s \in Seq(S), s # << >>
  PROVE  /\ Tail(s) \in Seq(S) /\ Head(s) \in S
         /\ Elems(s) = Elems(Tail(s)) \cup {Head(s)}
         /\ \A m : Once(s, m) => Once(Tail(s), m)
         /\ Once(s, Head(s)) => Head(s) \notin Elems(Tail(s))
<1> DEFINE r == Tail(s)
           x == Head(s)
<1>1. /\ Len(s) \in Nat \ {0} /\ DOMAIN s = 1..Len(s) /\ x = s[1] /\ x \in S
      /\ r \in Seq(S) /\ DOMAIN r = 1..Len(s)-1
      /\ \A i \in 1..Len(s)-1 : r[i] = s[i + 1]
  OBVIOUS
<1> HIDE DEF r, x
<1>2. \A i \in DOMAIN r : i \in Nat /\ i + 1 \in DOMAIN s /\ r[i] = s[i + 1] /\ i + 1 # 1
  BY <1>1
<1>3. \A i \in DOMAIN s : i = 1 \/ (i - 1 \in DOMAIN r /\ r[i - 1] = s[i])
  BY <1>1
<1>3a. 1 \in DOMAIN s
  BY <1>1
<1>4. Elems(s) = Elems(r) \cup {x}
  <2>1. ASSUME NEW e \in Elems(s) PROVE e \in Elems(r) \cup {x}
    BY <1>1, <1>3 DEF Elems
  <2>2. ASSUME NEW e \in Elems(r) PROVE e \in Elems(s)
    BY <1>2 DEF Elems
  <2>3. x \in Elems(s)
    BY <1>1 DEF Elems
  <2> QED BY <2>1, <2>2, <2>3
<1>5. ASSUME NEW m, Once(s, m) PROVE Once(r, m)
  <2>1. ASSUME NEW i \in DOMAIN r, NEW j \in DOMAIN r, r[i] = m, r[j] = m PROVE i = j
    <3>1. i \in Nat /\ j \in Nat /\ i + 1 = j + 1
      BY <1>2, <1>5, <2>1 DEF Once
    <3> QED BY <3>1
  <2> QED BY <2>1 DEF Once
<1>6. ASSUME Once(s, x) PROVE x \notin Elems(r)
  BY <1>1, <1>2, <1>3a, <1>6 DEF Once, Elems
<1> QED BY <1>1, <1>4, <1>5, <1>6 DEF r, x

LEMMA ElemsOfEmpty == Elems(<< >>) = {} /\ \A m : Once(<< >>, m)
BY DEF Elems, Once

\* n hears m and passes it on to R; down may lose m where n has it from.
Passes(n, m, R) ==
  /\ heard' = [heard EXCEPT ![n] = Append(@, m)]
  /\ peer' = peer
  /\ \A y \in Processes :
       \/ /\ y \in R
          /\ \/ down'[y] = Append(down[y], m)
             \/ y = n /\ down'[y] = Tail(Append(down[y], m))
       \/ /\ y \notin R
          /\ \/ down'[y] = down[y] /\ (y = n => m \notin Elems(down[y]))
             \/ y = n /\ down[y] # << >> /\ m = Head(down[y]) /\ down'[y] = Tail(down[y])

\* Whatever it is, only m is more, and nothing else is there more often.
LEMMA PassMoves ==
  ASSUME GossipTypeOK, NEW n \in Processes, NEW m \in Processes, NEW R \in SUBSET Processes,
         Passes(n, m, R), NEW y \in Processes
  PROVE  /\ down'[y] \in Seq(Processes) /\ heard'[y] \in Seq(Processes)
         /\ Elems(down'[y]) \subseteq Elems(down[y]) \cup {m}
         /\ Elems(heard'[y]) = IF y = n THEN Elems(heard[y]) \cup {m} ELSE Elems(heard[y])
         /\ \A k : k # m /\ Once(down[y], k) => Once(down'[y], k)
         /\ \A k : Once(heard[y], k) /\ (k # m \/ y # n \/ m \notin Elems(heard[n]))
                     => Once(heard'[y], k)
<1>1. /\ heard \in [Processes -> Seq(Processes)] /\ down[y] \in Seq(Processes)
      /\ heard[y] \in Seq(Processes) /\ heard[n] \in Seq(Processes)
  BY DEF GossipTypeOK
<1>2. /\ Append(down[y], m) \in Seq(Processes)
      /\ Elems(Append(down[y], m)) = Elems(down[y]) \cup {m}
      /\ \A k : k # m /\ Once(down[y], k) => Once(Append(down[y], m), k)
  BY <1>1, ElemsOfAppend
<1>3. /\ down'[y] \in Seq(Processes)
      /\ Elems(down'[y]) \subseteq Elems(down[y]) \cup {m}
      /\ \A k : k # m /\ Once(down[y], k) => Once(down'[y], k)
  <2>1. CASE down'[y] = Append(down[y], m)
    BY <1>2, <2>1
  <2>2. CASE down'[y] = Tail(Append(down[y], m))
    <3>1. Append(down[y], m) # << >>
      BY <1>2, ElemsOfEmpty
    <3> DEFINE s == Append(down[y], m)
    <3>2. s \in Seq(Processes) /\ s # << >>
      BY <1>2, <3>1
    <3> HIDE DEF s
    <3>3. /\ Tail(s) \in Seq(Processes) /\ Elems(Tail(s)) \subseteq Elems(s)
          /\ \A k : Once(s, k) => Once(Tail(s), k)
      BY <3>2, ElemsOfTail
    <3> QED BY <1>2, <2>2, <3>3 DEF s
  <2>3. CASE down'[y] = down[y]
    BY <1>1, <2>3
  <2>4. CASE down[y] # << >> /\ down'[y] = Tail(down[y])
    <3>1. /\ Tail(down[y]) \in Seq(Processes) /\ Elems(Tail(down[y])) \subseteq Elems(down[y])
          /\ \A k : Once(down[y], k) => Once(Tail(down[y]), k)
      BY <1>1, <2>4, ElemsOfTail
    <3> QED BY <2>4, <3>1
  <2> QED BY <2>1, <2>2, <2>3, <2>4 DEF Passes
<1>4. /\ heard'[y] \in Seq(Processes)
      /\ Elems(heard'[y]) = IF y = n THEN Elems(heard[y]) \cup {m} ELSE Elems(heard[y])
      /\ \A k : Once(heard[y], k) /\ (k # m \/ y # n \/ m \notin Elems(heard[n]))
                  => Once(heard'[y], k)
  <2>1. /\ Append(heard[n], m) \in Seq(Processes)
        /\ Elems(Append(heard[n], m)) = Elems(heard[n]) \cup {m}
        /\ \A k : Once(heard[n], k) /\ (k # m \/ k \notin Elems(heard[n]))
                    => Once(Append(heard[n], m), k)
    BY <1>1, ElemsOfAppend
  <2>2. heard'[y] = IF y = n THEN Append(heard[n], m) ELSE heard[y]
    BY <1>1 DEF Passes
  <2>3. CASE y = n
    BY <2>1, <2>2, <2>3
  <2>4. CASE y # n
    BY <1>1, <2>2, <2>4
  <2> QED BY <2>3, <2>4
<1> QED BY <1>3, <1>4

\* Other gossip is where it was.
LEMMA PassKeepsOthers ==
  ASSUME GossipTypeOK, NEW n \in Processes, NEW m \in Processes, NEW R \in SUBSET Processes,
         Passes(n, m, R), NEW k \in Processes \ {m}, SpreadInv(k)
  PROVE  SpreadInv(k)'
<1>1. peer' = peer
  BY DEF Passes
<1>2. ASSUME NEW y \in Processes PROVE k \in Elems(heard'[y]) <=> k \in Elems(heard[y])
  <2>1. Elems(heard'[y]) = IF y = n THEN Elems(heard[y]) \cup {m} ELSE Elems(heard[y])
    BY PassMoves
  <2> QED BY <2>1
<1>3. \A y \in Processes : k \in Elems(down'[y]) => k \in Elems(down[y])
  BY PassMoves
<1>4. \A y \in Processes : Once(heard'[y], k) /\ Once(down'[y], k)
  BY PassMoves DEF SpreadInv
<1>5. \A y \in Processes : peer[y] # NoPeer => peer[y] \in Processes
  BY DEF GossipTypeOK
<1>6. \A y, r : Reaches(y, r)' <=> Reaches(y, r)
  BY <1>1 DEF Reaches, Closed
<1>7. ASSUME NEW y \in Processes, HeardFrom(y, k) PROVE HeardFrom(y, k)'
  BY <1>1, <1>2, <1>5, <1>6, <1>7 DEF HeardFrom
<1>8. ASSUME NEW y \in Processes
      PROVE  /\ k \in Elems(heard'[y]) => HeardFrom(y, k)'
             /\ k \in Elems(down'[y]) =>
                  /\ k \notin Elems(heard'[y])
                  /\ y # peer[k] /\ y # k /\ peer[y] # NoPeer /\ k \in Elems(heard'[peer[y]])
  BY <1>2, <1>3, <1>5, <1>7 DEF SpreadInv
<1> QED BY <1>1, <1>4, <1>8 DEF SpreadInv

\* r is whom m has dialed; were r among those n passes m on to, the dials from r to n
\* and back would be a ring without m.
LEMMA PassedToSourceIsRing ==
  ASSUME GossipTypeOK, NEW n \in Processes, NEW m \in Processes, SpreadInv(m),
         HeardFrom(n, m), peer[m] \in Processes \ {m}, peer[peer[m]] = n
  PROVE  DialedARing(m)
<1> DEFINE r == peer[m]
           H == {y \in Processes : m \in Elems(heard[y])}
           K == H \cup {n}
           ring == {c \in Processes : \A S \in SUBSET Processes : Closed(S) /\ r \in S => c \in S}
<1>1. \A y \in Processes : peer[y] \in Processes \cup {NoPeer}
  BY DEF GossipTypeOK
<1>2. \A y \in K : peer[y] # NoPeer /\ peer[y] \in K
  <2>1. ASSUME NEW y \in K, y # r PROVE peer[y] # NoPeer /\ m \in Elems(heard[peer[y]])
    BY <2>1 DEF HeardFrom, SpreadInv
  <2>2. peer[r] = n
    OBVIOUS
  <2> QED BY <1>1, <2>1, <2>2, GossipAssumption
<1>3. m \notin K
  BY DEF HeardFrom, SpreadInv
<1>4. K \in SUBSET Processes /\ Closed(K) /\ r \in K
  BY <1>2 DEF HeardFrom, Reaches, Closed
<1>5. ring \subseteq K /\ r \in ring
  BY <1>4
<1> HIDE DEF H, K
<1>6. \A c \in ring : peer[c] # NoPeer /\ peer[c] \in ring
  <2>1. SUFFICES ASSUME NEW c \in ring PROVE peer[c] # NoPeer /\ peer[c] \in ring
    OBVIOUS
  <2>2. peer[c] # NoPeer /\ peer[c] \in Processes
    BY <1>1, <1>2, <1>5
  <2>3. ASSUME NEW S \in SUBSET Processes, Closed(S), r \in S PROVE peer[c] \in S
    BY <2>2, <2>3 DEF Closed
  <2> QED BY <2>2, <2>3
<1>7. ASSUME NEW c \in ring PROVE \E x \in ring : peer[x] = c
  <2>1. SUFFICES ASSUME \A x \in ring : peer[x] # c PROVE FALSE
    OBVIOUS
  <2>2. Closed(ring \ {c}) /\ ring \ {c} \in SUBSET Processes
    BY <1>6, <2>1 DEF Closed
  <2>3. CASE c # r
    <3>1. r \in ring \ {c}
      BY <1>5, <2>3
    <3> QED BY <2>2, <3>1
  <2>4. CASE c = r
    <3>1. n \in ring \ {c}
      BY <1>5, <1>6, <2>1, <2>4
    <3>2. r \in ring \ {c}
      BY <2>2, <3>1 DEF HeardFrom, Reaches
    <3> QED BY <2>4, <3>2
  <2> QED BY <2>3, <2>4
<1>8. ring \in SUBSET Processes /\ m \notin ring /\ peer[m] \in ring
  BY <1>3, <1>5
<1> HIDE DEF ring
<1>9. {peer[c] : c \in ring} = ring
  BY <1>6, <1>7
<1> QED BY <1>8, <1>9 DEF DialedARing

\* A process that hears m for the first time, and those it passes it on to.
LEMMA PassKeepsSource ==
  ASSUME GossipTypeOK, NEW n \in Processes, NEW m \in Processes, NEW R \in SUBSET Processes,
         Passes(n, m, R), SpreadInv(m), ~DialedARing(m),
         HeardFrom(n, m), m \notin Elems(heard[n]), peer[m] \in Processes,
         \A x \in R : peer[x] = n /\ x # m
  PROVE  SpreadInv(m)'
<1>1. /\ peer' = peer
      /\ \A y \in Processes : peer[y] # NoPeer => peer[y] \in Processes
      /\ \A y \in Processes : down[y] \in Seq(Processes)
  BY DEF Passes, GossipTypeOK
<1>2. ASSUME NEW x \in R
      PROVE  x # peer[m] /\ m \notin Elems(heard[x]) /\ m \notin Elems(down[x]) /\ x # n
  <2>1. x # peer[m]
    BY PassedToSourceIsRing
  <2>2. m \notin Elems(heard[x])
    BY <2>1 DEF SpreadInv, HeardFrom
  <2>3. m \notin Elems(down[x])
    BY DEF SpreadInv
  <2>4. x # n
    BY <2>1 DEF HeardFrom
  <2> QED BY <2>1, <2>2, <2>3, <2>4
<1>3. ASSUME NEW y \in Processes
      PROVE  m \in Elems(heard'[y]) <=> m \in Elems(heard[y]) \/ y = n
  <2>1. Elems(heard'[y]) = IF y = n THEN Elems(heard[y]) \cup {m} ELSE Elems(heard[y])
    BY PassMoves
  <2> QED BY <2>1
<1>4. \A y \in Processes : Once(heard'[y], m)
  BY PassMoves DEF SpreadInv
<1>5. ASSUME NEW y \in Processes
      PROVE  /\ Once(down'[y], m)
             /\ m \in Elems(down'[y]) => y # n /\ (y \in R \/ m \in Elems(down[y]))
  <2>1. Once(down[y], m)
    BY DEF SpreadInv
  <2>2. CASE y \in R
    <3>1. down'[y] = Append(down[y], m)
      BY <1>2, <2>2 DEF Passes
    <3>2. Once(Append(down[y], m), m)
      BY <1>1, <1>2, <2>1, <2>2, ElemsOfAppend
    <3> QED BY <1>2, <2>2, <3>1, <3>2
  <2>3. CASE y \notin R /\ down'[y] = down[y] /\ (y = n => m \notin Elems(down[y]))
    BY <2>1, <2>3
  <2>4. CASE y = n /\ down[y] # << >> /\ m = Head(down[y]) /\ down'[y] = Tail(down[y])
    <3>1. Once(Tail(down[y]), m) /\ m \notin Elems(Tail(down[y]))
      BY <1>1, <2>1, <2>4, ElemsOfTail
    <3> QED BY <2>4, <3>1
  <2> QED BY <2>2, <2>3, <2>4 DEF Passes
<1>6. \A y, r : Reaches(y, r)' <=> Reaches(y, r)
  BY <1>1 DEF Reaches, Closed
<1>7. ASSUME NEW y \in Processes, HeardFrom(y, m) PROVE HeardFrom(y, m)'
  BY <1>1, <1>3, <1>6, <1>7 DEF HeardFrom
<1>8. ASSUME NEW y \in Processes, m \in Elems(heard'[y]) PROVE HeardFrom(y, m)'
  BY <1>3, <1>7, <1>8 DEF SpreadInv
<1>9. ASSUME NEW y \in Processes, m \in Elems(down'[y])
      PROVE  /\ m \notin Elems(heard'[y])
             /\ y # peer[m] /\ y # m /\ peer[y] # NoPeer /\ m \in Elems(heard'[peer[y]])
  <2>1. y # n
    BY <1>5, <1>9
  <2>2. CASE y \in R
    <3>1. m \notin Elems(heard[y]) /\ y # peer[m] /\ y # m /\ peer[y] = n
      BY <1>2, <2>2
    <3> QED BY <1>3, <2>1, <3>1, GossipAssumption
  <2>3. CASE m \in Elems(down[y])
    <3>1. /\ m \notin Elems(heard[y])
          /\ y # peer[m] /\ y # m /\ peer[y] # NoPeer /\ m \in Elems(heard[peer[y]])
      BY <2>3 DEF SpreadInv
    <3> QED BY <1>1, <1>3, <2>1, <3>1
  <2> QED BY <1>5, <1>9, <2>2, <2>3
<1> QED BY <1>1, <1>4, <1>5, <1>8, <1>9 DEF SpreadInv

LEMMA GossipInvInitially == GossipInit => GossipInv
<1> SUFFICES ASSUME GossipInit PROVE GossipInv
  OBVIOUS
<1>1. /\ started = {} /\ stopped = {} /\ gossiped = {}
      /\ \A n \in Processes : helloed[n] = {}
      /\ \A n \in Processes : up[n] = << >> /\ down[n] = << >> /\ heard[n] = << >>
  BY DEF GossipInit
<1>2. GossipTypeOK
  BY DEF GossipInit, GossipTypeOK
<1>3. SocketsInv
  BY <1>1, ElemsOfEmpty DEF SocketsInv
<1>4. DialsInv
  BY <1>1, ElemsOfEmpty DEF DialsInv
<1>5. \A m \in Processes : SpreadInv(m)
  BY <1>1, ElemsOfEmpty DEF SpreadInv
<1> QED BY <1>2, <1>3, <1>4, <1>5 DEF GossipInv

\* A process that starts has dialed nobody yet.
LEMMA StartPreserves ==
  ASSUME GossipInv, NEW n \in Processes, StartProcess(n)
  PROVE  GossipInv'
<1>1. /\ started' = started \cup {n}
      /\ stopped' = stopped /\ peer' = peer /\ gossiped' = gossiped /\ helloed' = helloed
      /\ up' = up /\ down' = down /\ heard' = heard
  BY DEF StartProcess
<1>2. GossipTypeOK'
  BY <1>1 DEF GossipInv, GossipTypeOK
<1>3. DialsInv' /\ SocketsInv'
  BY <1>1 DEF GossipInv, DialsInv, SocketsInv
<1>4. \A m \in Processes : (SpreadInv(m)' <=> SpreadInv(m)) /\ (DialedARing(m)' <=> DialedARing(m))
  BY <1>1 DEF SpreadInv, HeardFrom, Reaches, Closed, DialedARing
<1> QED BY <1>2, <1>3, <1>4 DEF GossipInv

\* A dial leaves the rings there are and where the dials lead to; who dials has not
\* gossiped, and heard only gossip of its dialers.
LEMMA DialPreserves ==
  ASSUME GossipInv, NEW n \in Processes, NEW p \in Processes, Dial(n, p)
  PROVE  GossipInv'
<1>1. /\ n \in started /\ peer[n] = NoPeer
      /\ peer' = [peer EXCEPT ![n] = p] /\ up' = [up EXCEPT ![n] = <<HELLO>>]
      /\ started' = started /\ stopped' = stopped /\ gossiped' = gossiped
      /\ helloed' = helloed /\ down' = down /\ heard' = heard
  BY DEF Dial, Running
<1>2. /\ GossipTypeOK /\ DialsInv /\ SocketsInv
      /\ \A m \in Processes : ~DialedARing(m) => SpreadInv(m)
  BY DEF GossipInv
<1>3. /\ peer \in [Processes -> Processes \cup {NoPeer}]
      /\ peer'[n] = p /\ \A y \in Processes \ {n} : peer'[y] = peer[y]
      /\ \A y \in Processes : peer[y] # NoPeer => peer[y] \in Processes
      /\ up \in [Processes -> Seq(Processes \cup {HELLO})]
  BY <1>1, <1>2 DEF GossipTypeOK
<1>4. /\ <<HELLO>> \in Seq(Processes \cup {HELLO}) /\ Elems(<<HELLO>>) = {HELLO}
  BY DEF Elems
<1>5. /\ up'[n] = <<HELLO>> /\ \A y \in Processes \ {n} : up'[y] = up[y]
  BY <1>1, <1>3
<1>6. GossipTypeOK'
  <2>1. up' \in [Processes -> Seq(Processes \cup {HELLO})]
    BY <1>1, <1>3, <1>4
  <2>2. peer' \in [Processes -> Processes \cup {NoPeer}]
    BY <1>1, <1>3
  <2> QED BY <1>1, <1>2, <2>1, <2>2 DEF GossipTypeOK
<1>7. n \notin gossiped
  BY <1>1, <1>2 DEF DialsInv
<1>8. DialsInv'
  <2>1. ASSUME NEW y \in Processes, peer'[y] = NoPeer PROVE Elems(up'[y]) = {} /\ y \notin gossiped
    <3>1. y # n
      BY <1>3, <2>1, GossipAssumption
    <3> QED BY <1>2, <1>3, <1>5, <2>1, <3>1 DEF DialsInv
  <2>2. ASSUME NEW y \in Processes, NEW d \in helloed[y] PROVE peer'[d] = y
    <3>1. peer[d] = y /\ d \in Processes
      BY <1>2 DEF DialsInv, GossipTypeOK
    <3>2. d # n
      BY <1>1, <3>1, GossipAssumption
    <3> QED BY <1>3, <3>1, <3>2
  <2> QED BY <1>1, <2>1, <2>2 DEF DialsInv
<1>9. SocketsInv'
  <2>1. ASSUME NEW d \in Processes
        PROVE  /\ Elems(up'[d]) \subseteq {HELLO, d}
               /\ d \in Elems(up'[d]) =>
                    /\ d \in gossiped /\ Once(up'[d], d)
                    /\ \A y \in Processes : d \notin Elems(down[y]) /\ d \notin Elems(heard[y])
    <3>1. CASE d = n
      BY <1>4, <1>5, <3>1, GossipAssumption
    <3>2. CASE d # n
      <4>1. up'[d] = up[d]
        BY <1>5, <3>2
      <4> QED BY <1>2, <4>1 DEF SocketsInv
    <3> QED BY <3>1, <3>2
  <2> QED BY <1>1, <1>2, <2>1 DEF SocketsInv
<1>10. ASSUME NEW m \in Processes, ~DialedARing(m)' PROVE SpreadInv(m)'
  <2>1. ~DialedARing(m)
    <3>1. SUFFICES ASSUME NEW ring \in SUBSET Processes,
                          {peer[c] : c \in ring} = ring, peer[m] \in ring, m \notin ring
                   PROVE  FALSE
      BY DEF DialedARing
    <3>2. n \notin ring /\ m # n
      BY <1>1, <3>1, GossipAssumption
    <3>3. peer'[m] = peer[m] /\ \A c \in ring : peer'[c] = peer[c]
      BY <1>3, <3>2
    <3>4. {peer'[c] : c \in ring} = ring
      BY <3>1, <3>3
    <3> QED BY <1>10, <3>1, <3>3, <3>4 DEF DialedARing
  <2>2. SpreadInv(m)
    BY <1>2, <2>1
  <2>3. CASE m = n
    <3>1. \A y \in Processes : m \notin Elems(heard[y]) /\ m \notin Elems(down[y])
      BY <1>2, <1>7, <2>3 DEF SocketsInv
    <3> QED BY <1>1, <2>2, <3>1 DEF SpreadInv
  <2>4. CASE m # n
    <3>1. peer'[m] = peer[m]
      BY <1>3, <2>4
    <3>2. ASSUME NEW S \in SUBSET Processes, \A c \in S : peer'[c] # NoPeer => peer'[c] \in S
          PROVE  Closed(S)
      BY <1>1, <1>3, <3>2 DEF Closed
    <3>3. ASSUME NEW y \in Processes, Reaches(y, peer[m]) PROVE Reaches(y, peer[m])'
      <4>1. ASSUME NEW S \in SUBSET Processes, y \in S,
                   \A c \in S : peer'[c] # NoPeer => peer'[c] \in S
            PROVE  peer'[m] \in S
        BY <3>1, <3>2, <3>3, <4>1 DEF Reaches
      <4> QED BY <4>1 DEF Reaches, Closed
    <3>4. ASSUME NEW y \in Processes, HeardFrom(y, m) PROVE HeardFrom(y, m)'
      <4>1. Reaches(y, peer[m])
        BY <3>4 DEF HeardFrom
      <4>2. Reaches(y, peer[m])'
        BY <3>3, <4>1
      <4>3. ASSUME y # peer[m]
            PROVE  y # m /\ peer'[y] # NoPeer /\ m \in Elems(heard[peer'[y]])
        BY <1>1, <1>3, <3>4, <4>3 DEF HeardFrom
      <4> QED BY <1>1, <3>1, <4>2, <4>3 DEF HeardFrom
    <3>5. ASSUME NEW y \in Processes, m \in Elems(heard[y]) PROVE HeardFrom(y, m)'
      BY <2>2, <3>4, <3>5 DEF SpreadInv
    <3>6. ASSUME NEW y \in Processes, m \in Elems(down[y])
          PROVE  /\ m \notin Elems(heard[y])
                 /\ y # peer'[m] /\ y # m /\ peer'[y] # NoPeer
                 /\ m \in Elems(heard[peer'[y]])
      <4>1. /\ m \notin Elems(heard[y])
            /\ y # peer[m] /\ y # m /\ peer[y] # NoPeer /\ m \in Elems(heard[peer[y]])
        BY <2>2, <3>6 DEF SpreadInv
      <4> QED BY <1>1, <1>3, <3>1, <4>1
    <3> QED BY <1>1, <2>2, <3>5, <3>6 DEF SpreadInv
  <2> QED BY <2>3, <2>4
<1> QED BY <1>6, <1>8, <1>9, <1>10 DEF GossipInv

\* Its own gossip is under way to whom it has dialed, where nobody can have it from.
LEMMA GossipPreserves ==
  ASSUME GossipInv, NEW n \in Processes, Gossip(n)
  PROVE  GossipInv'
<1>1. /\ n \in started /\ n \notin gossiped /\ peer[n] # NoPeer
      /\ gossiped' = gossiped \cup {n} /\ up' = [up EXCEPT ![n] = Append(@, n)]
      /\ started' = started /\ stopped' = stopped /\ peer' = peer /\ helloed' = helloed
      /\ down' = down /\ heard' = heard
  BY DEF Gossip, Running
<1>2. /\ GossipTypeOK /\ DialsInv /\ SocketsInv
      /\ \A m \in Processes : ~DialedARing(m) => SpreadInv(m)
      /\ up \in [Processes -> Seq(Processes \cup {HELLO})]
  BY DEF GossipInv, GossipTypeOK
<1>3. /\ n \notin Elems(up[n])
      /\ \A y \in Processes : n \notin Elems(down[y]) /\ n \notin Elems(heard[y])
  BY <1>1, <1>2 DEF SocketsInv
<1>4. Once(up[n], n)
  BY <1>3 DEF Once, Elems
<1>5. /\ Append(up[n], n) \in Seq(Processes \cup {HELLO})
      /\ Elems(Append(up[n], n)) = Elems(up[n]) \cup {n}
      /\ Once(Append(up[n], n), n)
  BY <1>2, <1>3, <1>4, ElemsOfAppend
<1>6. /\ up'[n] = Append(up[n], n) /\ \A y \in Processes \ {n} : up'[y] = up[y]
      /\ up' \in [Processes -> Seq(Processes \cup {HELLO})]
  BY <1>1, <1>2, <1>5
<1>7. GossipTypeOK'
  BY <1>1, <1>2, <1>6 DEF GossipTypeOK
<1>8. DialsInv'
  <2>1. ASSUME NEW y \in Processes, peer[y] = NoPeer
        PROVE  Elems(up'[y]) = {} /\ y \notin gossiped \cup {n}
    BY <1>1, <1>2, <1>6, <2>1 DEF DialsInv
  <2> QED BY <1>1, <1>2, <2>1 DEF DialsInv
<1>9. SocketsInv'
  <2>1. ASSUME NEW d \in Processes
        PROVE  /\ Elems(up'[d]) \subseteq {HELLO, d}
               /\ d \in Elems(up'[d]) =>
                    /\ d \in gossiped \cup {n} /\ Once(up'[d], d)
                    /\ \A y \in Processes : d \notin Elems(down[y]) /\ d \notin Elems(heard[y])
    <3>1. CASE d = n
      BY <1>2, <1>3, <1>5, <1>6, <3>1 DEF SocketsInv
    <3>2. CASE d # n
      <4>1. up'[d] = up[d]
        BY <1>6, <3>2
      <4> QED BY <1>2, <4>1 DEF SocketsInv
    <3> QED BY <3>1, <3>2
  <2> QED BY <1>1, <1>2, <2>1 DEF SocketsInv
<1>10. \A m \in Processes : (SpreadInv(m)' <=> SpreadInv(m)) /\ (DialedARing(m)' <=> DialedARing(m))
  BY <1>1 DEF SpreadInv, HeardFrom, Reaches, Closed, DialedARing
<1> QED BY <1>2, <1>7, <1>8, <1>9, <1>10 DEF GossipInv

\* The sockets to the dialed and what is known of the dialers, when n has passed m on.
LEMMA PassKeepsSockets ==
  ASSUME GossipInv, NEW n \in Processes, NEW m \in Processes, NEW R \in SUBSET Processes,
         Passes(n, m, R), m \in gossiped,
         gossiped' = gossiped /\ started' = started /\ stopped' = stopped /\ helloed' = helloed,
         heard' \in [Processes -> Seq(Processes)], down' = [y \in Processes |-> down'[y]],
         up' \in [Processes -> Seq(Processes \cup {HELLO})],
         \A d \in Processes : /\ Elems(up'[d]) \subseteq Elems(up[d])
                              /\ Once(up[d], d) => Once(up'[d], d)
                              /\ d = m => d \notin Elems(up'[d])
  PROVE  GossipTypeOK' /\ DialsInv' /\ SocketsInv'
<1>1. GossipTypeOK /\ DialsInv /\ SocketsInv /\ peer' = peer
  BY DEF GossipInv, Passes
<1>2. \A y \in Processes : /\ down'[y] \in Seq(Processes)
                           /\ Elems(down'[y]) \subseteq Elems(down[y]) \cup {m}
  BY <1>1, PassMoves
<1>3. ASSUME NEW y \in Processes PROVE Elems(heard'[y]) \subseteq Elems(heard[y]) \cup {m}
  <2>1. Elems(heard'[y]) = IF y = n THEN Elems(heard[y]) \cup {m} ELSE Elems(heard[y])
    BY <1>1, PassMoves
  <2> QED BY <2>1
<1>4. GossipTypeOK'
  <2>1. down' \in [Processes -> Seq(Processes)]
    BY <1>2
  <2> QED BY <1>1, <2>1 DEF GossipTypeOK
<1>5. DialsInv'
  BY <1>1 DEF DialsInv
<1>6. SocketsInv'
  <2>1. \A y \in Processes : Elems(down'[y]) \cup Elems(heard'[y]) \subseteq gossiped
    BY <1>1, <1>2, <1>3 DEF SocketsInv
  <2>2. ASSUME NEW d \in Processes
        PROVE  /\ Elems(up'[d]) \subseteq {HELLO, d}
               /\ d \in Elems(up'[d]) =>
                    /\ d \in gossiped /\ Once(up'[d], d)
                    /\ \A y \in Processes : d \notin Elems(down'[y]) /\ d \notin Elems(heard'[y])
    BY <1>1, <1>2, <1>3 DEF SocketsInv
  <2> QED BY <2>1, <2>2 DEF SocketsInv
<1> QED BY <1>4, <1>5, <1>6

\* The dialed process takes the dialer into its peers, or is the first to hear its gossip.
LEMMA HandleUpPreserves ==
  ASSUME GossipInv, NEW d \in Processes, HandleUp(d)
  PROVE  GossipInv'
<1> DEFINE n == peer[d]
           msg == Head(up[d])
<1>1. /\ up[d] # << >> /\ n \in Running /\ up' = [up EXCEPT ![d] = Tail(@)]
      /\ \/ /\ msg = HELLO /\ helloed' = [helloed EXCEPT ![n] = @ \cup {d}]
            /\ down' = down /\ heard' = heard
         \/ /\ msg # HELLO /\ heard' = [heard EXCEPT ![n] = Append(@, msg)]
            /\ down' = broadcast(n, msg, d) /\ helloed' = helloed
      /\ started' = started /\ stopped' = stopped /\ peer' = peer /\ gossiped' = gossiped
  BY DEF HandleUp
<1>2. /\ GossipTypeOK /\ DialsInv /\ SocketsInv
      /\ \A m \in Processes : ~DialedARing(m) => SpreadInv(m)
  BY DEF GossipInv
<1>3. /\ up \in [Processes -> Seq(Processes \cup {HELLO})]
      /\ heard \in [Processes -> Seq(Processes)] /\ helloed \in [Processes -> SUBSET Processes]
      /\ n \in Processes
  BY <1>1, <1>2 DEF GossipTypeOK, Running
<1>4. /\ Tail(up[d]) \in Seq(Processes \cup {HELLO})
      /\ Elems(up[d]) = Elems(Tail(up[d])) \cup {msg}
      /\ Once(up[d], d) => Once(Tail(up[d]), d)
      /\ Once(up[d], msg) => msg \notin Elems(Tail(up[d]))
  BY <1>1, <1>3, ElemsOfTail
<1>5. /\ up' \in [Processes -> Seq(Processes \cup {HELLO})]
      /\ up'[d] = Tail(up[d]) /\ \A x \in Processes \ {d} : up'[x] = up[x]
  BY <1>1, <1>3, <1>4
<1>6. msg \in {HELLO, d}
  BY <1>2, <1>4 DEF SocketsInv
<1>7. \A x \in Processes : /\ Elems(up'[x]) \subseteq Elems(up[x])
                           /\ Once(up[x], x) => Once(up'[x], x)
  BY <1>4, <1>5
<1>8. CASE /\ msg = HELLO /\ helloed' = [helloed EXCEPT ![n] = @ \cup {d}]
           /\ down' = down /\ heard' = heard
  <2>1. GossipTypeOK'
    BY <1>1, <1>2, <1>3, <1>5, <1>8 DEF GossipTypeOK
  <2>2. SocketsInv'
    BY <1>1, <1>2, <1>7, <1>8 DEF SocketsInv
  <2>3. \A x \in Processes : \A y \in helloed'[x] : peer[y] = x
    BY <1>2, <1>3, <1>8 DEF DialsInv
  <2>4. DialsInv'
    <3>1. \A x \in Processes : peer[x] = NoPeer => Elems(up'[x]) = {} /\ x \notin gossiped
      BY <1>2, <1>7 DEF DialsInv
    <3> QED BY <1>1, <2>3, <3>1 DEF DialsInv
  <2>5. \A m \in Processes : (SpreadInv(m)' <=> SpreadInv(m)) /\ (DialedARing(m)' <=> DialedARing(m))
    BY <1>1, <1>8 DEF SpreadInv, HeardFrom, Reaches, Closed, DialedARing
  <2> QED BY <1>2, <2>1, <2>2, <2>4, <2>5 DEF GossipInv
<1>9. CASE /\ msg # HELLO /\ heard' = [heard EXCEPT ![n] = Append(@, msg)]
           /\ down' = broadcast(n, msg, d) /\ helloed' = helloed
  <2> DEFINE R == {x \in helloed[n] \cap Running : x # d}
  <2>1. msg = d
    BY <1>6, <1>9
  <2>2. /\ d \in gossiped /\ d \notin Elems(up'[d])
        /\ \A y \in Processes : d \notin Elems(down[y]) /\ d \notin Elems(heard[y])
    BY <1>2, <1>4, <1>5, <2>1 DEF SocketsInv
  <2>3. R \in SUBSET Processes /\ \A x \in R : peer[x] = n /\ x # d
    BY <1>2, <1>3 DEF DialsInv
  <2>4. /\ heard' = [heard EXCEPT ![n] = Append(@, d)]
        /\ heard' \in [Processes -> Seq(Processes)]
    <3>1. Append(heard[n], d) \in Seq(Processes)
      BY <1>3
    <3> QED BY <1>3, <1>9, <2>1, <3>1
  <2>5. /\ \A x \in R : down'[x] = Append(down[x], d)
        /\ \A x \in Processes \ R : down'[x] = down[x]
        /\ down' = [x \in Processes |-> down'[x]]
    BY <1>9, <2>1, <2>3 DEF broadcast
  <2> HIDE DEF R, msg
  <2>6. Passes(n, d, R)
    BY <1>1, <2>2, <2>4, <2>5 DEF Passes
  <2>7. GossipTypeOK' /\ DialsInv' /\ SocketsInv'
    <3>1. \A x \in Processes : /\ Elems(up'[x]) \subseteq Elems(up[x])
                               /\ Once(up[x], x) => Once(up'[x], x)
                               /\ x = d => x \notin Elems(up'[x])
      BY <1>7, <2>2
    <3>2. gossiped' = gossiped /\ started' = started /\ stopped' = stopped /\ helloed' = helloed
      BY <1>1, <1>9
    <3> QED BY <1>3, <1>5, <2>2, <2>3, <2>4, <2>5, <2>6, <3>1, <3>2, PassKeepsSockets
  <2>8. ASSUME NEW k \in Processes, ~DialedARing(k)' PROVE SpreadInv(k)'
    <3>0. peer' = peer
      BY <1>1
    <3>1. SpreadInv(k) /\ ~DialedARing(k)
      BY <1>2, <2>8, <3>0 DEF DialedARing
    <3>2. CASE k # d
      BY <1>2, <1>3, <2>3, <2>6, <3>1, <3>2, PassKeepsOthers
    <3>3. CASE k = d
      <4>1. HeardFrom(n, d)
        BY DEF HeardFrom, Reaches
      <4> QED BY <1>2, <1>3, <2>2, <2>3, <2>6, <3>1, <3>3, <4>1, PassKeepsSource
    <3> QED BY <3>2, <3>3
  <2> QED BY <2>7, <2>8 DEF GossipInv
<1> QED BY <1>1, <1>8, <1>9

\* The dialer hears what the dialed process passed on, and passes it on to its own dialers.
LEMMA HandleDownPreserves ==
  ASSUME GossipInv, NEW d \in Processes, HandleDown(d)
  PROVE  GossipInv'
<1> DEFINE m == Head(down[d])
           R == helloed[d] \cap Running
<1>1. /\ down[d] # << >> /\ heard' = [heard EXCEPT ![d] = Append(@, m)]
      /\ down' = [broadcast(d, m, NoPeer) EXCEPT ![d] = Tail(@)]
      /\ started' = started /\ stopped' = stopped /\ peer' = peer /\ gossiped' = gossiped
      /\ helloed' = helloed /\ up' = up
  BY DEF HandleDown
<1>2. /\ GossipTypeOK /\ DialsInv /\ SocketsInv
      /\ \A k \in Processes : ~DialedARing(k) => SpreadInv(k)
  BY DEF GossipInv
<1>3. /\ down \in [Processes -> Seq(Processes)] /\ heard \in [Processes -> Seq(Processes)]
      /\ helloed \in [Processes -> SUBSET Processes]
      /\ peer \in [Processes -> Processes \cup {NoPeer}]
      /\ up \in [Processes -> Seq(Processes \cup {HELLO})]
  BY <1>2 DEF GossipTypeOK
<1>4. m \in Processes /\ m \in Elems(down[d])
  <2>1. Head(down[d]) \in Processes /\ Elems(down[d]) = Elems(Tail(down[d])) \cup {Head(down[d])}
    BY <1>1, <1>3, ElemsOfTail
  <2> QED BY <2>1
<1>5. /\ m \in gossiped /\ m \notin Elems(up[m]) /\ peer[m] \in Processes
  BY <1>2, <1>3, <1>4 DEF SocketsInv, DialsInv
<1>6. R \in SUBSET Processes /\ \A x \in R : peer[x] = d
  BY <1>2, <1>3 DEF DialsInv
<1>7. /\ heard' \in [Processes -> Seq(Processes)]
      /\ down' = [x \in Processes |-> down'[x]]
      /\ \A x \in R \ {d} : down'[x] = Append(down[x], m)
      /\ d \in R => down'[d] = Tail(Append(down[d], m))
      /\ d \notin R => down'[d] = Tail(down[d])
      /\ \A x \in Processes \ (R \cup {d}) : down'[x] = down[x]
  <2>1. Append(heard[d], m) \in Seq(Processes)
    BY <1>3, <1>4
  <2> HIDE DEF m
  <2>2. heard' \in [Processes -> Seq(Processes)]
    BY <1>1, <1>3, <2>1
  <2>3. down' = [x \in Processes |-> down'[x]]
    BY <1>1 DEF broadcast
  <2> QED BY <1>1, <1>6, <2>2, <2>3, GossipAssumption DEF broadcast
<1>8. m = Head(down[d])
  OBVIOUS
<1> HIDE DEF R, m
<1>9. Passes(d, m, R)
  BY <1>1, <1>7, <1>8 DEF Passes
<1>10. GossipTypeOK' /\ DialsInv' /\ SocketsInv'
  <2>1. \A x \in Processes : /\ Elems(up'[x]) \subseteq Elems(up[x])
                             /\ Once(up[x], x) => Once(up'[x], x)
                             /\ x = m => x \notin Elems(up'[x])
    BY <1>1, <1>5
  <2>2. up' \in [Processes -> Seq(Processes \cup {HELLO})]
    BY <1>1, <1>3
  <2> QED BY <1>1, <1>4, <1>5, <1>6, <1>7, <1>9, <2>1, <2>2, PassKeepsSockets
<1>11. ASSUME NEW k \in Processes, ~DialedARing(k)' PROVE SpreadInv(k)'
  <2>1. SpreadInv(k) /\ ~DialedARing(k)
    BY <1>1, <1>2, <1>11 DEF DialedARing
  <2>2. CASE k # m
    BY <1>2, <1>4, <1>6, <1>9, <2>1, <2>2, PassKeepsOthers
  <2>3. CASE k = m
    <3>1. /\ m \notin Elems(heard[d]) /\ d # peer[m] /\ d # m
          /\ peer[d] # NoPeer /\ m \in Elems(heard[peer[d]])
      BY <1>4, <2>1, <2>3 DEF SpreadInv
    <3>2. peer[d] \in Processes
      BY <1>3, <3>1
    <3>3. HeardFrom(peer[d], m)
      BY <2>1, <2>3, <3>1, <3>2 DEF SpreadInv
    <3>4. HeardFrom(d, m)
      BY <3>1, <3>3 DEF HeardFrom, Reaches, Closed
    <3>5. \A x \in R : peer[x] = d /\ x # m
      BY <1>6, <3>1
    <3> QED BY <1>2, <1>4, <1>5, <1>6, <1>9, <2>1, <2>3, <3>1, <3>4, <3>5, PassKeepsSource
  <2> QED BY <2>2, <2>3
<1> QED BY <1>10, <1>11 DEF GossipInv

\* What was under way to a process that ends is lost.
LEMMA EndPreserves ==
  ASSUME GossipInv, NEW n \in Processes, n \in Running, End(n)
  PROVE  GossipInv'
<1>1. /\ n \in started /\ stopped' = stopped \cup {n}
      /\ down' = [down EXCEPT ![n] = << >>]
      /\ started' = started /\ peer' = peer /\ gossiped' = gossiped /\ helloed' = helloed
      /\ up' = up /\ heard' = heard
  BY DEF End, Running
<1>2. /\ GossipTypeOK /\ DialsInv /\ SocketsInv
      /\ \A m \in Processes : ~DialedARing(m) => SpreadInv(m)
  BY DEF GossipInv
<1>3. GossipTypeOK'
  BY <1>1, <1>2 DEF GossipTypeOK
<1>4. \A x \in Processes : /\ Elems(down'[x]) \subseteq Elems(down[x])
                           /\ \A m : Once(down[x], m) => Once(down'[x], m)
  <2>1. down'[n] = << >> /\ \A x \in Processes \ {n} : down'[x] = down[x]
    BY <1>1, <1>2 DEF GossipTypeOK
  <2> QED BY <2>1, ElemsOfEmpty
<1>5. DialsInv' /\ SocketsInv'
  BY <1>1, <1>2, <1>4 DEF DialsInv, SocketsInv
<1>6. ASSUME NEW m \in Processes, ~DialedARing(m)' PROVE SpreadInv(m)'
  <2>1. SpreadInv(m)
    BY <1>1, <1>2, <1>6 DEF DialedARing
  <2>2. \A y \in Processes : HeardFrom(y, m)' <=> HeardFrom(y, m)
    BY <1>1 DEF HeardFrom, Reaches, Closed
  <2> QED BY <1>1, <1>4, <2>1, <2>2 DEF SpreadInv
<1> QED BY <1>3, <1>5, <1>6 DEF GossipInv

\* Whomever the processes dial, themselves and each other included, whenever they start,
\* gossip, end or fail, and in whatever order what they send arrives: nobody hears twice
\* the gossip of a process that has not dialed a ring it is no member of, nor anybody its
\* own who has not dialed itself.
THEOREM GossipIsHeardOnce == GossipSpec => []GossipAtMostOnce
<1>1. GossipInit => GossipInv
  BY GossipInvInitially
<1>2. GossipInv /\ [GossipNext]_gossipVars => GossipInv'
  <2> SUFFICES ASSUME GossipInv, [GossipNext]_gossipVars PROVE GossipInv'
    OBVIOUS
  <2>1. CASE UNCHANGED gossipVars
    <3>1. /\ started' = started /\ stopped' = stopped /\ peer' = peer /\ gossiped' = gossiped
          /\ helloed' = helloed /\ up' = up /\ down' = down /\ heard' = heard
      BY <2>1 DEF gossipVars
    <3>2. \A m \in Processes : (SpreadInv(m)' <=> SpreadInv(m)) /\ (DialedARing(m)' <=> DialedARing(m))
      BY <3>1 DEF SpreadInv, HeardFrom, Reaches, Closed, DialedARing
    <3>3. GossipTypeOK' /\ DialsInv' /\ SocketsInv'
      BY <3>1 DEF GossipInv, GossipTypeOK, DialsInv, SocketsInv
    <3> QED BY <3>2, <3>3 DEF GossipInv
  <2>2. ASSUME NEW n \in Processes, Shutdown(n) \/ Fail(n) PROVE GossipInv'
    BY <2>2, EndPreserves DEF Shutdown, Fail
  <2> QED BY <2>1, <2>2, StartPreserves, DialPreserves, GossipPreserves, HandleUpPreserves,
             HandleDownPreserves DEF GossipNext
<1>3. GossipInv => GossipAtMostOnce
  <2> SUFFICES ASSUME GossipInv, NEW n \in Processes, NEW i \in DOMAIN heard[n],
                      ~DialedARing(heard[n][i])
               PROVE  /\ \A j \in DOMAIN heard[n] : heard[n][j] = heard[n][i] => j = i
                      /\ heard[n][i] = n => peer[n] = n
    BY DEF GossipAtMostOnce
  <2> DEFINE m == heard[n][i]
  <2>1. m \in Processes /\ m \in Elems(heard[n])
    BY DEF GossipInv, GossipTypeOK, Elems
  <2>2. Once(heard[n], m) /\ HeardFrom(n, m)
    BY <2>1 DEF GossipInv, SpreadInv
  <2> QED BY <2>2 DEF Once, HeardFrom
<1> QED BY <1>1, <1>2, <1>3, PTL DEF GossipSpec

-----------------------------------------------------------------------------
\* The epoch.  The stakes laid end to end give each active validator an interval of its
\* own, and these make up all numbers below the active stake.
RosterOf(n) == [1..n -> [stake : 1..MaxValidatorStake, active : BOOLEAN]]

Weight(validators, i) == IF validators[i].active THEN validators[i].stake ELSE 0

\* acc holds the active stake up to each of the first k validators.
Accumulates(acc, validators, k) ==
  acc = [i \in 0..k |-> IF i = 0 THEN 0 ELSE acc[i - 1] + Weight(validators, i)]

LEMMA AccumulationExists ==
  ASSUME NEW validators, NEW N \in Nat
  PROVE  \E acc : Accumulates(acc, validators, N)
<1> DEFINE T == {k \in 0..N : \E acc : Accumulates(acc, validators, k)}
<1>1. 0 \in T
  <2> DEFINE acc == [i \in 0..0 |-> 0]
  <2>1. Accumulates(acc, validators, 0)
    BY DEF Accumulates
  <2> QED BY <2>1
<1>2. ASSUME NEW k \in T, k < N PROVE k + 1 \in T
  <2>1. PICK acc : Accumulates(acc, validators, k)
    OBVIOUS
  <2> DEFINE longer == [i \in 0..k+1 |-> IF i = k + 1 THEN acc[k] + Weight(validators, k + 1)
                                         ELSE acc[i]]
  <2>2. \A i \in 0..k : longer[i] = acc[i]
    OBVIOUS
  <2>3. ASSUME NEW i \in 0..k+1
        PROVE  longer[i] = IF i = 0 THEN 0 ELSE longer[i - 1] + Weight(validators, i)
    BY <2>1, <2>2 DEF Accumulates
  <2>4. Accumulates(longer, validators, k + 1)
    BY <2>3 DEF Accumulates
  <2> QED BY <2>4, <1>2
<1> HIDE DEF T
<1>3. T \in SUBSET (0..N)
  BY DEF T
<1>4. T = 0..N
  BY <1>1, <1>2, <1>3, IntervalInduction
<1> QED BY <1>4 DEF T

\* What the active stakes up to each validator are, and that they grow
LEMMA StakesAccumulate ==
  ASSUME NEW n \in Nat, NEW vs \in RosterOf(n)
  PROVE  LET S == StakeUpTo(vs)
         IN  /\ Len(vs) = n /\ DOMAIN vs = 1..n
             /\ S[0] = 0 /\ \A i \in 1..n : S[i] = S[i - 1] + Weight(vs, i)
             /\ \A i \in 1..n : Weight(vs, i) \in Nat
             /\ \A i \in 0..n : S[i] \in Nat
             /\ \A i, j \in 0..n : i <= j => S[i] <= S[j]
<1> DEFINE S == StakeUpTo(vs)
<1>1. Len(vs) = n /\ DOMAIN vs = 1..n
  BY DEF RosterOf
<1>2. Accumulates(S, vs, n)
  <2>1. S = CHOOSE acc : Accumulates(acc, vs, n)
    BY <1>1 DEF StakeUpTo, Accumulates, Weight
  <2> QED BY <2>1, AccumulationExists
<1> HIDE DEF S
<1>3. S[0] = 0 /\ \A i \in 1..n : S[i] = S[i - 1] + Weight(vs, i)
  BY <1>2 DEF Accumulates
<1>4. \A i \in 1..n : Weight(vs, i) \in Nat
  BY SimAssumption DEF RosterOf, Weight
<1> DEFINE T == {k \in 0..n : S[k] \in Nat /\ \A i \in 0..k : S[i] \in Nat /\ S[i] <= S[k]}
<1>5. 0 \in T
  BY <1>3
<1>6. ASSUME NEW k \in T, k < n PROVE k + 1 \in T
  <2>1. S[k + 1] = S[k] + Weight(vs, k + 1) /\ Weight(vs, k + 1) \in Nat
    BY <1>3, <1>4, <1>6
  <2>2. \A i \in 0..k : S[i] \in Nat /\ S[i] <= S[k]
    OBVIOUS
  <2>3. S[k] \in Nat /\ k \in Nat /\ k + 1 \in 0..n
    BY <1>6
  <2>4. S[k + 1] \in Nat /\ S[k] <= S[k + 1]
    BY <2>1, <2>3
  <2>5. ASSUME NEW i \in 0..k+1 PROVE S[i] \in Nat /\ S[i] <= S[k + 1]
    <3>1. CASE i = k + 1
      BY <2>4, <3>1
    <3>2. CASE i # k + 1
      <4>1. i \in 0..k
        BY <2>3, <3>2
      <4>2. S[i] \in Nat /\ S[i] <= S[k]
        BY <2>2, <4>1
      <4> QED BY <2>3, <2>4, <4>2
    <3> QED BY <3>1, <3>2
  <2> QED BY <2>3, <2>4, <2>5
<1> HIDE DEF T
<1>7. T \in SUBSET (0..n)
  BY DEF T
<1>8. T = 0..n
  BY <1>5, <1>6, <1>7, IntervalInduction
<1>9. /\ \A i \in 0..n : S[i] \in Nat
      /\ \A i, j \in 0..n : i <= j => S[i] <= S[j]
  BY <1>8 DEF T
<1> QED BY <1>1, <1>3, <1>4, <1>9 DEF S

\* A number below the active stake lies in the interval of the validator it draws.
LEMMA PickIsInterval ==
  ASSUME NEW n \in Nat, NEW vs \in RosterOf(n), NEW r \in 0..(totalStake(vs) - 1)
  PROVE  LET v == weightedPick(vs, r)
         IN  /\ v \in 1..n /\ vs[v].active
             /\ StakeUpTo(vs)[v - 1] <= r /\ r < StakeUpTo(vs)[v]
             /\ \A i \in 1..n : StakeUpTo(vs)[i - 1] <= r /\ r < StakeUpTo(vs)[i] => i = v
<1> DEFINE S == StakeUpTo(vs)
           v == weightedPick(vs, r)
<1>1. /\ Len(vs) = n /\ DOMAIN vs = 1..n
      /\ S[0] = 0 /\ \A i \in 1..n : S[i] = S[i - 1] + Weight(vs, i)
      /\ \A i \in 0..n : S[i] \in Nat
      /\ \A i, j \in 0..n : i <= j => S[i] <= S[j]
  BY StakesAccumulate
<1>2. r \in Nat /\ r < S[n]
  BY <1>1 DEF totalStake
<1>3. ActiveIn(vs) = {i \in 1..n : vs[i].active}
  BY <1>1 DEF ActiveIn
<1>4. v = CHOOSE i \in ActiveIn(vs) : /\ r < S[i]
                                      /\ \A j \in ActiveIn(vs) : j < i => r >= S[j]
  BY DEF weightedPick
<1> HIDE DEF S, v
<1>5. PICK i \in 1..n : S[i - 1] <= r /\ r < S[i]
  <2> DEFINE T == {k \in 0..n : r < S[k]}
  <2>1. n \in T /\ 0 \notin T
    BY <1>1, <1>2
  <2>2. PICK m \in T : \A k \in T : m <= k
    <3>1. T \in SUBSET (0..n) /\ T # {}
      BY <2>1
    <3> HIDE DEF T
    <3> QED BY <3>1, LeastElement
  <2>3. m \in 1..n /\ r < S[m] /\ m - 1 \in 0..n /\ m - 1 \notin T
    BY <2>1, <2>2
  <2>4. S[m - 1] <= r
    BY <1>1, <1>2, <2>3
  <2> QED BY <2>3, <2>4
<1>6. i \in ActiveIn(vs)
  <2>1. S[i] = S[i - 1] + Weight(vs, i)
    BY <1>1
  <2>2. i - 1 \in 0..n /\ i \in 0..n
    OBVIOUS
  <2>3. S[i - 1] \in Nat /\ S[i] \in Nat
    BY <1>1, <2>2
  <2>4. Weight(vs, i) # 0
    BY <1>2, <1>5, <2>1, <2>3
  <2> QED BY <1>3, <2>4 DEF Weight
<1>7. \A j \in ActiveIn(vs) : j < i => r >= S[j]
  <2> SUFFICES ASSUME NEW j \in 1..n, j < i PROVE r >= S[j]
    BY <1>3
  <2>1. j \in 0..n /\ i - 1 \in 0..n /\ j <= i - 1
    OBVIOUS
  <2>2. S[j] <= S[i - 1] /\ S[j] \in Nat /\ S[i - 1] \in Nat
    BY <1>1, <2>1
  <2> QED BY <1>2, <1>5, <2>2
<1>8. /\ v \in ActiveIn(vs) /\ r < S[v] /\ \A j \in ActiveIn(vs) : j < v => r >= S[j]
  BY <1>4, <1>5, <1>6, <1>7
\* Of two intervals that hold r, neither comes first.
<1>9. \A k \in 1..n : S[k - 1] <= r /\ r < S[k] => k = i
  <2> SUFFICES ASSUME NEW k \in 1..n, S[k - 1] <= r, r < S[k] PROVE k = i
    OBVIOUS
  <2>1. k \in 0..n /\ i \in 0..n /\ k - 1 \in 0..n /\ i - 1 \in 0..n
    OBVIOUS
  <2>2. S[k] \in Nat /\ S[i] \in Nat /\ S[k - 1] \in Nat /\ S[i - 1] \in Nat
    BY <1>1, <2>1
  <2>3. CASE k < i
    <3>1. k <= i - 1
      BY <2>3
    <3>2. S[k] <= S[i - 1]
      BY <1>1, <2>1, <3>1
    <3> QED BY <1>2, <1>5, <2>2, <3>2
  <2>4. CASE i < k
    <3>1. i <= k - 1
      BY <2>4
    <3>2. S[i] <= S[k - 1]
      BY <1>1, <2>1, <3>1
    <3> QED BY <1>2, <1>5, <2>2, <3>2
  <2> QED BY <2>3, <2>4
<1>10. v = i
  <2>1. v \in 1..n /\ v \in 0..n /\ i - 1 \in 0..n
    BY <1>3, <1>8
  <2>2. S[v] \in Nat /\ S[i] \in Nat /\ S[i - 1] \in Nat
    BY <1>1, <2>1
  <2>3. CASE v < i
    <3>1. v <= i - 1
      BY <2>1, <2>3
    <3>2. S[v] <= S[i - 1]
      BY <1>1, <2>1, <3>1
    <3> QED BY <1>2, <1>5, <1>8, <2>2, <3>2
  <2>4. CASE i < v
    BY <1>2, <1>5, <1>6, <1>8, <2>2, <2>4
  <2> QED BY <2>1, <2>3, <2>4
<1>11. v \in 1..n /\ vs[v].active /\ S[v - 1] <= r /\ r < S[v]
  BY <1>3, <1>5, <1>6, <1>10
<1> QED BY <1>9, <1>10, <1>11 DEF S, v

LEMMA LotteryOfRoster ==
  ASSUME NEW n \in Nat, NEW vs \in RosterOf(n), NEW v \in 1..n
  PROVE  Cardinality({r \in 0..(totalStake(vs) - 1) : weightedPick(vs, r) = v}) = Weight(vs, v)
<1> DEFINE S == StakeUpTo(vs)
           drawn == {r \in 0..(totalStake(vs) - 1) : weightedPick(vs, r) = v}
<1>1. /\ Len(vs) = n /\ S[v] = S[v - 1] + Weight(vs, v) /\ Weight(vs, v) \in Nat
      /\ \A i \in 0..n : S[i] \in Nat
      /\ \A i, j \in 0..n : i <= j => S[i] <= S[j]
  BY StakesAccumulate
<1>2. totalStake(vs) = S[n]
  BY <1>1 DEF totalStake
<1>3. S[n] \in Nat /\ S[v] \in Nat /\ S[v - 1] \in Nat /\ S[v] <= S[n]
  <2>1. v \in 0..n /\ v - 1 \in 0..n /\ n \in 0..n /\ v <= n
    OBVIOUS
  <2> HIDE DEF S
  <2> QED BY <1>1, <2>1
<1>4. \A r \in 0..(totalStake(vs) - 1) : weightedPick(vs, r) = v <=> S[v - 1] <= r /\ r < S[v]
  BY PickIsInterval
<1> HIDE DEF S
<1>5. drawn = S[v - 1]..(S[v] - 1)
  BY <1>2, <1>3, <1>4
<1>6. Cardinality(S[v - 1]..(S[v] - 1)) = Weight(vs, v)
  <2> DEFINE a == S[v - 1]
             b == S[v] - 1
  <2>1. a \in Int /\ b \in Int /\ (IF a > b THEN 0 ELSE b - a + 1) = Weight(vs, v)
    BY <1>1, <1>3
  <2> HIDE DEF a, b
  <2>2. Cardinality(a..b) = Weight(vs, v)
    BY <2>1, FS_Interval
  <2> QED BY <2>2 DEF a, b
<1> QED BY <1>5, <1>6

\* Every draw of an epoch is among one roster.
LEMMA RosterShape ==
  ASSUME roster \in Rosters
  PROVE  \E n \in Nat : roster \in RosterOf(n) /\ DOMAIN roster = 1..n
<1>1. PICK n \in 1..MaxValidators : roster \in RosterOf(n)
  BY DEF Rosters, RosterOf
<1>2. n \in Nat
  BY SimAssumption
<1> QED BY <1>1, <1>2 DEF RosterOf

\* The timeouts of a validator so far
Missed(v) == {i \in DOMAIN results : results[i].status = "timeout" /\ results[i].validator = v}
Confirmed == {i \in DOMAIN results : results[i].status = "confirmed"}

Penalty(misses) == IF misses = 0 THEN 0 ELSE SLASH * (misses - 1)

\* Uptime counts the timeouts down, confirmed counts the confirmed branches up.
SimInv ==
  /\ roster \in Rosters /\ scenario \in DOMAIN Scenarios
  /\ results \in Seq([validator : DOMAIN roster, status : {"confirmed", "rejected", "timeout"}])
  /\ uptime \in [DOMAIN roster -> Int] /\ slashed \in [DOMAIN roster -> Int]
  /\ \A v \in DOMAIN roster : /\ uptime[v] = START_UPTIME - Cardinality(Missed(v))
                              /\ slashed[v] = Penalty(Cardinality(Missed(v)))
  /\ confirmed = Cardinality(Confirmed)

LEMMA SimInvInitially == SimInit => SimInv
<1> SUFFICES ASSUME SimInit PROVE SimInv
  OBVIOUS
<1>1. /\ roster \in Rosters /\ scenario \in DOMAIN Scenarios /\ results = << >>
      /\ uptime = [v \in DOMAIN roster |-> START_UPTIME]
      /\ slashed = [v \in DOMAIN roster |-> 0] /\ confirmed = 0
  BY DEF SimInit
<1>2. Confirmed = {} /\ \A v \in DOMAIN roster : Missed(v) = {}
  BY <1>1 DEF Confirmed, Missed
<1>3. Cardinality({}) = 0
  BY FS_EmptySet
<1>4. /\ results \in Seq([validator : DOMAIN roster, status : {"confirmed", "rejected", "timeout"}])
      /\ uptime \in [DOMAIN roster -> Int] /\ slashed \in [DOMAIN roster -> Int]
  BY <1>1 DEF START_UPTIME
<1>5. \A v \in DOMAIN roster : /\ uptime[v] = START_UPTIME - Cardinality(Missed(v))
                               /\ slashed[v] = Penalty(Cardinality(Missed(v)))
  <2> SUFFICES ASSUME NEW v \in DOMAIN roster
               PROVE  /\ uptime[v] = START_UPTIME - Cardinality(Missed(v))
                      /\ slashed[v] = Penalty(Cardinality(Missed(v)))
    OBVIOUS
  <2>1. Cardinality(Missed(v)) = 0
    BY <1>2, <1>3
  <2>2. uptime[v] = START_UPTIME /\ slashed[v] = 0
    BY <1>1
  <2> QED BY <2>1, <2>2 DEF Penalty, START_UPTIME
<1>6. confirmed = Cardinality(Confirmed)
  BY <1>1, <1>2, <1>3
<1> QED BY <1>1, <1>4, <1>5, <1>6 DEF SimInv

\* A set of branches gains at most the new one.
LEMMA OneBranchMore ==
  ASSUME NEW k \in Nat, NEW s \in SUBSET (1..k), NEW t,
         t = s \/ t = s \cup {k + 1}
  PROVE  /\ Cardinality(s) \in Nat
         /\ t = s \cup {k + 1} => Cardinality(t) = Cardinality(s) + 1
<1>1. IsFiniteSet(1..k)
  BY FS_Interval
<1>2. IsFiniteSet(s) /\ Cardinality(s) \in Nat
  BY <1>1, FS_Subset, FS_CardinalityType
<1>3. k + 1 \notin s
  OBVIOUS
<1> QED BY <1>2, <1>3, FS_AddElement

LEMMA ValidatePreserves ==
  ASSUME SimInv, NEW r \in 0..(totalStake(roster) - 1), NEW status \in Scenarios[scenario],
         ValidateBranch(r, status)
  PROVE  SimInv'
<1> DEFINE v == weightedPick(roster, r)
           entry == [validator |-> v, status |-> status]
           k == Len(results)
           Statuses == {"confirmed", "rejected", "timeout"}
           Results == [validator : DOMAIN roster, status : Statuses]
<1>1. /\ results' = Append(results, entry)
      /\ confirmed' = confirmed + (IF status = "confirmed" THEN 1 ELSE 0)
      /\ status = "timeout" =>
           /\ uptime' = [uptime EXCEPT ![v] = @ - 1]
           /\ slashed' = [slashed EXCEPT ![v] =
                IF uptime[v] - 1 < MIN_UPTIME THEN @ + SLASH ELSE @]
      /\ status # "timeout" => uptime' = uptime /\ slashed' = slashed
      /\ roster' = roster /\ scenario' = scenario
  BY DEF ValidateBranch
<1>2. /\ roster \in Rosters /\ scenario \in DOMAIN Scenarios
      /\ results \in Seq(Results)
      /\ uptime \in [DOMAIN roster -> Int] /\ slashed \in [DOMAIN roster -> Int]
      /\ \A x \in DOMAIN roster : /\ uptime[x] = START_UPTIME - Cardinality(Missed(x))
                                  /\ slashed[x] = Penalty(Cardinality(Missed(x)))
      /\ confirmed = Cardinality(Confirmed)
  BY DEF SimInv
<1>3. v \in DOMAIN roster
  BY <1>2, RosterShape, PickIsInterval
<1>4. status \in Statuses
  BY <1>2 DEF Scenarios
<1> HIDE DEF v
<1>5. entry \in Results /\ entry.validator = v /\ entry.status = status
  BY <1>3, <1>4
<1> HIDE DEF entry, Results
<1>6. /\ results' \in Seq(Results) /\ k \in Nat
      /\ DOMAIN results = 1..k /\ DOMAIN results' = 1..k+1
      /\ results'[k + 1] = entry /\ \A i \in 1..k : results'[i] = results[i]
  BY <1>1, <1>2, <1>5
<1> HIDE DEF k
<1>7. Confirmed' = Confirmed \cup (IF status = "confirmed" THEN {k + 1} ELSE {})
  BY <1>5, <1>6 DEF Confirmed
<1>8. \A x \in DOMAIN roster :
        Missed(x)' = Missed(x) \cup (IF status = "timeout" /\ x = v THEN {k + 1} ELSE {})
  BY <1>5, <1>6 DEF Missed
<1>9. Confirmed \in SUBSET (1..k) /\ \A x \in DOMAIN roster : Missed(x) \in SUBSET (1..k)
  BY <1>6 DEF Confirmed, Missed
<1>10. confirmed' = Cardinality(Confirmed')
  <2>1. CASE status = "confirmed"
    <3>1. Confirmed' = Confirmed \cup {k + 1}
      BY <1>7, <2>1
    <3>2. Cardinality(Confirmed') = Cardinality(Confirmed) + 1
      BY <1>6, <1>9, <3>1, OneBranchMore
    <3> QED BY <1>1, <1>2, <2>1, <3>2
  <2>2. CASE status # "confirmed"
    <3>1. Confirmed' = Confirmed /\ Cardinality(Confirmed) \in Nat
      BY <1>6, <1>7, <1>9, <2>2, OneBranchMore
    <3> QED BY <1>1, <1>2, <2>2, <3>1
  <2> QED BY <2>1, <2>2
<1>11. ASSUME NEW x \in DOMAIN roster
       PROVE  /\ uptime'[x] = START_UPTIME - Cardinality(Missed(x)')
              /\ slashed'[x] = Penalty(Cardinality(Missed(x)'))
              /\ uptime'[x] \in Int /\ slashed'[x] \in Int
  <2>1. /\ uptime[x] = START_UPTIME - Cardinality(Missed(x)) /\ uptime[x] \in Int
        /\ slashed[x] = Penalty(Cardinality(Missed(x))) /\ slashed[x] \in Int
        /\ Cardinality(Missed(x)) \in Nat
    BY <1>2, <1>6, <1>9, OneBranchMore
  <2>2. CASE status = "timeout" /\ x = v
    <3>1. Missed(x)' = Missed(x) \cup {k + 1}
      BY <1>8, <2>2
    <3>2. Cardinality(Missed(x)') = Cardinality(Missed(x)) + 1
      BY <1>6, <1>9, <3>1, OneBranchMore
    <3>3. /\ uptime'[x] = uptime[x] - 1
          /\ slashed'[x] = IF uptime[x] - 1 < MIN_UPTIME THEN slashed[x] + SLASH ELSE slashed[x]
      BY <1>1, <1>2, <1>3, <2>2
    <3> QED BY <2>1, <3>2, <3>3 DEF Penalty, START_UPTIME, MIN_UPTIME, SLASH
  <2>3. CASE ~(status = "timeout" /\ x = v)
    <3>1. Missed(x)' = Missed(x)
      BY <1>8, <2>3
    <3>2. uptime'[x] = uptime[x] /\ slashed'[x] = slashed[x]
      BY <1>1, <1>2, <1>3, <2>3
    <3> QED BY <2>1, <3>1, <3>2
  <2> QED BY <2>2, <2>3
<1>12. uptime' \in [DOMAIN roster -> Int] /\ slashed' \in [DOMAIN roster -> Int]
  <2>1. DOMAIN uptime' = DOMAIN roster /\ DOMAIN slashed' = DOMAIN roster
    BY <1>1, <1>2
  <2>2. uptime' = [x \in DOMAIN uptime' |-> uptime'[x]] /\ slashed' = [x \in DOMAIN slashed' |-> slashed'[x]]
    BY <1>1, <1>2
  <2> QED BY <1>11, <2>1, <2>2
<1> QED BY <1>1, <1>2, <1>6, <1>10, <1>11, <1>12 DEF SimInv, Results

LEMMA SimInvHolds == SimSpec => []SimInv
<1>1. SimInv /\ [SimNext]_simVars => SimInv'
  <2> SUFFICES ASSUME SimInv, [SimNext]_simVars PROVE SimInv'
    OBVIOUS
  <2>1. CASE UNCHANGED simVars
    BY <2>1 DEF simVars, SimInv, Missed, Confirmed
  <2> QED BY <2>1, ValidatePreserves DEF SimNext
<1> QED BY <1>1, SimInvInitially, PTL DEF SimSpec

\* For every roster: of the numbers below the active stake exactly as many draw an active
\* validator as it has staked, and none draws another.
THEOREM DrawIsFair == SimSpec => []LotteryIsProportional
<1>1. SimInv => LotteryIsProportional
  <2> SUFFICES ASSUME SimInv, NEW v \in DOMAIN roster
               PROVE  Cardinality({r \in 0..(totalStake(roster) - 1) : weightedPick(roster, r) = v})
                        = IF roster[v].active THEN roster[v].stake ELSE 0
    BY DEF LotteryIsProportional
  <2>1. PICK n \in Nat : roster \in RosterOf(n) /\ DOMAIN roster = 1..n
    BY RosterShape DEF SimInv
  <2> QED BY <2>1, LotteryOfRoster DEF Weight
<1> QED BY <1>1, SimInvHolds, PTL

\* Whatever the validators answer, each is slashed for every timeout of its own but the
\* first, and an epoch is final only with more than two thirds of its branches confirmed.
THEOREM TimeoutsArePaid == SimSpec => []SlashedForTimeouts
<1>1. SimInv => SlashedForTimeouts
  <2> SUFFICES ASSUME SimInv PROVE SlashedForTimeouts
    OBVIOUS
  <2>1. ASSUME NEW v \in DOMAIN roster
        PROVE  LET missed == {i \in BranchesWith("timeout") : results[i].validator = v}
               IN  slashed[v] = IF missed = {} THEN 0 ELSE SLASH * (Cardinality(missed) - 1)
    <3>1. {i \in BranchesWith("timeout") : results[i].validator = v} = Missed(v)
      BY DEF BranchesWith, Missed
    <3>2. Missed(v) \in SUBSET (1..Len(results)) /\ Len(results) \in Nat
      BY DEF Missed, SimInv
    <3>3. IsFiniteSet(Missed(v))
      <4>1. IsFiniteSet(1..Len(results))
        BY <3>2, FS_Interval
      <4> QED BY <3>2, <4>1, FS_Subset
    <3>4. Cardinality(Missed(v)) = 0 <=> Missed(v) = {}
      BY <3>3, FS_EmptySet
    <3> QED BY <3>1, <3>4 DEF SimInv, Penalty
  <2>2. finality => 3 * Cardinality(BranchesWith("confirmed")) > 2 * TOTAL_BRANCHES
    <3>1. BranchesWith("confirmed") = Confirmed /\ confirmed = Cardinality(Confirmed)
      BY DEF BranchesWith, Confirmed, SimInv
    <3>2. Confirmed \in SUBSET (1..Len(results)) /\ Len(results) \in Nat
      BY DEF Confirmed, SimInv
    <3>3. Cardinality(Confirmed) \in Nat
      BY <3>2, OneBranchMore
    <3>4. confirmed >= REQUIRED_CONFIRMATIONS => 3 * confirmed > 2 * TOTAL_BRANCHES
      <4>1. confirmed \in Nat
        BY <3>1, <3>3
      <4> QED BY <4>1, SimAssumption DEF REQUIRED_CONFIRMATIONS
    <3> QED BY <3>1, <3>4 DEF finality
  <2> QED BY <2>1, <2>2 DEF SlashedForTimeouts
<1> QED BY <1>1, SimInvHolds, PTL
=============================================================================
