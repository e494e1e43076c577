-------------------------- MODULE ValidatorDaemon --------------------------
(***************************************************************************)
(* A validator process that keeps its position and a log of the messages   *)
(* it accepted in two files (validator_daemon.js, storage.js), fed by a    *)
(* network that drops, delays and reorders (async_network.js).  It may be  *)
(* killed at any point.  A file is written in place, so a write that is    *)
(* cut short leaves a file that cannot be parsed; one that does not exist  *)
(* is read as its fallback, which is the initial value here.               *)
(***************************************************************************)
EXTENDS Naturals, Sequences

CONSTANTS Messages,      \* records with a height and a round
          MaxDelay,
          MaxSends, MaxCrashes   \* bounds

ASSUME DaemonAssumption ==
  /\ Messages \subseteq [height : Nat, round : Nat]
  /\ MaxDelay \in Nat /\ MaxSends \in Nat /\ MaxCrashes \in Nat

Files == {"daemon_state", "message_log"}
DaemonState == [height : Nat, round : Nat, running : BOOLEAN, processedMessages : Nat]
Envelope == [id : 1..MaxSends, message : Messages, delay : 0..MaxDelay]

VARIABLES
  state,         \* in memory
  pc,            \* what the process is doing, "down" when there is none
  savedState, messageLog,   \* the files
  torn,          \* the files that cannot be parsed
  handling,      \* the message it is handling, none or one
  queue,         \* messages under way, in the order of their ids, with the time left
  due,           \* those the present tick still has to hand over
  sends, crashes

process == <<state, pc, handling>>
daemonVars == <<process, savedState, messageLog, torn, queue, due, sends, crashes>>
disk == <<savedState, messageLog, torn>>
network == <<queue, due, sends>>

DaemonTypeOK ==
  /\ state \in DaemonState /\ savedState \in DaemonState
  /\ pc \in {"down", "idle", "persisting", "accepting", "appending"}
  /\ messageLog \in Seq(Messages) /\ torn \subseteq Files
  /\ handling \in {<< >>} \cup {<<m>> : m \in Messages}
  /\ queue \subseteq Envelope /\ due \subseteq Envelope
  /\ sends \in 0..MaxSends /\ crashes \in 0..MaxCrashes
  /\ (pc \in {"accepting", "appending"}) <=> (handling # << >>)

FreshState == [height |-> 0, round |-> 0, running |-> FALSE, processedMessages |-> 0]

DaemonInit ==
  /\ state = FreshState /\ pc = "down" /\ handling = << >>
  /\ savedState = FreshState /\ messageLog = << >> /\ torn = {}
  /\ queue = {} /\ due = {} /\ sends = 0 /\ crashes = 0

\* A message that is dropped is one that is not sent.
Send(m, delay) ==
  /\ sends < MaxSends
  /\ sends' = sends + 1
  /\ queue' = queue \cup {[id |-> sends + 1, message |-> m, delay |-> delay]}
  /\ UNCHANGED <<process, disk, due, crashes>>

\* All that is due is handed over in the order it was sent; to a process that
\* is down it is lost.
Tick ==
  /\ queue # {} /\ due = {} /\ pc \in {"down", "idle"}
  /\ queue' = {[e EXCEPT !.delay = @ - 1] : e \in {e \in queue : e.delay > 1}}
  /\ due' = IF pc = "down" THEN {} ELSE {e \in queue : e.delay <= 1}
  /\ UNCHANGED <<process, disk, sends, crashes>>

Construct ==
  /\ pc = "down" /\ "daemon_state" \notin torn
  /\ state' = savedState
  /\ pc' = "idle"
  /\ UNCHANGED <<handling, disk, network, crashes>>

SetRunning(running) ==
  /\ pc = "idle"
  /\ state' = [state EXCEPT !.running = running]
  /\ pc' = "persisting"
  /\ UNCHANGED <<handling, disk, network, crashes>>

Start == SetRunning(TRUE)
Stop == SetRunning(FALSE)

Stale(m, s) == m.height < s.height \/ (m.height = s.height /\ m.round < s.round)

\* Mutant: only the height is compared
HandleMessageByHeight ==
  /\ pc = "idle"
  /\ \E e \in due :
       /\ \A other \in due : e.id <= other.id
       /\ due' = due \ {e}
       /\ LET m == e.message
          IN  IF ~state.running \/ m.height < state.height
              THEN UNCHANGED process
              ELSE /\ state' = [state EXCEPT !.height = m.height, !.round = m.round,
                                             !.processedMessages = @ + 1]
                   /\ pc' = "accepting" /\ handling' = <<m>>
  /\ UNCHANGED <<disk, queue, sends, crashes>>

\* Mutant: what is refused counts as processed
HandleMessageCounting ==
  /\ pc = "idle"
  /\ \E e \in due :
       /\ \A other \in due : e.id <= other.id
       /\ due' = due \ {e}
       /\ LET m == e.message
          IN  IF ~state.running \/ Stale(m, state)
              THEN /\ state' = [state EXCEPT !.processedMessages = @ + 1]
                   /\ UNCHANGED <<pc, handling>>
              ELSE /\ state' = [state EXCEPT !.height = m.height, !.round = m.round,
                                             !.processedMessages = @ + 1]
                   /\ pc' = "accepting" /\ handling' = <<m>>
  /\ UNCHANGED <<disk, queue, sends, crashes>>

HandleMessage ==
  /\ pc = "idle"
  /\ \E e \in due :
       /\ \A other \in due : e.id <= other.id
       /\ due' = due \ {e}
       /\ LET m == e.message
          IN  IF ~state.running \/ Stale(m, state)
              THEN UNCHANGED process
              ELSE /\ state' = [state EXCEPT !.height = m.height, !.round = m.round,
                                             !.processedMessages = @ + 1]
                   /\ pc' = "accepting" /\ handling' = <<m>>
  /\ UNCHANGED <<disk, queue, sends, crashes>>

Persist ==
  /\ pc \in {"persisting", "accepting"}
  /\ savedState' = state
  /\ pc' = IF pc = "accepting" THEN "appending" ELSE "idle"
  /\ UNCHANGED <<state, handling, messageLog, torn, network, crashes>>

AppendToLog ==
  /\ pc = "appending" /\ "message_log" \notin torn
  /\ messageLog' = messageLog \o handling
  /\ pc' = "idle" /\ handling' = << >>
  /\ UNCHANGED <<state, savedState, torn, network, crashes>>

\* The log is read before it is written; nobody catches what that throws.
AppendThrows ==
  /\ pc = "appending" /\ "message_log" \in torn
  /\ pc' = "down" /\ handling' = << >> /\ due' = {}
  /\ UNCHANGED <<state, disk, queue, sends, crashes>>

BeingWritten == IF pc \in {"persisting", "accepting"} THEN {"daemon_state"}
                ELSE IF pc = "appending" THEN {"message_log"} ELSE {}

Crash ==
  /\ pc # "down" /\ crashes < MaxCrashes
  /\ crashes' = crashes + 1
  /\ pc' = "down" /\ handling' = << >> /\ due' = {}
  /\ torn' \in {torn, torn \cup BeingWritten}
  /\ UNCHANGED <<state, savedState, messageLog, queue, sends>>

DaemonNext ==
  \/ \E m \in Messages, delay \in 0..MaxDelay : Send(m, delay)
  \/ Tick \/ Construct \/ Start \/ Stop
  \/ HandleMessage \/ Persist \/ AppendToLog \/ AppendThrows \/ Crash

DaemonSpec == DaemonInit /\ [][DaemonNext]_daemonVars
-----------------------------------------------------------------------------
\* The log never lists a message after a newer one, although messages overtake
\* each other and restarts come in between, and it is never ahead of the position
\* the daemon will restart from.
LogIsOrdered ==
  /\ \A j \in 1..Len(messageLog) : \A i \in 1..j : ~Stale(messageLog[j], messageLog[i])
  /\ \A i \in 1..Len(messageLog) : ~Stale(savedState, messageLog[i])

\* As long as both files can be parsed the log has every message that was counted
\* but for at most one per crash, and never one that was not counted.
CrashLosesOneEntry ==
  torn = {} =>
    /\ Len(messageLog) <= savedState.processedMessages
    /\ savedState.processedMessages <=
         Len(messageLog) + crashes + (IF pc = "appending" THEN 1 ELSE 0)
=============================================================================
