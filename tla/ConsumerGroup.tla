---------------------------- MODULE ConsumerGroup ----------------------------
(***************************************************************************)
(* What TaskProcessor.Start and StateReplicator.Start of core/pkg/kafka    *)
(* have in common: on every pod a loop that fetches a message, works on it *)
(* and commits its offset, as one consumer group.  The work itself is left *)
(* open: it may end well (Finish) or not (GiveUp), in one part or in two.  *)
(*                                                                         *)
(* One partition of the topic is modelled: order, position and commits are *)
(* per partition.  The reader (kafka-go) keeps its position in memory and  *)
(* goes back to the committed offset only when the group hands it the      *)
(* partition anew.                                                         *)
(***************************************************************************)
EXTENDS Naturals, FiniteSets

CONSTANTS
  Pods,       \* replicas of the service
  MaxLen,     \* bound on the messages produced
  None        \* the partition is assigned to nobody

ASSUME GroupAssumption == MaxLen \in Nat /\ None \notin Pods

VARIABLES
  \* Kafka
  len,        \* length of the partition
  committed,  \* the group's committed offset
  generation, \* generations of the group so far
  members,    \* the pods in the current one
  owner,      \* the one the partition is assigned to
  \* each pod's reader and loop
  reading,    \* its reader serves the partition
  pos,        \* the offset its reader serves next
  pc,         \* where the loop of Start is
  task,       \* the offset it works on
  cancelled,  \* ctx.Done() is closed
  \* history
  settled     \* messages whose work came to an end, good or bad

assignmentVars == <<generation, members, owner, reading, pos>>
groupVars == <<len, committed, assignmentVars, pc, task, cancelled, settled>>

Offsets == 0 .. MaxLen - 1

\* down: not running; idle: in FetchMessage; handling: the message is at hand;
\* storing: its handler is half done, PostgreSQL is next; committing:
\* CommitMessages
PC       == {"down", "idle", "handling", "storing", "committing"}
AtWork   == {"handling", "storing"}
Busy     == AtWork \cup {"committing"}

GroupTypeOK ==
  /\ len        \in 0 .. MaxLen
  /\ committed  \in 0 .. len
  /\ generation \in Nat
  /\ members    \in SUBSET Pods
  /\ owner      \in Pods \cup {None}
  /\ reading    \in [Pods -> BOOLEAN]
  /\ pos        \in [Pods -> 0 .. len]
  /\ pc         \in [Pods -> PC]
  /\ task       \in [Pods -> 0 .. MaxLen]
  /\ cancelled  \in [Pods -> BOOLEAN]
  /\ settled    \in SUBSET Offsets

GroupInit ==
  /\ len        = 0
  /\ committed  = 0
  /\ generation = 0
  /\ members    = {}
  /\ owner      = None
  /\ reading    = [p \in Pods |-> FALSE]
  /\ pos        = [p \in Pods |-> 0]
  /\ pc         = [p \in Pods |-> "idle"]
  /\ task       = [p \in Pods |-> 0]
  /\ cancelled  = [p \in Pods |-> FALSE]
  /\ settled    = {}

-----------------------------------------------------------------------------
(***************************************************************************)
(* Helpers                                                                 *)
(***************************************************************************)
Goto(p, where) == pc' = [pc EXCEPT ![p] = where]

Alive == {p \in Pods : pc[p] # "down"}

\* Pods that still read although the group has gone on without them.
Zombies == {p \in Alive : reading[p] /\ p \notin members}

-----------------------------------------------------------------------------
(***************************************************************************)
(* Seeded mistakes: variants of definitions below, not part of GroupSpec.  *)
(***************************************************************************)

\* StartOffset kafka.LastOffset: what was produced before the first commit is
\* not read.
NewGenerationAtEnd(M, o) ==
  /\ generation' = generation + 1
  /\ members' = M
  /\ owner' = o
  /\ reading' = [p \in Pods |-> IF p \in M THEN p = o ELSE reading[p]]
  /\ pos' = [pos EXCEPT ![o] = IF committed = 0 THEN len ELSE committed]
  /\ UNCHANGED <<len, committed, pc, task, cancelled, settled>>

\* A failed commit repeats the handler, not the commit.
CommitFailedRepeats(p) ==
  /\ pc[p] = "committing"
  /\ Goto(p, "handling")
  /\ UNCHANGED <<len, committed, assignmentVars, task, cancelled, settled>>

-----------------------------------------------------------------------------
(***************************************************************************)
(* The topic and the group                                                 *)
(***************************************************************************)
Produce ==
  /\ len < MaxLen
  /\ len' = len + 1
  /\ UNCHANGED <<committed, assignmentVars, pc, task, cancelled, settled>>

\* A new generation of the group: its members' readers drop what they had, and
\* the one that gets the partition starts at the committed offset (or at the
\* first one: kafka.FirstOffset).  What a loop has in hand stays there.
NewGeneration(M, o) ==
  /\ generation' = generation + 1
  /\ members' = M
  /\ owner' = o
  /\ reading' = [p \in Pods |-> IF p \in M THEN p = o ELSE reading[p]]
  /\ pos' = [pos EXCEPT ![o] = committed]
  /\ UNCHANGED <<len, committed, pc, task, cancelled, settled>>

\* A pod joins, a session times out or the owner has left.
Rebalance ==
  /\ members # Alive \ Zombies \/ owner = None
  /\ \E o \in Alive \ Zombies : NewGeneration(Alive \ Zombies, o)

\* A rebalance out of the blue; a pod that misses it (a pause, a partition, a
\* handler that outlasts the session) becomes a zombie.
Evict ==
  \E M \in SUBSET (Alive \ Zombies) : \E o \in M : NewGeneration(M, o)

\* A zombie's heartbeat is refused: its reader gives the partition up.
Notice(p) ==
  /\ p \in Zombies
  /\ reading' = [reading EXCEPT ![p] = FALSE]
  /\ UNCHANGED <<len, committed, generation, members, owner, pos, pc, task,
                 cancelled, settled>>

-----------------------------------------------------------------------------
(***************************************************************************)
(* The loop of Start                                                       *)
(***************************************************************************)
Fetch(p) ==
  /\ pc[p] = "idle" /\ ~cancelled[p]
  /\ reading[p] /\ pos[p] < len
  /\ task' = [task EXCEPT ![p] = pos[p]]
  /\ pos' = [pos EXCEPT ![p] = @ + 1]
  /\ Goto(p, "handling")
  /\ UNCHANGED <<len, committed, generation, members, owner, reading, cancelled, settled>>

\* "Fetch error": the loop goes on.
FetchError(p) ==
  /\ pc[p] = "idle" /\ ~cancelled[p]
  /\ UNCHANGED groupVars

\* The first part of the work is done.
Halfway(p) ==
  /\ pc[p] = "handling"
  /\ Goto(p, "storing")
  /\ UNCHANGED <<len, committed, assignmentVars, task, cancelled, settled>>

\* The handler returned nil: the message is committed next.
Finish(p) ==
  /\ pc[p] \in AtWork
  /\ settled' = settled \cup {task[p]}
  /\ Goto(p, "committing")
  /\ UNCHANGED <<len, committed, assignmentVars, task, cancelled>>

\* The handler returned an error: nothing is committed and the loop goes on
\* with the next message.
GiveUp(p) ==
  /\ pc[p] \in AtWork
  /\ settled' = settled \cup {task[p]}
  /\ Goto(p, "idle")
  /\ UNCHANGED <<len, committed, assignmentVars, task, cancelled>>

\* CommitMessages: the reader commits in the generation it is in now, which need
\* not be the one the message was fetched in nor own the partition any more.
Commit(p) ==
  /\ pc[p] = "committing" /\ p \in members
  /\ committed' = task[p] + 1
  /\ Goto(p, "idle")
  /\ UNCHANGED <<len, assignmentVars, task, cancelled, settled>>

\* "Failed to commit", with or without effect at the broker; logged only.
CommitFailed(p) ==
  /\ pc[p] = "committing"
  /\ committed' \in {committed} \cup (IF p \in members THEN {task[p] + 1} ELSE {})
  /\ Goto(p, "idle")
  /\ UNCHANGED <<len, assignmentVars, task, cancelled, settled>>

-----------------------------------------------------------------------------
(***************************************************************************)
(* The pod's life                                                          *)
(***************************************************************************)

\* SIGKILL, OOM: the group learns of it only when the session times out.
Crash(p) ==
  /\ pc[p] # "down"
  /\ Goto(p, "down")
  /\ reading' = [reading EXCEPT ![p] = FALSE]
  /\ UNCHANGED <<len, committed, generation, members, owner, pos, task,
                 cancelled, settled>>

\* Run() cancels the workers' context.
Cancel(p) ==
  /\ pc[p] # "down" /\ ~cancelled[p]
  /\ cancelled' = [cancelled EXCEPT ![p] = TRUE]
  /\ UNCHANGED <<len, committed, assignmentVars, pc, task, settled>>

\* FetchMessage returns ctx.Err(): the loop ends and reader.Close leaves the
\* group.
Stop(p) ==
  /\ pc[p] = "idle" /\ cancelled[p]
  /\ Goto(p, "down")
  /\ reading' = [reading EXCEPT ![p] = FALSE]
  /\ members' = members \ {p}
  /\ owner' = IF owner = p THEN None ELSE owner
  /\ UNCHANGED <<len, committed, generation, pos, task, cancelled, settled>>

Restart(p) ==
  /\ pc[p] = "down"
  /\ Goto(p, "idle")
  /\ cancelled' = [cancelled EXCEPT ![p] = FALSE]
  /\ members' = members \ {p}
  /\ owner' = IF owner = p THEN None ELSE owner
  /\ UNCHANGED <<len, committed, generation, reading, pos, task, settled>>

-----------------------------------------------------------------------------
GroupNext ==
  \/ Produce \/ Rebalance \/ Evict
  \/ \E p \in Pods :
       \/ Notice(p)
       \/ Fetch(p) \/ FetchError(p) \/ Halfway(p) \/ Finish(p) \/ GiveUp(p)
       \/ Commit(p) \/ CommitFailed(p)
       \/ Crash(p) \/ Cancel(p) \/ Stop(p) \/ Restart(p)

GroupSpec == GroupInit /\ [][GroupNext]_groupVars

-----------------------------------------------------------------------------
(***************************************************************************)
(* Properties                                                              *)
(***************************************************************************)

\* The committed offset never gets ahead of the work: whatever is below it was
\* worked on to the end by some pod, through crashes, rebalances, zombies and
\* commits that arrive in a later generation than their message.
NothingSkipped == \A o \in Offsets : o < committed => o \in settled

(***************************************************************************)
(* Why it holds: an inductive invariant.                                   *)
(***************************************************************************)

\* A reader is never ahead of the work, but for the message its own loop has in
\* hand.
ReaderFollowsWork ==
  \A p \in Pods : reading[p] =>
    \A o \in Offsets : o < pos[p] =>
      o \in settled \/ (pc[p] \in AtWork /\ task[p] = o)

\* A message in hand is one of the topic.
TaskInLog == \A p \in Pods : pc[p] \in Busy => task[p] < len

\* Everything before the message in hand is done with, and so is the message
\* itself when it is about to be committed.
HandFollowsWork ==
  \A p \in Pods :
    /\ pc[p] \in Busy => \A o \in Offsets : o < task[p] => o \in settled
    /\ pc[p] = "committing" => task[p] \in settled

\* Whoever works on the messages, they come to their first end in the order of
\* the log.
SettledInOrder == \E n \in 0 .. len : settled = 0 .. n - 1

GroupInv ==
  /\ GroupTypeOK /\ TaskInLog
  /\ ReaderFollowsWork /\ HandFollowsWork /\ NothingSkipped
  /\ SettledInOrder

(***************************************************************************)
(* What the topic and its users see of the group.                          *)
(***************************************************************************)
Consumption == INSTANCE LogConsumption WITH
  produced <- len, finished <- Cardinality(settled), resume <- committed

\* The group reads the partition in its order and without gaps: two pods that
\* both believe to own it, crashes and late commits included.
ImplementsConsumption == Consumption!LSpec
=============================================================================
