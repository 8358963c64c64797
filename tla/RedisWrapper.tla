---------------------------- MODULE RedisWrapper ----------------------------
(***************************************************************************)
(* core/pkg/redis/redis.go: Wrapper sends writes to one client and reads   *)
(* to another, which in the mode "master_replica" is the first configured  *)
(* replica and in the mode "cluster" (ReadOnly: true) may be any node.     *)
(*                                                                         *)
(* Redis replicates in the background and in the order of the writes.  A   *)
(* node is therefore known by how many of the master's writes it has.      *)
(* An entry (a field of a hash, a member of a set, a key) is written once  *)
(* and removed once: it stands for a random secret.                        *)
(***************************************************************************)
EXTENDS Naturals

CONSTANTS
  Entries,
  Master,       \* cfg.MasterAddrs[0], or the master of a cluster's slot
  Replicas,     \* the nodes that replicate it
  ReplicaAddr   \* cfg.ReplicaAddrs[0]

ASSUME WrapperAssumption == Master \notin Replicas /\ ReplicaAddr \in Replicas

VARIABLES
  mode,     \* cfg.Mode
  alive,    \* the nodes that answer
  applied,  \* how many writes each node has
  written,  \* the number of the write that put the entry there, 0 if none
  removed   \* the number of the write that removed it, 0 if none

dataVars    == <<applied, written, removed>>
wrapperVars == <<mode, alive, dataVars>>

Modes == {"standalone", "master_replica", "cluster"}
Nodes == {Master} \cup Replicas

WrapperTypeOK ==
  /\ mode    \in Modes
  /\ alive   \in SUBSET Nodes
  /\ applied \in [Nodes -> Nat]
  /\ written \in [Entries -> Nat]
  /\ removed \in [Entries -> Nat]

WrapperInit ==
  /\ mode    \in Modes
  /\ alive   = Nodes
  /\ applied = [n \in Nodes |-> 0]
  /\ written = [e \in Entries |-> 0]
  /\ removed = [e \in Entries |-> 0]

-----------------------------------------------------------------------------
\* Seeded mistake, not part of any specification: ReplicaAddrs taken in turn.
ReadersInTurn == IF mode = "standalone" THEN {Master} ELSE Replicas

\* The nodes that may answer a read.
Readers == IF mode = "standalone" THEN {Master}
           ELSE IF mode = "master_replica" THEN {ReplicaAddr}
           ELSE Nodes

\* A write that the node has.
Has(n, write) == 0 < write /\ write <= applied[n]

\* The entries the node would answer with.
Held(n) == {e \in Entries : Has(n, written[e]) /\ ~Has(n, removed[e])}

\* HGet, SIsMember, Get and Exists: an answer of a reader that is up.
Lookup(e, found) == \E n \in Readers \cap alive : (e \in Held(n)) = found

-----------------------------------------------------------------------------
\* HSet, SAdd, Set and SetNX.
HSet(e) ==
  /\ Master \in alive /\ written[e] = 0
  /\ applied' = [applied EXCEPT ![Master] = @ + 1]
  /\ written' = [written EXCEPT ![e] = applied[Master] + 1]
  /\ UNCHANGED <<mode, alive, removed>>

\* HDel, SRem, Del and GetDel.
HDel(e) ==
  /\ Master \in alive /\ e \in Held(Master)
  /\ applied' = [applied EXCEPT ![Master] = @ + 1]
  /\ removed' = [removed EXCEPT ![e] = applied[Master] + 1]
  /\ UNCHANGED <<mode, alive, written>>

\* One write reaches a replica.
Replicate(n) ==
  /\ mode # "standalone" /\ {n, Master} \subseteq alive
  /\ applied[n] < applied[Master]
  /\ applied' = [applied EXCEPT ![n] = @ + 1]
  /\ UNCHANGED <<mode, alive, written, removed>>

NodeFails(n) ==
  /\ n \in alive /\ alive' = alive \ {n}
  /\ UNCHANGED <<mode, dataVars>>

NodeRecovers(n) ==
  /\ n \in Nodes \ alive /\ alive' = alive \cup {n}
  /\ UNCHANGED <<mode, dataVars>>

\* A cluster puts a replica in the place of its master, which loses the writes
\* the replica does not have; the old master comes back as a replica.  The
\* other modes have fixed addresses and wait for their master.
Failover(n) ==
  /\ mode = "cluster" /\ Master \notin alive /\ n \in alive
  /\ alive' = (alive \ {n}) \cup {Master}
  /\ applied' = [m \in Nodes |-> IF applied[m] < applied[n] THEN applied[m] ELSE applied[n]]
  /\ written' = [e \in Entries |-> IF written[e] <= applied[n] THEN written[e] ELSE 0]
  /\ removed' = [e \in Entries |-> IF removed[e] <= applied[n] THEN removed[e] ELSE 0]
  /\ UNCHANGED mode

\* What happens to the store behind the wrapper's back.
Calm(n)  == Replicate(n) \/ NodeRecovers(n)
Storm(n) == NodeFails(n) \/ Failover(n)
=============================================================================
