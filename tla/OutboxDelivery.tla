--------------------------- MODULE OutboxDelivery ---------------------------
(***************************************************************************)
(* What the transactional outbox promises, without saying how: an event    *)
(* that was written to the outbox stays there until it has reached Kafka   *)
(* at least once, and only then is it retired.  How often it reaches Kafka *)
(* is left open.                                                           *)
(***************************************************************************)
EXTENDS FiniteSets

CONSTANT Events      \* everything a service may ever write to the outbox

VARIABLES waiting,   \* events in the outbox
          delivered, \* events that are in their topic, once or more often
          retired    \* events the outbox has forgotten

dvars == <<waiting, delivered, retired>>

DTypeOK == /\ waiting \subseteq Events
           /\ delivered \subseteq Events
           /\ retired \subseteq Events

DInit == waiting = {} /\ delivered = {} /\ retired = {}

Submit(e) == /\ e \notin waiting \cup retired
             /\ waiting' = waiting \cup {e}
             /\ UNCHANGED <<delivered, retired>>

\* A late duplicate of a retired event may still arrive: it is no news.
Deliver(S) == /\ S \subseteq waiting
              /\ delivered' = delivered \cup S
              /\ UNCHANGED <<waiting, retired>>

Retire(S) == /\ S \subseteq waiting \cap delivered
             /\ waiting' = waiting \ S
             /\ retired' = retired \cup S
             /\ UNCHANGED delivered

DNext == \/ \E e \in Events : Submit(e)
         \/ \E S \in SUBSET Events : Deliver(S) \/ Retire(S)

DSpec == DInit /\ [][DNext]_dvars
=============================================================================
