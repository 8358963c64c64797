--------------------------- MODULE LogConsumption ---------------------------
(***************************************************************************)
(* What a consumer group promises about a partition, without saying how:   *)
(* its messages come to their end in the order of the log, none is left    *)
(* out, and the offset at which the next reader resumes never lies behind  *)
(* a message that has not come to its end.  Who works on a message, how    *)
(* often, and whether the offset goes back at times is left open.          *)
(***************************************************************************)
EXTENDS Naturals

VARIABLES produced,  \* length of the log
          finished,  \* so many messages, from the first on, came to their end
          resume     \* where a reader that starts anew begins

lvars == <<produced, finished, resume>>

LInit == produced = 0 /\ finished = 0 /\ resume = 0

Append == /\ produced' = produced + 1
          /\ UNCHANGED <<finished, resume>>

FinishNext == /\ finished < produced
              /\ finished' = finished + 1
              /\ UNCHANGED <<produced, resume>>

\* A commit that comes late may set the offset back.
Mark(n) == /\ n \in 1 .. finished
           /\ resume' = n
           /\ UNCHANGED <<produced, finished>>

LNext == Append \/ FinishNext \/ \E n \in 1 .. finished : Mark(n)

LSpec == LInit /\ [][LNext]_lvars
=============================================================================
