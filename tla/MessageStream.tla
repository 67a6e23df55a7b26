---------------------------- MODULE MessageStream ----------------------------
(***************************************************************************)
(* What a handler promises to the application behind it, without buffers,   *)
(* bytes or a cache: the messages of the stream are handled one after the   *)
(* other, each of them once, empty ones excepted.  Once a message has been  *)
(* refused the handler is out of step and promises nothing.                 *)
(***************************************************************************)
EXTENDS Naturals, Sequences

CONSTANTS
    Messages,   \* the sequence of messages on the stream
    Empty,      \* the positions of those without contents
    NoMessage   \* nothing was handled yet

VARIABLES
    position,   \* messages that were handled or passed over
    message,    \* what the application was given last
    inStep      \* no message was refused so far

Init == position = 0 /\ message = NoMessage /\ inStep = TRUE

Skip ==
    /\ inStep
    /\ position + 1 \in Empty
    /\ position' = position + 1
    /\ UNCHANGED <<message, inStep>>

Handle ==
    /\ inStep
    /\ position + 1 \in DOMAIN Messages \ Empty
    /\ position' = position + 1
    /\ message' = Messages[position + 1]
    /\ UNCHANGED inStep

LoseStep == inStep /\ inStep' = FALSE /\ UNCHANGED <<position, message>>

Next == Skip \/ Handle \/ LoseStep

Spec == Init /\ [][Next]_<<position, message, inStep>>
=============================================================================
