--------------------------- MODULE BufferChannel ---------------------------
(***************************************************************************)
(* What the framed transport promises: "Operations: send(buf), receive()   *)
(* -> buf".  A channel in one direction that hands over the buffers it was *)
(* given, whole and in order, until it is closed and empty.                *)
(***************************************************************************)
EXTENDS Sequences

CONSTANT Buf        \* the buffers a sender may give

VARIABLES
    queue,          \* the buffers given and not yet handed over
    open            \* the sender can still give one

Init == queue = <<>> /\ open = TRUE

Send(buf) == open /\ queue' = Append(queue, buf) /\ UNCHANGED open

Receive == queue # <<>> /\ queue' = Tail(queue) /\ UNCHANGED open

Close == open /\ open' = FALSE /\ UNCHANGED queue

Next == (\E buf \in Buf : Send(buf)) \/ Receive \/ Close

Spec == Init /\ [][Next]_<<queue, open>>
=============================================================================
