----------------------------- MODULE ReplyQueue ------------------------------
(***************************************************************************)
(* What a client may rely on when it talks to the proxy: a connection that *)
(* answers its requests in the order they were asked, each one at most     *)
(* once and none skipped, until it is closed.                              *)
(***************************************************************************)
EXTENDS Sequences

CONSTANT Requests    \* what a client may ask

VARIABLES pending,   \* requests that are to be answered and are not, in order
          replies,   \* answers on their way to the client
          closed     \* the proxy has closed the client's connection

vars == <<pending, replies, closed>>

Init == pending = <<>> /\ replies = <<>> /\ closed = FALSE

Ask == /\ \E r \in Requests : pending' = Append(pending, r)
       /\ UNCHANGED <<replies, closed>>

Answer == /\ ~closed /\ pending # <<>>
          /\ replies' = Append(replies, Head(pending))
          /\ pending' = Tail(pending)
          /\ UNCHANGED closed

Receive == /\ replies # <<>>
           /\ replies' = Tail(replies)
           /\ UNCHANGED <<pending, closed>>

Close == closed' = TRUE /\ UNCHANGED <<pending, replies>>

Next == Ask \/ Answer \/ Receive \/ Close

Spec == Init /\ [][Next]_vars
=============================================================================
