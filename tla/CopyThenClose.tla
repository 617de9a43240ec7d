---------------------------- MODULE CopyThenClose ----------------------------
(***************************************************************************)
(* What handleConn may rely on when it calls copyThenClose for a           *)
(* connection: one loop carries requests, in a goroutine of its own, one   *)
(* carries responses, in handleConn itself.  The loop that ends first, and *)
(* only that one, closes both sockets; copyThenClose returns when the      *)
(* responses loop has ended.  Module Processor has the loops in detail,    *)
(* module Client the connections that are served like this.                *)
(***************************************************************************)
VARIABLES
  localClosed,   \* the proxy has closed the client's socket
  serverClosed,  \* the proxy has closed the broker's socket
  firstErr,      \* "open", "requests" (filled by that loop, which is about
                 \* to close the sockets) or "closed"
  returned       \* copyThenClose has returned

vars == <<localClosed, serverClosed, firstErr, returned>>

Init == localClosed = FALSE /\ serverClosed = FALSE /\ firstErr = "open" /\ returned = FALSE

(* ConnSet.Close, from outside.                                            *)
ShutDown == localClosed' = TRUE /\ UNCHANGED <<serverClosed, firstErr, returned>>

CloseBoth == localClosed' = TRUE /\ serverClosed' = TRUE /\ firstErr' = "closed"

RequestsLoopEnds ==
  /\ firstErr = "open" /\ ~returned /\ firstErr' = "requests"
  /\ UNCHANGED <<localClosed, serverClosed, returned>>

RequestsLoopCloses == firstErr = "requests" /\ CloseBoth /\ UNCHANGED returned

ResponsesLoopEnds ==
  /\ ~returned /\ returned' = TRUE
  /\ \/ firstErr = "open" /\ CloseBoth
     \/ firstErr # "open" /\ UNCHANGED <<localClosed, serverClosed, firstErr>>

Next == ShutDown \/ RequestsLoopEnds \/ RequestsLoopCloses \/ ResponsesLoopEnds

Spec == Init /\ [][Next]_vars
=============================================================================
