---------------------------- MODULE ClientProofs -----------------------------
(***************************************************************************)
(* Theorems about Client, for every number of connections and brokers: the *)
(* ConnSet holds exactly the connections being served, and handleConn      *)
(* never returns with a socket that nobody will close.                     *)
(***************************************************************************)
EXTENDS Client, TLAPS

Served == {"copy", "remove"}

(* What is known of a connection's sockets where handleConn is.            *)
SocketInv ==
  \A c \in Conns :
    /\ firstErr[c] = "closed" => local[c] = "closed" /\ server[c] = "closed"
    /\ pc[c] \in {"new", "accepted", "queued", "cert", "dial"} => server[c] = "none"
    /\ pc[c] = "refuse" => server[c] # "open"
    /\ pc[c] = "remove" => firstErr[c] # "open"
    /\ firstErr[c] # "open" => pc[c] \in {"copy", "remove", "done"}

IInv == TypeOK /\ ConnSetIsServed /\ SocketInv /\ NothingLeaks

-----------------------------------------------------------------------------
(* ConnSet.Remove.  An entry that is there once is the one that goes, and  *)
(* the others stay, once each.                                             *)
LEMMA RemovesTheEntry ==
  ASSUME NEW S, NEW s \in Seq(S), NEW c, NEW k \in 1..Len(s), s[k] = c,
         \A i, j \in 1..Len(s) : s[i] = s[j] => i = j
  PROVE  /\ RemoveFirst(s, c) \in Seq(S)
         /\ ToSet(RemoveFirst(s, c)) = ToSet(s) \ {c}
         /\ \A i, j \in 1..Len(RemoveFirst(s, c)) :
              RemoveFirst(s, c)[i] = RemoveFirst(s, c)[j] => i = j
<1>1. {i \in 1..Len(s) : s[i] = c} = {k}
  OBVIOUS
<1>2. Min({k}) = k
  BY DEF Min
<1>3. SelectInSeq(s, LAMBDA v : v = c) = k
  BY <1>1, <1>2 DEF SelectInSeq
<1>4. RemoveFirst(s, c) = RemoveAt(s, k)
  BY <1>3 DEF RemoveFirst
<1> DEFINE t == RemoveAt(s, k)
<1>5. /\ t \in Seq(S) /\ Len(t) = Len(s) - 1
      /\ \A i \in 1..Len(t) : t[i] = IF i < k THEN s[i] ELSE s[i + 1]
  <2> DEFINE u == SubSeq(s, 1, k - 1)
             v == SubSeq(s, k + 1, Len(s))
  <2>1. u \in Seq(S) /\ Len(u) = k - 1 /\ \A i \in 1..(k - 1) : u[i] = s[i]
    OBVIOUS
  <2>2. /\ v \in Seq(S) /\ Len(v) = Len(s) - k
        /\ \A i \in 1..(Len(s) - k) : v[i] = s[k + i]
    OBVIOUS
  <2>3. t = u \o v
    BY DEF RemoveAt
  <2> HIDE DEF u, v, t
  <2>4. t \in Seq(S) /\ Len(t) = Len(s) - 1
    BY <2>1, <2>2, <2>3
  <2>5. ASSUME NEW i \in 1..Len(t) PROVE t[i] = IF i < k THEN s[i] ELSE s[i + 1]
    <3>1. t[i] = IF i <= Len(u) THEN u[i] ELSE v[i - Len(u)]
      BY <2>1, <2>2, <2>3, <2>4
    <3>2. CASE i < k
      BY <3>1, <3>2, <2>1
    <3>3. CASE i >= k
      <4>1. i - Len(u) \in 1..(Len(s) - k) /\ k + (i - Len(u)) = i + 1
        BY <3>3, <2>1, <2>4
      <4> QED BY <4>1, <3>1, <3>3, <2>1, <2>2
    <3> QED BY <3>2, <3>3
  <2> QED BY <2>4, <2>5
<1> HIDE DEF t
<1>6. \A i, j \in 1..Len(t) : t[i] = t[j] => i = j
  BY <1>5
<1>7. ToSet(t) = ToSet(s) \ {c}
  <2>1. ASSUME NEW i \in 1..Len(t) PROVE t[i] \in ToSet(s) \ {c}
    BY <1>5 DEF ToSet
  <2>2. ASSUME NEW i \in 1..Len(s), s[i] # c PROVE s[i] \in ToSet(t)
    <3>1. CASE i < k
      BY <3>1, <1>5 DEF ToSet
    <3>2. CASE i > k
      <4>1. i - 1 \in 1..Len(t) /\ t[i - 1] = s[i]
        BY <3>2, <1>5
      <4> QED BY <4>1, <1>5 DEF ToSet
    <3> QED BY <2>2, <3>1, <3>2
  <2> QED BY <2>1, <2>2, <1>5 DEF ToSet
<1> QED BY <1>4, <1>5, <1>6, <1>7 DEF t

(* ConnSet.Add.                                                            *)
LEMMA AddsAnEntry ==
  ASSUME NEW S, NEW s \in Seq(S), NEW c \in S, c \notin ToSet(s),
         \A i, j \in 1..Len(s) : s[i] = s[j] => i = j
  PROVE  /\ ToSet(Append(s, c)) = ToSet(s) \cup {c}
         /\ \A i, j \in 1..Len(Append(s, c)) :
              Append(s, c)[i] = Append(s, c)[j] => i = j
<1> DEFINE t == Append(s, c)
<1>1. /\ t \in Seq(S) /\ Len(t) = Len(s) + 1 /\ t[Len(s) + 1] = c
      /\ \A i \in 1..Len(s) : t[i] = s[i]
  OBVIOUS
<1> HIDE DEF t
<1>2. \A i \in 1..Len(s) : s[i] # c
  BY DEF ToSet
<1>3. \A i, j \in 1..Len(t) : t[i] = t[j] => i = j
  BY <1>1, <1>2
<1>4. ToSet(t) = ToSet(s) \cup {c}
  BY <1>1 DEF ToSet
<1> QED BY <1>3, <1>4 DEF t

(* A step that moves a connection neither into service nor out of it.      *)
LEMMA SameConnSet ==
  ASSUME ConnSetIsServed, conns' = conns,
         \A c \in Conns : pc'[c] \in Served <=> pc[c] \in Served
  PROVE  ConnSetIsServed'
BY DEF ConnSetIsServed, Served

(* The operations that leave the ConnSet alone.                            *)
LEMMA InvAccept ==
  ASSUME IInv, NEW c \in Conns, Accept(c)
  PROVE  IInv'
<1>2. TypeOK'
  BY DEF IInv, TypeOK, Pcs, Accept, Goto, sockets, control
<1>3. ConnSetIsServed'
  BY SameConnSet DEF IInv, TypeOK, Served, Accept, Goto
<1>4. SocketInv' /\ NothingLeaks'
  BY DEF IInv, TypeOK, SocketInv, NothingLeaks, Accept, Goto, sockets, control
<1> QED BY <1>2, <1>3, <1>4 DEF IInv

LEMMA InvHandOver ==
  ASSUME IInv, NEW c \in Conns, HandOver(c)
  PROVE  IInv'
<1>1. connSrc' \in Seq(Conns) /\ Len(connSrc') <= ConnSrcCap
  BY ConstAssumption DEF IInv, TypeOK, HandOver, ConnSrcHasRoom
<1>2. TypeOK'
  BY <1>1 DEF IInv, TypeOK, Pcs, HandOver, Goto, sockets, control
<1>3. ConnSetIsServed'
  BY SameConnSet DEF IInv, TypeOK, Served, HandOver, Goto
<1>4. SocketInv' /\ NothingLeaks'
  BY DEF IInv, TypeOK, SocketInv, NothingLeaks, HandOver, Goto, sockets, control
<1> QED BY <1>2, <1>3, <1>4 DEF IInv

LEMMA InvCertAccepted ==
  ASSUME IInv, NEW c \in Conns, CertAccepted(c)
  PROVE  IInv'
<1>2. TypeOK'
  BY DEF IInv, TypeOK, Pcs, CertAccepted, Goto, sockets, control
<1>3. ConnSetIsServed'
  BY SameConnSet DEF IInv, TypeOK, Served, CertAccepted, Goto
<1>4. SocketInv' /\ NothingLeaks'
  BY DEF IInv, TypeOK, SocketInv, NothingLeaks, CertAccepted, Goto, sockets, control
<1> QED BY <1>2, <1>3, <1>4 DEF IInv

LEMMA InvCertRefused ==
  ASSUME IInv, NEW c \in Conns, CertRefused(c)
  PROVE  IInv'
<1>2. TypeOK'
  BY DEF IInv, TypeOK, Pcs, CertRefused, Goto, CloseLocal, sockets, control
<1>3. ConnSetIsServed'
  BY SameConnSet DEF IInv, TypeOK, Served, CertRefused, Goto, CloseLocal
<1>4. SocketInv' /\ NothingLeaks'
  BY DEF IInv, TypeOK, SocketInv, NothingLeaks, CertRefused, Goto, CloseLocal, sockets, control
<1> QED BY <1>2, <1>3, <1>4 DEF IInv

LEMMA InvDial ==
  ASSUME IInv, NEW c \in Conns, Dial(c)
  PROVE  IInv'
<1>2. TypeOK'
  BY DEF IInv, TypeOK, Pcs, Dial, Goto, sockets, control
<1>3. ConnSetIsServed'
  BY SameConnSet DEF IInv, TypeOK, Served, Dial, Goto
<1>4. SocketInv' /\ NothingLeaks'
  BY DEF IInv, TypeOK, SocketInv, NothingLeaks, Dial, Goto, sockets, control
<1> QED BY <1>2, <1>3, <1>4 DEF IInv

LEMMA InvDialFails ==
  ASSUME IInv, NEW c \in Conns, DialFails(c)
  PROVE  IInv'
<1>2. TypeOK'
  BY DEF IInv, TypeOK, Pcs, DialFails, Goto, sockets, control
<1>3. ConnSetIsServed'
  BY SameConnSet DEF IInv, TypeOK, Served, DialFails, Goto
<1>4. SocketInv' /\ NothingLeaks'
  BY DEF IInv, TypeOK, SocketInv, NothingLeaks, DialFails, Goto, sockets, control
<1> QED BY <1>2, <1>3, <1>4 DEF IInv

LEMMA InvAuthenticate ==
  ASSUME IInv, NEW c \in Conns, Authenticate(c)
  PROVE  IInv'
<1>2. TypeOK'
  BY DEF IInv, TypeOK, Pcs, Authenticate, Goto, sockets, control
<1>3. ConnSetIsServed'
  BY SameConnSet DEF IInv, TypeOK, Served, Authenticate, Goto
<1>4. SocketInv' /\ NothingLeaks'
  BY SMTT(30) DEF IInv, TypeOK, SocketInv, NothingLeaks, Authenticate, Goto, sockets, control
<1> QED BY <1>2, <1>3, <1>4 DEF IInv

LEMMA InvAuthFails ==
  ASSUME IInv, NEW c \in Conns, AuthFails(c)
  PROVE  IInv'
<1>2. TypeOK'
  BY DEF IInv, TypeOK, Pcs, AuthFails, Goto, CloseServer, sockets, control
<1>3. ConnSetIsServed'
  BY SameConnSet DEF IInv, TypeOK, Served, AuthFails, Goto, CloseServer
<1>4. SocketInv' /\ NothingLeaks'
  BY DEF IInv, TypeOK, SocketInv, NothingLeaks, AuthFails, Goto, CloseServer, sockets, control
<1> QED BY <1>2, <1>3, <1>4 DEF IInv

LEMMA InvRefuse ==
  ASSUME IInv, NEW c \in Conns, Refuse(c)
  PROVE  IInv'
<1>2. TypeOK'
  BY DEF IInv, TypeOK, Pcs, Refuse, Goto, CloseLocal, sockets, control
<1>3. ConnSetIsServed'
  BY SameConnSet DEF IInv, TypeOK, Served, Refuse, Goto, CloseLocal
<1>4. SocketInv' /\ NothingLeaks'
  BY DEF IInv, TypeOK, SocketInv, NothingLeaks, Refuse, Goto, CloseLocal, sockets, control
<1> QED BY <1>2, <1>3, <1>4 DEF IInv

LEMMA InvPeerGone ==
  ASSUME IInv, NEW c \in Conns, PeerGone(c)
  PROVE  IInv'
<1>2. TypeOK'
  BY DEF IInv, TypeOK, Pcs, PeerGone, sockets, control
<1>3. ConnSetIsServed'
  BY SameConnSet DEF IInv, TypeOK, Served, PeerGone
<1>4. SocketInv' /\ NothingLeaks'
  BY DEF IInv, TypeOK, SocketInv, NothingLeaks, PeerGone, sockets, control
<1> QED BY <1>2, <1>3, <1>4 DEF IInv

LEMMA InvRequestsLoopEnds ==
  ASSUME IInv, NEW c \in Conns, RequestsLoopEnds(c)
  PROVE  IInv'
<1>2. TypeOK'
  BY DEF IInv, TypeOK, Pcs, RequestsLoopEnds, sockets, control
<1>3. ConnSetIsServed'
  BY SameConnSet DEF IInv, TypeOK, Served, RequestsLoopEnds
<1>4. SocketInv' /\ NothingLeaks'
  BY DEF IInv, TypeOK, SocketInv, NothingLeaks, RequestsLoopEnds, sockets, control
<1> QED BY <1>2, <1>3, <1>4 DEF IInv

LEMMA InvRequestsLoopCloses ==
  ASSUME IInv, NEW c \in Conns, RequestsLoopCloses(c)
  PROVE  IInv'
<1>2. TypeOK'
  BY DEF IInv, TypeOK, Pcs, RequestsLoopCloses, CloseBoth, CloseLocal, sockets, control
<1>3. ConnSetIsServed'
  BY SameConnSet DEF IInv, TypeOK, Served, RequestsLoopCloses, CloseBoth, CloseLocal
<1>4. /\ firstErr'[c] = "closed" /\ local'[c] = "closed" /\ server'[c] = "closed"
      /\ \A d \in Conns \ {c} : /\ firstErr'[d] = firstErr[d]
                               /\ local'[d] = local[d] /\ server'[d] = server[d]
      /\ pc' = pc
  BY DEF IInv, TypeOK, RequestsLoopCloses, CloseBoth, CloseLocal
<1>5. pc[c] \in {"copy", "remove", "done"}
  BY DEF IInv, TypeOK, SocketInv, RequestsLoopCloses
<1>6. SocketInv'
  BY <1>4, <1>5 DEF IInv, SocketInv
<1>7. NothingLeaks'
  BY <1>4 DEF IInv, NothingLeaks
<1> QED BY <1>2, <1>3, <1>6, <1>7 DEF IInv

LEMMA InvResponsesLoopEnds ==
  ASSUME IInv, NEW c \in Conns, ResponsesLoopEnds(c)
  PROVE  IInv'
<1>2. TypeOK'
  BY DEF IInv, TypeOK, Pcs, ResponsesLoopEnds, Goto, EndFirst, CloseBoth, CloseLocal, sockets, control
<1>3. ConnSetIsServed'
  BY SameConnSet DEF IInv, TypeOK, Served, ResponsesLoopEnds, Goto, EndFirst, CloseBoth, CloseLocal
<1>4. SocketInv' /\ NothingLeaks'
  BY DEF IInv, TypeOK, SocketInv, NothingLeaks, ResponsesLoopEnds, Goto, EndFirst, CloseBoth, CloseLocal, sockets, control
<1> QED BY <1>2, <1>3, <1>4 DEF IInv

LEMMA InvRunTakes ==
  ASSUME IInv, RunTakes
  PROVE  IInv'
<1>1. /\ connSrc' \in Seq(Conns) /\ Len(connSrc') <= ConnSrcCap
      /\ Head(connSrc) \in Conns
  BY ConstAssumption DEF IInv, TypeOK, RunTakes
<1>2. TypeOK'
  BY <1>1 DEF IInv, TypeOK, Pcs, RunTakes, Goto, sockets, control
<1>3. ConnSetIsServed'
  BY <1>1, SameConnSet DEF IInv, TypeOK, Served, RunTakes, Goto
<1>4. SocketInv' /\ NothingLeaks'
  BY <1>1 DEF IInv, TypeOK, SocketInv, NothingLeaks, RunTakes, Goto, sockets, control
<1> QED BY <1>2, <1>3, <1>4 DEF IInv

LEMMA InvClose ==
  ASSUME IInv, Close
  PROVE  IInv'
<1>2. TypeOK'
  BY DEF IInv, TypeOK, Pcs, Close, sockets, control
<1>3. ConnSetIsServed'
  BY SameConnSet DEF IInv, TypeOK, Served, Close
<1>4. SocketInv' /\ NothingLeaks'
  BY DEF IInv, TypeOK, SocketInv, NothingLeaks, Close, sockets, control
<1> QED BY <1>2, <1>3, <1>4 DEF IInv

LEMMA InvRunStops ==
  ASSUME IInv, RunStops
  PROVE  IInv'
<1>2. TypeOK'
  BY DEF IInv, TypeOK, Pcs, RunStops, sockets, control
<1>3. ConnSetIsServed'
  BY SameConnSet DEF IInv, TypeOK, Served, RunStops
<1>4. SocketInv' /\ NothingLeaks'
  BY DEF IInv, TypeOK, SocketInv, NothingLeaks, RunStops, sockets, control
<1> QED BY <1>2, <1>3, <1>4 DEF IInv

LEMMA InvConnSetClose ==
  ASSUME IInv, ConnSetClose
  PROVE  IInv'
<1>2. TypeOK'
  BY DEF IInv, TypeOK, Pcs, ConnSetClose, sockets, control
<1>3. ConnSetIsServed'
  BY SameConnSet DEF IInv, TypeOK, Served, ConnSetClose
<1>4. SocketInv' /\ NothingLeaks'
  BY DEF IInv, TypeOK, SocketInv, NothingLeaks, ConnSetClose, sockets, control
<1> QED BY <1>2, <1>3, <1>4 DEF IInv

(* The operations of the ConnSet.                                          *)
LEMMA InvAdd ==
  ASSUME IInv, NEW c \in Conns, Add(c)
  PROVE  IInv'
<1> DEFINE b == BrokerOf[c]
<1>1. b \in Brokers /\ conns[b] \in Seq(Conns) /\ pc[c] = "add"
  BY ConstAssumption DEF IInv, TypeOK, Add, Goto
<1>2. /\ pc' = [pc EXCEPT ![c] = "copy"]
      /\ conns' = [conns EXCEPT ![b] = Append(conns[b], c)]
      /\ pc \in [Conns -> Pcs] /\ conns \in [Brokers -> Seq(Conns)]
  BY DEF IInv, TypeOK, Add, Goto
<1>3. TypeOK'
  <2>1. pc' \in [Conns -> Pcs] /\ conns' \in [Brokers -> Seq(Conns)]
    BY <1>1, <1>2 DEF Pcs
  <2> QED BY <2>1 DEF IInv, TypeOK, Add, sockets, control
<1>4. ConnSetIsServed'
  <2>1. c \notin ToSet(conns[b])
    BY <1>1 DEF IInv, ConnSetIsServed
  <2>2. /\ ToSet(Append(conns[b], c)) = ToSet(conns[b]) \cup {c}
        /\ \A i, j \in 1..Len(Append(conns[b], c)) :
             Append(conns[b], c)[i] = Append(conns[b], c)[j] => i = j
    BY <2>1, <1>1, AddsAnEntry DEF IInv, ConnSetIsServed
  <2> SUFFICES ASSUME NEW x \in Brokers
               PROVE  /\ ToSet(conns'[x]) = {d \in Conns : BrokerOf[d] = x /\ pc'[d] \in Served}
                      /\ \A i, j \in 1..Len(conns'[x]) : conns'[x][i] = conns'[x][j] => i = j
    BY DEF ConnSetIsServed, Served
  <2>3. CASE x = b
    <3>1. conns'[x] = Append(conns[b], c)
      BY <2>3, <1>1, <1>2
    <3>2. ToSet(conns[b]) = {d \in Conns : BrokerOf[d] = b /\ pc[d] \in Served}
      BY <1>1 DEF IInv, ConnSetIsServed, Served
    <3>3. {d \in Conns : BrokerOf[d] = b /\ pc'[d] \in Served}
            = {d \in Conns : BrokerOf[d] = b /\ pc[d] \in Served} \cup {c}
      BY <1>2 DEF Served
    <3> QED BY <2>2, <2>3, <3>1, <3>2, <3>3
  <2>4. CASE x # b
    <3>1. conns'[x] = conns[x]
      BY <2>4, <1>2
    <3>2. {d \in Conns : BrokerOf[d] = x /\ pc'[d] \in Served}
            = {d \in Conns : BrokerOf[d] = x /\ pc[d] \in Served}
      BY <2>4, <1>2
    <3> QED BY <3>1, <3>2 DEF IInv, ConnSetIsServed, Served
  <2> QED BY <2>3, <2>4
<1>5. SocketInv' /\ NothingLeaks'
  BY <1>2 DEF IInv, TypeOK, SocketInv, NothingLeaks, Add, sockets
<1> QED BY <1>3, <1>4, <1>5 DEF IInv

LEMMA InvConnSetRemove ==
  ASSUME IInv, NEW c \in Conns, ConnSetRemove(c)
  PROVE  IInv'
<1> DEFINE b == BrokerOf[c]
           s == conns[b]
           t == RemoveFirst(s, c)
<1>1. b \in Brokers /\ s \in Seq(Conns) /\ pc[c] = "remove"
  BY ConstAssumption DEF IInv, TypeOK, ConnSetRemove, Goto
<1>2. /\ pc' = [pc EXCEPT ![c] = "done"]
      /\ conns' = [conns EXCEPT ![b] = t]
      /\ pc \in [Conns -> Pcs] /\ conns \in [Brokers -> Seq(Conns)]
  BY DEF IInv, TypeOK, ConnSetRemove, Goto, Without
<1>3. PICK k \in 1..Len(s) : s[k] = c
  <2>1. c \in ToSet(s)
    BY <1>1 DEF IInv, ConnSetIsServed
  <2> QED BY <2>1, <1>1 DEF ToSet
<1>4. /\ t \in Seq(Conns) /\ ToSet(t) = ToSet(s) \ {c}
      /\ \A i, j \in 1..Len(t) : t[i] = t[j] => i = j
  <2>1. \A i, j \in 1..Len(s) : s[i] = s[j] => i = j
    BY <1>1 DEF IInv, ConnSetIsServed
  <2> QED BY <2>1, <1>1, <1>3, RemovesTheEntry
<1> HIDE DEF t
<1>5. TypeOK'
  <2>1. pc' \in [Conns -> Pcs] /\ conns' \in [Brokers -> Seq(Conns)]
    BY <1>1, <1>2, <1>4 DEF Pcs
  <2> QED BY <2>1 DEF IInv, TypeOK, ConnSetRemove, sockets, control
<1>6. ConnSetIsServed'
  <2> SUFFICES ASSUME NEW x \in Brokers
               PROVE  /\ ToSet(conns'[x]) = {d \in Conns : BrokerOf[d] = x /\ pc'[d] \in Served}
                      /\ \A i, j \in 1..Len(conns'[x]) : conns'[x][i] = conns'[x][j] => i = j
    BY DEF ConnSetIsServed, Served
  <2>1. CASE x = b
    <3>1. conns'[x] = t
      BY <2>1, <1>1, <1>2
    <3>2. ToSet(s) = {d \in Conns : BrokerOf[d] = b /\ pc[d] \in Served}
      BY <1>1 DEF IInv, ConnSetIsServed, Served
    <3>3. {d \in Conns : BrokerOf[d] = b /\ pc'[d] \in Served}
            = {d \in Conns : BrokerOf[d] = b /\ pc[d] \in Served} \ {c}
      BY <1>2 DEF Served
    <3> QED BY <1>4, <2>1, <3>1, <3>2, <3>3
  <2>2. CASE x # b
    <3>1. conns'[x] = conns[x]
      BY <2>2, <1>2
    <3>2. {d \in Conns : BrokerOf[d] = x /\ pc'[d] \in Served}
            = {d \in Conns : BrokerOf[d] = x /\ pc[d] \in Served}
      BY <2>2, <1>2
    <3> QED BY <3>1, <3>2 DEF IInv, ConnSetIsServed, Served
  <2> QED BY <2>1, <2>2
<1>7. SocketInv' /\ NothingLeaks'
  BY <1>1, <1>2 DEF IInv, TypeOK, SocketInv, NothingLeaks, ConnSetRemove, sockets
<1> QED BY <1>5, <1>6, <1>7 DEF IInv

-----------------------------------------------------------------------------
LEMMA InvInit == Init => IInv
<1> SUFFICES ASSUME Init PROVE IInv
  OBVIOUS
<1>1. TypeOK
  <2>1. connSrc \in Seq(Conns) /\ Len(connSrc) = 0
    BY DEF Init
  <2>2. Len(connSrc) <= ConnSrcCap
    BY <2>1, ConstAssumption
  <2>3. conns \in [Brokers -> Seq(Conns)]
    BY DEF Init
  <2>4. /\ pc \in [Conns -> Pcs]
        /\ local \in [Conns -> {"none", "open", "closed"}]
        /\ server \in [Conns -> {"none", "open", "closed"}]
        /\ firstErr \in [Conns -> {"open", "requests", "closed"}]
    BY DEF Init, Pcs
  <2>5. /\ gone \in [Conns -> BOOLEAN]
        /\ stopRun \in BOOLEAN /\ run \in {"select", "closing", "returned"}
        /\ late \subseteq Conns
    BY DEF Init
  <2> QED BY <2>1, <2>2, <2>3, <2>4, <2>5 DEF TypeOK
<1>2. ConnSetIsServed
  BY DEF Init, ConnSetIsServed, ToSet
<1>3. SocketInv /\ NothingLeaks
  BY DEF Init, SocketInv, NothingLeaks
<1> QED BY <1>1, <1>2, <1>3 DEF IInv

LEMMA InvNext == IInv /\ [Next]_vars => IInv'
<1> SUFFICES ASSUME IInv, [Next]_vars PROVE IInv'
  OBVIOUS
<1>1. ASSUME NEW c \in Conns,
             \/ Accept(c) \/ HandOver(c)
             \/ CertAccepted(c) \/ CertRefused(c)
             \/ Dial(c) \/ DialFails(c)
             \/ Authenticate(c) \/ AuthFails(c) \/ Refuse(c)
             \/ Add(c) \/ ConnSetRemove(c)
             \/ PeerGone(c)
             \/ RequestsLoopEnds(c) \/ RequestsLoopCloses(c) \/ ResponsesLoopEnds(c)
      PROVE  IInv'
  BY <1>1, InvAccept, InvHandOver, InvCertAccepted, InvCertRefused, InvDial,
     InvDialFails, InvAuthenticate, InvAuthFails, InvRefuse, InvAdd,
     InvConnSetRemove, InvPeerGone, InvRequestsLoopEnds, InvRequestsLoopCloses,
     InvResponsesLoopEnds
<1>2. CASE RunTakes \/ RunStops \/ ConnSetClose \/ Close
  BY <1>2, InvRunTakes, InvRunStops, InvConnSetClose, InvClose
<1>3. CASE UNCHANGED vars
  <2>1. TypeOK'
    BY <1>3 DEF IInv, TypeOK, vars, sockets, control
  <2>2. ConnSetIsServed'
    BY <1>3, SameConnSet DEF IInv, vars
  <2>3. SocketInv' /\ NothingLeaks'
    BY <1>3 DEF IInv, SocketInv, NothingLeaks, vars, sockets
  <2> QED BY <2>1, <2>2, <2>3 DEF IInv
<1> QED BY <1>1, <1>2, <1>3 DEF Next

LEMMA InvAlways == Spec => []IInv
BY InvInit, InvNext, PTL DEF Spec

(* Connections, the ConnSet and connSrc keep their types and connSrc its   *)
(* capacity.                                                               *)
THEOREM ClientTypeCorrect == Spec => []TypeOK
<1>1. IInv => TypeOK
  BY DEF IInv
<1> QED BY <1>1, InvAlways, PTL

(* For any number of connections, the ConnSet holds exactly those that     *)
(* handleConn serves, once each and under their broker: ConnSet.Remove     *)
(* always finds its entry and removes no other.                            *)
THEOREM ConnSetHoldsTheServed == Spec => []ConnSetIsServed
<1>1. IInv => ConnSetIsServed
  BY DEF IInv
<1> QED BY <1>1, InvAlways, PTL

(* Every way out of handleConn, in any interleaving with the requests loop *)
(* and with shutdown, leaves both sockets closed or about to be closed.    *)
THEOREM NoSocketLeaks == Spec => []NothingLeaks
<1>1. IInv => NothingLeaks
  BY DEF IInv
<1> QED BY <1>1, InvAlways, PTL

-----------------------------------------------------------------------------
(* The connections keep the contract of copyThenClose.  Before a           *)
(* connection is served nobody has closed its sockets.                     *)
Waiting == {"accepted", "queued", "cert", "dial", "gateway", "sasl", "refuse", "add"}
Ready(c) ==
  /\ pc[c] \in Waiting => local[c] = "open"
  /\ pc[c] \in {"gateway", "sasl", "add"} => server[c] = "open"
  /\ pc[c] = "new" => local[c] = "none"

Same(c) == /\ pc'[c] = pc[c] /\ local'[c] = local[c] /\ server'[c] = server[c]
           /\ firstErr'[c] = firstErr[c]

Handles(c) ==
  \/ Accept(c) \/ HandOver(c)
  \/ CertAccepted(c) \/ CertRefused(c)
  \/ Dial(c) \/ DialFails(c)
  \/ Authenticate(c) \/ AuthFails(c) \/ Refuse(c)
  \/ Add(c) \/ ConnSetRemove(c)
  \/ PeerGone(c)
  \/ RequestsLoopEnds(c) \/ RequestsLoopCloses(c) \/ ResponsesLoopEnds(c)

(* A step for one connection is none for another.                          *)
LEMMA OthersStay ==
  ASSUME TypeOK, NEW c \in Conns, NEW d \in Conns, d # c, Handles(d)
  PROVE  Same(c)
<1> USE DEF TypeOK, Same, Goto, CloseLocal, CloseServer, CloseBoth, EndFirst, sockets, control
<1>1. CASE Accept(d) BY <1>1 DEF Accept
<1>2. CASE HandOver(d) BY <1>2 DEF HandOver
<1>3. CASE CertAccepted(d) BY <1>3 DEF CertAccepted
<1>4. CASE CertRefused(d) BY <1>4 DEF CertRefused
<1>5. CASE Dial(d) BY <1>5 DEF Dial
<1>6. CASE DialFails(d) BY <1>6 DEF DialFails
<1>7. CASE Authenticate(d) BY <1>7 DEF Authenticate
<1>8. CASE AuthFails(d) BY <1>8 DEF AuthFails
<1>9. CASE Refuse(d) BY <1>9 DEF Refuse
<1>10. CASE Add(d) BY <1>10 DEF Add
<1>11. CASE ConnSetRemove(d) BY <1>11 DEF ConnSetRemove
<1>12. CASE PeerGone(d) BY <1>12 DEF PeerGone
<1>13. CASE RequestsLoopEnds(d) BY <1>13 DEF RequestsLoopEnds
<1>14. CASE RequestsLoopCloses(d) BY <1>14 DEF RequestsLoopCloses
<1>15. CASE ResponsesLoopEnds(d) BY <1>15 DEF ResponsesLoopEnds
<1> QED
  BY <1>1, <1>2, <1>3, <1>4, <1>5, <1>6, <1>7, <1>8, <1>9, <1>10, <1>11, <1>12, <1>13,
     <1>14, <1>15 DEF Handles

(* What a step for a connection does to it: it gets ready to be served, is *)
(* turned away, or takes a step of copyThenClose.                          *)
LEMMA HandledStep ==
  ASSUME IInv, NEW c \in Conns, Ready(c), Handles(c)
  PROVE  Ready(c)' /\ [Copier(c)!Next]_(Copier(c)!vars)
<1> USE DEF IInv, TypeOK, Ready, Waiting, Goto, sockets, control
<1>0. /\ pc[c] = "remove" => firstErr[c] # "open"
      /\ firstErr[c] # "open" => pc[c] \in {"copy", "remove", "done"}
  BY DEF SocketInv
<1>1. CASE Accept(c)
  <2>1. Ready(c)' BY <1>1 DEF Accept
  <2>2. UNCHANGED Copier(c)!vars
    BY <1>0, <1>1 DEF Accept, Copier!vars, Copying, Returned
  <2> QED BY <2>1, <2>2
<1>2. CASE HandOver(c)
  <2>1. Ready(c)' BY <1>2 DEF HandOver
  <2>2. UNCHANGED Copier(c)!vars
    BY <1>0, <1>2 DEF HandOver, Copier!vars, Copying, Returned
  <2> QED BY <2>1, <2>2
<1>3. CASE CertAccepted(c)
  <2>1. Ready(c)' BY <1>3 DEF CertAccepted
  <2>2. UNCHANGED Copier(c)!vars
    BY <1>0, <1>3 DEF CertAccepted, Copier!vars, Copying, Returned
  <2> QED BY <2>1, <2>2
<1>4. CASE CertRefused(c)
  <2>1. Ready(c)' BY <1>4 DEF CertRefused, CloseLocal
  <2>2. UNCHANGED Copier(c)!vars
    BY <1>0, <1>4 DEF CertRefused, CloseLocal, Copier!vars, Copying, Returned
  <2> QED BY <2>1, <2>2
<1>5. CASE Dial(c)
  <2>1. Ready(c)' BY <1>5 DEF Dial
  <2>2. UNCHANGED Copier(c)!vars
    BY <1>0, <1>5 DEF Dial, Copier!vars, Copying, Returned
  <2> QED BY <2>1, <2>2
<1>6. CASE DialFails(c)
  <2>1. Ready(c)' BY <1>6 DEF DialFails
  <2>2. UNCHANGED Copier(c)!vars
    BY <1>0, <1>6 DEF DialFails, Copier!vars, Copying, Returned
  <2> QED BY <2>1, <2>2
<1>7. CASE Authenticate(c)
  <2>1. Ready(c)' BY <1>7 DEF Authenticate
  <2>2. UNCHANGED Copier(c)!vars
    BY <1>0, <1>7 DEF Authenticate, Copier!vars, Copying, Returned
  <2> QED BY <2>1, <2>2
<1>8. CASE AuthFails(c)
  <2>1. Ready(c)' BY <1>8 DEF AuthFails, CloseServer
  <2>2. UNCHANGED Copier(c)!vars
    BY <1>0, <1>8 DEF AuthFails, CloseServer, Copier!vars, Copying, Returned
  <2> QED BY <2>1, <2>2
<1>9. CASE Refuse(c)
  <2>1. Ready(c)' BY <1>9 DEF Refuse, CloseLocal
  <2>2. UNCHANGED Copier(c)!vars
    BY <1>0, <1>9 DEF Refuse, CloseLocal, Copier!vars, Copying, Returned
  <2> QED BY <2>1, <2>2
<1>10. CASE Add(c)
  <2>1. Ready(c)' BY <1>10 DEF Add
  <2>2. UNCHANGED Copier(c)!vars
    BY <1>0, <1>10 DEF Add, Copier!vars, Copying, Returned
  <2> QED BY <2>1, <2>2
<1>11. CASE ConnSetRemove(c)
  <2>1. Ready(c)' BY <1>11 DEF ConnSetRemove
  <2>2. UNCHANGED Copier(c)!vars
    BY <1>0, <1>11 DEF ConnSetRemove, Copier!vars, Copying, Returned
  <2> QED BY <2>1, <2>2
<1>12. CASE PeerGone(c)
  <2>1. Ready(c)' BY <1>12 DEF PeerGone
  <2>2. UNCHANGED Copier(c)!vars
    BY <1>0, <1>12 DEF PeerGone, Copier!vars, Copying, Returned
  <2> QED BY <2>1, <2>2
<1>13. CASE RequestsLoopEnds(c)
  <2>1. Ready(c)' BY <1>13 DEF RequestsLoopEnds
  <2>2. Copier(c)!RequestsLoopEnds
    BY <1>13 DEF RequestsLoopEnds, Copier!RequestsLoopEnds, Copying, Returned
  <2> QED BY <2>1, <2>2 DEF Copier!Next
<1>14. CASE RequestsLoopCloses(c)
  <2>1. Ready(c)' BY <1>0, <1>14 DEF RequestsLoopCloses, CloseBoth, CloseLocal
  <2>2. Copier(c)!RequestsLoopCloses
    BY <1>0, <1>14 DEF RequestsLoopCloses, CloseBoth, CloseLocal, Copier!RequestsLoopCloses,
                    Copier!CloseBoth, Copying, Returned
  <2> QED BY <2>1, <2>2 DEF Copier!Next
<1>15. CASE ResponsesLoopEnds(c)
  <2>1. Ready(c)'
    BY <1>15 DEF ResponsesLoopEnds, EndFirst, CloseBoth, CloseLocal
  <2>2. Copier(c)!ResponsesLoopEnds
    BY <1>15 DEF ResponsesLoopEnds, EndFirst, CloseBoth, CloseLocal,
               Copier!ResponsesLoopEnds, Copier!CloseBoth, Copying, Returned
  <2> QED BY <2>1, <2>2 DEF Copier!Next
<1> QED
  BY <1>1, <1>2, <1>3, <1>4, <1>5, <1>6, <1>7, <1>8, <1>9, <1>10, <1>11, <1>12, <1>13, <1>14, <1>15 DEF Handles

LEMMA SameStep ==
  ASSUME NEW c \in Conns, Ready(c), Same(c)
  PROVE  Ready(c)' /\ [Copier(c)!Next]_(Copier(c)!vars)
<1>1. Ready(c)'
  BY DEF Same, Ready
<1>2. UNCHANGED Copier(c)!vars
  BY DEF Same, Copier!vars, Copying, Returned
<1> QED BY <1>1, <1>2

(* Shutdown closes the client's socket of the connections being served.    *)
LEMMA ShutDownStep ==
  ASSUME IInv, NEW c \in Conns, Ready(c), ConnSetClose
  PROVE  Ready(c)' /\ [Copier(c)!Next]_(Copier(c)!vars)
<1>1. CASE c \notin InConnSet
  <2>1. Same(c)
    BY <1>1 DEF IInv, TypeOK, ConnSetClose, AllToClose, Same
  <2> QED BY <2>1, SameStep
<1>2. CASE c \in InConnSet
  <2>1. pc[c] \in {"copy", "remove"}
    BY <1>2 DEF IInv, ConnSetIsServed, InConnSet
  <2>2. /\ pc'[c] = pc[c] /\ local'[c] = "closed" /\ server'[c] = server[c]
        /\ firstErr'[c] = firstErr[c]
    BY <1>2 DEF IInv, TypeOK, ConnSetClose, AllToClose
  <2>3. Ready(c)'
    BY <2>1, <2>2 DEF Ready, Waiting
  <2>4. Copier(c)!ShutDown
    BY <2>1, <2>2 DEF Copier!ShutDown, Copying, Returned
  <2> QED BY <2>3, <2>4 DEF Copier!Next
<1> QED BY <1>1, <1>2

LEMMA RunTakesStep ==
  ASSUME IInv, NEW c \in Conns, Ready(c), RunTakes
  PROVE  Ready(c)' /\ [Copier(c)!Next]_(Copier(c)!vars)
<1> DEFINE d == Head(connSrc)
<1>1. d \in Conns
  BY DEF IInv, TypeOK, RunTakes
<1>2. /\ pc[d] = "queued" /\ pc' = [pc EXCEPT ![d] = "cert"]
      /\ local' = local /\ server' = server /\ firstErr' = firstErr
  BY DEF RunTakes, Goto, sockets
<1> HIDE DEF d
<1>3. CASE d = c
  <2>1. pc[c] = "queued" /\ pc'[c] = "cert"
    BY <1>2, <1>3 DEF IInv, TypeOK
  <2>2. firstErr[c] = "open"
    BY <2>1 DEF IInv, TypeOK, SocketInv
  <2>3. Ready(c)'
    BY <1>2, <2>1 DEF Ready, Waiting
  <2>4. UNCHANGED Copier(c)!vars
    BY <1>2, <2>1, <2>2 DEF Copier!vars, Copying, Returned
  <2> QED BY <2>3, <2>4
<1>4. CASE d # c
  <2>1. Same(c)
    BY <1>1, <1>2, <1>4 DEF IInv, TypeOK, Same
  <2> QED BY <2>1, SameStep
<1> QED BY <1>3, <1>4

LEMMA ContractStep ==
  ASSUME IInv, NEW c \in Conns, Ready(c), [Next]_vars
  PROVE  Ready(c)' /\ [Copier(c)!Next]_(Copier(c)!vars)
<1>1. ASSUME NEW d \in Conns, Handles(d)
      PROVE  Ready(c)' /\ [Copier(c)!Next]_(Copier(c)!vars)
  <2>1. CASE d = c
    BY <1>1, <2>1, HandledStep
  <2>2. CASE d # c
    BY <1>1, <2>2, OthersStay, SameStep DEF IInv
  <2> QED BY <2>1, <2>2
<1>2. CASE RunStops \/ Close \/ UNCHANGED vars
  <2>1. Same(c)
    BY <1>2 DEF RunStops, Close, vars, sockets, Same
  <2> QED BY <2>1, SameStep
<1>3. CASE \E d \in Conns : Handles(d)
  BY <1>1, <1>3
<1>4. (\E d \in Conns : Handles(d)) \/ RunTakes \/ RunStops \/ ConnSetClose \/ Close \/ UNCHANGED vars
  BY DEF Next, Handles
<1> QED
  BY <1>2, <1>3, <1>4, RunTakesStep, ShutDownStep

(* One connection. *)
LEMMA ServedByContractOne == ASSUME NEW c \in Conns PROVE Spec => Copier(c)!Spec
<1>1. Init => Ready(c) /\ Copier(c)!Init
  BY DEF Init, Ready, Waiting, Copier!Init, Copying, Returned
<1>2. IInv /\ Ready(c) /\ [Next]_vars => Ready(c)' /\ [Copier(c)!Next]_(Copier(c)!vars)
  BY ContractStep
<1>3. Spec => []Ready(c)
  BY <1>1, <1>2, InvAlways, PTL DEF Spec
<1> QED
  BY <1>1, <1>2, <1>3, InvAlways, PTL DEF Spec, Copier!Spec

(* For any number of connections and whatever happens to the others: a     *)
(* connection is served as CopyThenClose says, in particular both sockets  *)
(* are closed by exactly one loop, and apart from ConnSet.Close nothing    *)
(* else in Client closes one of them (handleConn, copyThenClose).          *)
THEOREM ServedByContract == Spec => ServesByContract
  BY ServedByContractOne DEF ServesByContract
=============================================================================
