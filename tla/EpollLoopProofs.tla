--------------------------- MODULE EpollLoopProofs ---------------------------
(* Lemmas about EpollLoop, for any set of connections and any number of     *)
(* descriptors: the invariant of the loop that its two servers share.       *)
EXTENDS EpollLoop, WellFoundedInduction, TLAPS

USE ConnsAssumption, MaxFdAssumption
USE DEF Fds, listen_fd, Goto

(* accept has a lowest free descriptor to return, if there is a free one.   *)
LEMMA LowestIsFree == Free # {} => Lowest \in Free
<1> SUFFICES ASSUME Free # {} PROVE Lowest \in Free
  OBVIOUS
<1> DEFINE Below == OpToRel(<, Nat)
<1>1. Free \subseteq Nat
  BY DEF Free
<1>2. IsWellFoundedOn(Below, Nat)
  BY NatLessThanWellFounded
<1>3. PICK f \in Free : \A g \in Free : <<g, f>> \notin Below
  <2> HIDE DEF Below
  <2> QED BY <1>1, <1>2, WFMin, Zenon
<1>4. \A g \in Free : f <= g
  <2> SUFFICES ASSUME NEW g \in Free, g < f PROVE FALSE
    BY <1>1
  <2>1. <<g, f>> \in Below
    BY <1>1 DEF OpToRel
  <2> QED BY <1>3, <2>1
<1> QED BY <1>4 DEF Lowest

-----------------------------------------------------------------------------
(* The invariant: of the events that wait, each descriptor has one, and it  *)
(* is about the connection that has the descriptor; only connections are in *)
(* error; each connection has one descriptor, none while in the backlog.    *)

OneEvent ==
    /\ \A e \in evlist : IF e.fd = listen_fd THEN e.kind = "in" ELSE e.of \in Conns
    /\ \A d, e \in evlist : d.fd = e.fd => d = e

Owned ==
    /\ \A f \in Fds \ Free :
          /\ owner[f] \notin pending /\ sock[owner[f]] # "idle"
          /\ \A g \in Fds : owner[f] = owner[g] => f = g
    /\ \A c \in pending : sock[c] # "idle"

LoopInv == LoopTypeOK /\ EventsCurrent /\ OneEvent /\ Owned

LEMMA LoopInvInit == LoopInit => LoopInv
<1> SUFFICES ASSUME LoopInit PROVE LoopInv
  OBVIOUS
<1>1. LoopTypeOK
  BY DEF LoopInit, LoopTypeOK
<1>2. EventsCurrent /\ OneEvent /\ Owned
  BY DEF LoopInit, EventsCurrent, OneEvent, Owned, Free
<1> QED BY <1>1, <1>2 DEF LoopInv

(* epoll_wait copies one event for each descriptor that is ready.           *)
LEMMA ReadyTyped ==
    ASSUME LoopInv
    PROVE  /\ Ready \subseteq Event
           /\ \A e \in Ready :
                 IF e.fd = listen_fd THEN e.kind = "in"
                 ELSE e.of \in Conns /\ owner[e.fd] = e.of
           /\ \A d, e \in Ready : d.fd = e.fd => d = e
<1>1. \A f \in Fds \ Free : owner[f] \in Conns
  BY DEF LoopInv, LoopTypeOK, Free
<1> DEFINE Listening == {[fd |-> listen_fd, kind |-> "in", of |-> "none"] : c \in pending}
           ReadyFds == {g \in Fds \ Free : sock[owner[g]] \in {"data", "eof"} \cup Broken}
           About(f) == [fd |-> f, kind |-> IF sock[owner[f]] \in Broken THEN "err" ELSE "in",
                        of |-> owner[f]]
<1>2. Ready = Listening \cup {About(f) : f \in ReadyFds}
  BY DEF Ready
<1>3. \A e \in Listening : e.fd = listen_fd /\ e \in Event
                           /\ e = [fd |-> listen_fd, kind |-> "in", of |-> "none"]
  BY DEF Event
<1>4. ASSUME NEW f \in ReadyFds
      PROVE  About(f) \in Event /\ About(f).fd = f /\ f # listen_fd
             /\ About(f).of \in Conns /\ owner[About(f).fd] = About(f).of
  BY <1>1 DEF Event
<1> HIDE DEF Listening, ReadyFds, About
<1>5. Ready \subseteq Event
  BY <1>2, <1>3, <1>4
<1>6. \A e \in Ready : IF e.fd = listen_fd THEN e.kind = "in"
                       ELSE e.of \in Conns /\ owner[e.fd] = e.of
  BY <1>2, <1>3, <1>4
<1>7. \A d, e \in Ready : d.fd = e.fd => d = e
  BY <1>2, <1>3, <1>4
<1> QED BY <1>5, <1>6, <1>7

-----------------------------------------------------------------------------
(* What keeps it.                                                           *)

(* An event is worked off; its descriptor may be closed.                    *)
LEMMA LoopInvTurn ==
    ASSUME LoopInv, NEW e \in evlist, evlist' = evlist \ {e}, pending' = pending,
           at' \in {"batch", "done"}, stop' = stop,
           sock' \in [Conns -> {"idle", "open", "data", "sent", "eof", "torn", "reset"}],
           \A c \in Conns : sock[c] # "idle" => sock'[c] # "idle",
           owner' = owner \/ owner' = [owner EXCEPT ![e.fd] = "free"]
    PROVE  LoopInv'
<1> USE DEF LoopInv
<1>1. LoopTypeOK'
  <2>1. owner' \in [Fds -> Conns \cup {"free"}]
    BY DEF LoopTypeOK
  <2> QED BY <2>1 DEF LoopTypeOK
<1>2. \A f \in Fds : owner'[f] = owner[f] \/ (owner'[f] = "free" /\ f = e.fd)
  BY DEF LoopTypeOK
<1>3. EventsCurrent' /\ OneEvent'
  <2>1. OneEvent'
    BY DEF OneEvent
  <2>2. \A d \in evlist' : d.fd # e.fd
    BY DEF OneEvent
  <2>3. \A d \in evlist' : d.fd # listen_fd => d.fd \in Fds
    BY DEF LoopTypeOK, Event
  <2> QED BY <1>2, <2>1, <2>2, <2>3 DEF EventsCurrent
<1>4. Owned'
  <2>1. \A f \in Fds \ Free' : f \in Fds \ Free /\ owner'[f] = owner[f]
    BY <1>2 DEF Free
  <2>2. \A f \in Fds \ Free : owner[f] \in Conns
    BY DEF LoopTypeOK, Free
  <2>3. \A f \in Fds \ Free', g \in Fds : owner'[f] = owner'[g] => f = g
    <3> SUFFICES ASSUME NEW f \in Fds \ Free', NEW g \in Fds, owner'[f] = owner'[g]
                 PROVE  f = g
      OBVIOUS
    <3>1. owner'[g] # "free"
      BY <2>1, <2>2
    <3> QED BY <1>2, <2>1, <3>1 DEF Owned
  <2> QED BY <2>1, <2>2, <2>3 DEF Owned, LoopTypeOK
<1> QED BY <1>1, <1>3, <1>4

LEMMA LoopInvAccept == ASSUME LoopInv, NEW e \in evlist, Accept(e) PROVE LoopInv'
<1> USE DEF LoopInv
<1>1. PICK c \in pending : pending' = pending \ {c} /\ owner' = [owner EXCEPT ![Lowest] = c]
  BY DEF Accept
<1>2. Lowest \in Fds /\ owner[Lowest] = "free" /\ c \in Conns
  BY <1>1, LowestIsFree DEF Accept, Free, LoopTypeOK
<1>3. evlist' = evlist \ {e} /\ at' = "batch" /\ UNCHANGED <<stop, sock>>
  BY DEF Accept, Turn
<1>4. LoopTypeOK'
  BY <1>1, <1>2, <1>3 DEF LoopTypeOK
<1>5. EventsCurrent' /\ OneEvent'
  <2>1. \A d \in evlist : d.fd # listen_fd => d.fd \in Fds /\ d.fd # Lowest
    BY <1>2 DEF EventsCurrent, OneEvent, LoopTypeOK, Event
  <2> QED BY <1>1, <1>3, <2>1 DEF EventsCurrent, OneEvent, LoopTypeOK
<1>6. Owned'
  <2>1. owner'[Lowest] = c /\ \A f \in Fds : f # Lowest => owner'[f] = owner[f]
    BY <1>1, <1>2 DEF LoopTypeOK
  <2>2. \A f \in Fds : owner[f] # c
    BY <1>1, <1>2 DEF Owned, Free
  <2>3. \A f \in Fds \ Free' : f # Lowest => f \in Fds \ Free
    BY <2>1 DEF Free
  <2>4. \A f \in Fds \ Free' : owner'[f] \notin pending' /\ sock'[owner'[f]] # "idle"
    BY <1>1, <1>3, <2>1, <2>3 DEF Owned
  <2>5. \A f \in Fds \ Free', g \in Fds : owner'[f] = owner'[g] => f = g
    BY <2>1, <2>2, <2>3 DEF Owned
  <2>6. \A d \in pending' : sock'[d] # "idle"
    BY <1>1, <1>3 DEF Owned
  <2> QED BY <2>4, <2>5, <2>6 DEF Owned
<1> QED BY <1>4, <1>5, <1>6

LEMMA LoopInvLoop == ASSUME LoopInv, LoopNext PROVE LoopInv'
<1> USE DEF LoopInv
<1>1. CASE Loop \/ Enter \/ BatchDone
  BY <1>1 DEF Loop, Enter, BatchDone, LoopTypeOK, EventsCurrent, OneEvent, Owned, Free
<1>2. CASE Wait
  <2>1. evlist' = Ready /\ at' = "batch" /\ UNCHANGED <<stop, owner, pending, sock>>
    BY <1>2 DEF Wait
  <2> QED BY <2>1, ReadyTyped DEF LoopTypeOK, EventsCurrent, OneEvent, Owned, Free
<1>3. ASSUME NEW e \in evlist, HungUp(e) PROVE LoopInv'
  <2>1. /\ evlist' = evlist \ {e} /\ at' = "batch" /\ UNCHANGED <<stop, pending>>
        /\ owner' = [owner EXCEPT ![e.fd] = "free"]
    BY <1>3 DEF HungUp, Turn, close
  <2>2. sock' = [sock EXCEPT ![owner[e.fd]] = "reset"]
    BY <1>3 DEF HungUp
  <2>3. /\ sock' \in [Conns -> {"idle", "open", "data", "sent", "eof", "torn", "reset"}]
        /\ \A c \in Conns : sock[c] # "idle" => sock'[c] # "idle"
    BY <2>2 DEF LoopTypeOK
  <2> QED BY <2>1, <2>3, LoopInvTurn
<1>4. ASSUME NEW e \in evlist, AcceptFails(e) PROVE LoopInv'
  <2>1. evlist' = evlist \ {e} /\ at' = "batch" /\ UNCHANGED <<stop, owner, pending, sock>>
    BY <1>4 DEF AcceptFails, Turn
  <2> QED BY <2>1, LoopInvTurn DEF LoopTypeOK
<1>5. ASSUME NEW e \in evlist, AcceptLoses(e) PROVE LoopInv'
  <2>1. evlist' = evlist \ {e} /\ at' = at /\ pending' \subseteq pending
        /\ UNCHANGED <<stop, owner, sock>>
    BY <1>5 DEF AcceptLoses, Turn
  <2> QED BY <2>1 DEF LoopTypeOK, EventsCurrent, OneEvent, Owned, Free
<1> QED BY <1>1, <1>2, <1>3, <1>4, <1>5, LoopInvAccept DEF LoopNext

LEMMA LoopInvClient == ASSUME LoopInv, ClientNext PROVE LoopInv'
<1> USE DEF LoopInv
<1>1. PICK c \in Conns :
        ClientConnect(c) \/ ClientSend(c) \/ ClientCloses(c) \/ ClientResets(c)
  BY DEF ClientNext
<1>2. UNCHANGED <<at, stop, evlist, owner>>
  BY <1>1 DEF ClientConnect, ClientSend, ClientCloses, ClientResets, Client
<1>3. \E to \in {"open", "data", "eof", "torn", "reset"} : sock' = [sock EXCEPT ![c] = to]
  BY <1>1 DEF ClientConnect, ClientSend, ClientCloses, ClientResets, Client
<1>4. sock' \in [Conns -> {"idle", "open", "data", "sent", "eof", "torn", "reset"}]
      /\ sock'[c] # "idle" /\ \A d \in Conns : d # c => sock'[d] = sock[d]
  BY <1>3 DEF LoopTypeOK
<1>5. \/ pending' = pending
      \/ pending' = pending \cup {c} /\ sock[c] = "idle"
  BY <1>1 DEF ClientConnect, ClientSend, ClientCloses, ClientResets, Client
<1>6. LoopTypeOK' /\ EventsCurrent' /\ OneEvent'
  BY <1>2, <1>4, <1>5 DEF LoopTypeOK, EventsCurrent, OneEvent
<1>7. Owned'
  <2>1. \A f \in Fds \ Free : owner[f] \in Conns
    BY DEF LoopTypeOK, Free
  <2>2. Free' = Free
    BY <1>2 DEF Free
  <2>3. \A d \in pending' : sock'[d] # "idle"
    BY <1>4, <1>5 DEF Owned, LoopTypeOK
  <2>4. \A f \in Fds \ Free : owner[f] \notin pending' /\ sock'[owner[f]] # "idle"
    BY <1>4, <1>5, <2>1 DEF Owned
  <2> QED BY <1>2, <2>2, <2>3, <2>4 DEF Owned
<1> QED BY <1>6, <1>7

LEMMA LoopInvInterrupted ==
    ASSUME LoopInv, Interrupted, stop' \in {0, 1} PROVE LoopInv'
<1>1. at' \in {"loop", "enter", "wait", "batch", "done"}
  BY DEF Interrupted, LoopInv, LoopTypeOK
<1> QED BY <1>1 DEF Interrupted, LoopInv, LoopTypeOK, EventsCurrent, OneEvent, Owned, Free

LEMMA LoopInvStutter == ASSUME LoopInv, UNCHANGED loop PROVE LoopInv'
  BY DEF loop, LoopInv, LoopTypeOK, EventsCurrent, OneEvent, Owned, Free
=============================================================================
