-------------------------- MODULE EpollServerProofs --------------------------
(* Theorems about EpollServer, for any set of connections and any number of *)
(* descriptors: its types, the safety properties, and that it keeps the     *)
(* promise of Reading.  What the loop alone needs is in EpollLoopProofs.    *)
EXTENDS EpollServer, EpollLoopProofs

USE ConnsAssumption, MaxFdAssumption
USE DEF Fds, listen_fd, Goto

(* A reading in the database has left its connection: the client has sent   *)
(* it, and nothing of the server is about that connection any more.         *)
Kept ==
    \A c \in Conns :
        \/ stored[c] = 0
        \/ /\ stored[c] = 1 /\ sock[c] \in {"sent", "eof", "reset"} /\ c \notin pending
           /\ \A f \in Fds : owner[f] # c

SInv == LoopInv /\ stored \in [Conns -> Nat] /\ Kept

LEMMA ServerInit == Init => SInv
  BY LoopInvInit DEF Init, LoopInit, SInv, Kept

(* The event of a readable connection names a descriptor and its owner.     *)
LEMMA ConnectedOwner ==
    ASSUME LoopInv, NEW e \in evlist, Connected(e)
    PROVE  e.fd \in Fds /\ owner[e.fd] \in Conns
  BY DEF Connected, LoopInv, LoopTypeOK, Event, EventsCurrent, OneEvent

-----------------------------------------------------------------------------
(* Steps of the loop.                                                       *)

LEMMA ServerLoop ==
    ASSUME SInv, LoopNext, UNCHANGED stored
    PROVE  SInv'
<1>1. LoopInv'
  BY LoopInvLoop DEF SInv
<1>2. /\ pending' \subseteq pending
      /\ \A d \in Conns : sock'[d] = sock[d] \/ sock'[d] = "reset"
  <2>1. pending' \subseteq pending
    BY DEF LoopNext, Loop, Enter, Wait, BatchDone, HungUp, Accept, AcceptFails, AcceptLoses
  <2>2. sock' = sock \/ \E d : sock' = [sock EXCEPT ![d] = "reset"]
    BY DEF LoopNext, Loop, Enter, Wait, BatchDone, HungUp, Accept, AcceptFails, AcceptLoses
  <2> QED BY <2>1, <2>2 DEF SInv, LoopInv, LoopTypeOK
<1>3. \A f \in Fds : owner'[f] = owner[f] \/ owner'[f] = "free" \/ owner'[f] \in pending
  <2> USE DEF SInv, LoopInv, LoopTypeOK
  <2>1. CASE Loop \/ Enter \/ Wait \/ BatchDone
    BY <2>1 DEF Loop, Enter, Wait, BatchDone
  <2>2. ASSUME NEW e \in evlist, HungUp(e) \/ AcceptFails(e) \/ AcceptLoses(e)
        PROVE  \A f \in Fds : owner'[f] = owner[f] \/ owner'[f] = "free"
    BY <2>2 DEF HungUp, AcceptFails, AcceptLoses, close
  <2>3. ASSUME NEW e \in evlist, Accept(e)
        PROVE  \A f \in Fds : owner'[f] = owner[f] \/ owner'[f] \in pending
    BY <2>3 DEF Accept
  <2> QED BY <2>1, <2>2, <2>3 DEF LoopNext
<1>4. Kept'
  <2> SUFFICES ASSUME NEW c \in Conns, stored[c] # 0
               PROVE  /\ stored[c] = 1 /\ sock[c] \in {"sent", "eof", "reset"}
                      /\ c \notin pending' /\ \A f \in Fds : owner'[f] # c
    BY <1>2 DEF Kept
  <2>1. /\ stored[c] = 1 /\ sock[c] \in {"sent", "eof", "reset"} /\ c \notin pending
        /\ \A f \in Fds : owner[f] # c
    BY DEF SInv, Kept
  <2>2. c # "free"
    OBVIOUS
  <2> QED BY <1>2, <1>3, <2>1, <2>2
<1> QED BY <1>1, <1>4 DEF SInv

(* Steps of datadell.  What it does to the connection c of its event: the   *)
(* connection is read or not, its reading goes up by at most one, and then  *)
(* only with its descriptor closed.                                         *)
LEMMA ServerConnected ==
    ASSUME SInv, NEW e \in evlist, Disconnected(e) \/ OpenFails(e) \/ Store(e) \/ InsertFails(e)
    PROVE  SInv'
<1> DEFINE c == owner[e.fd]
<1>1. /\ e.fd \in Fds /\ c \in Conns
      /\ evlist' = evlist \ {e} /\ at' = "batch" /\ UNCHANGED <<stop, pending>>
  BY ConnectedOwner DEF SInv, Disconnected, OpenFails, Store, InsertFails, Connected, Turn
<1>2. owner' = owner \/ owner' = [owner EXCEPT ![e.fd] = "free"]
  BY DEF Disconnected, OpenFails, Store, InsertFails, close
<1>3. \/ sock' = sock
      \/ \E to \in {"sent", "reset"} : sock' = [sock EXCEPT ![c] = to]
  BY DEF Disconnected, OpenFails, Store, InsertFails, Receive
<1>4. /\ sock' \in [Conns -> {"idle", "open", "data", "sent", "eof", "torn", "reset"}]
      /\ \A d \in Conns : sock[d] # "idle" => sock'[d] # "idle"
      /\ \A d \in Conns : sock'[d] = sock[d] \/ sock'[d] \in {"sent", "reset"}
  BY <1>1, <1>3 DEF SInv, LoopInv, LoopTypeOK
<1>5. LoopInv'
  BY <1>1, <1>2, <1>4, LoopInvTurn DEF SInv
<1>6. \/ stored' = stored
      \/ /\ stored' = [stored EXCEPT ![c] = @ + 1] /\ owner' = [owner EXCEPT ![e.fd] = "free"]
         /\ \E to \in {"sent", "reset"} : sock' = [sock EXCEPT ![c] = to]
  BY DEF Disconnected, OpenFails, Store, InsertFails, close, Receive
<1>7. stored' \in [Conns -> Nat]
  BY <1>1, <1>6 DEF SInv
<1>8. \A f \in Fds : owner'[f] = owner[f] \/ owner'[f] = "free"
  BY <1>1, <1>2 DEF SInv, LoopInv, LoopTypeOK
<1>9. Kept'
  <2>1. ASSUME NEW d \in Conns, stored[d] # 0
        PROVE  /\ d # c /\ stored[d] = 1 /\ sock'[d] \in {"sent", "eof", "reset"} /\ d \notin pending'
               /\ \A f \in Fds : owner'[f] # d
    BY <1>1, <1>4, <1>8, <2>1 DEF SInv, Kept
  <2>2. CASE stored' = stored
    BY <2>1, <2>2 DEF Kept
  <2>3. CASE stored' # stored
    <3>1. stored[c] = 0 /\ c \notin pending
      BY <1>1, <2>1 DEF SInv, LoopInv, Owned, Free
    <3>2. stored'[c] = 1 /\ \A d \in Conns : d # c => stored'[d] = stored[d]
      BY <1>1, <1>6, <2>3, <3>1 DEF SInv
    <3>3. sock'[c] \in {"sent", "reset"}
      BY <1>1, <1>6, <2>3 DEF SInv, LoopInv, LoopTypeOK
    <3>4. \A f \in Fds : owner'[f] # c
      <4>1. owner' = [owner EXCEPT ![e.fd] = "free"]
        BY <1>6, <2>3
      <4>2. \A f \in Fds : owner[f] = c => f = e.fd
        BY <1>1 DEF SInv, LoopInv, Owned, Free
      <4> QED BY <1>1, <4>1, <4>2 DEF SInv, LoopInv, LoopTypeOK
    <3> QED BY <1>1, <2>1, <3>1, <3>2, <3>3, <3>4 DEF Kept
  <2> QED BY <2>2, <2>3
<1> QED BY <1>5, <1>7, <1>9 DEF SInv

LEMMA ServerClient ==
    ASSUME SInv, ClientNext, UNCHANGED stored
    PROVE  SInv'
<1>1. LoopInv'
  BY LoopInvClient DEF SInv
<1>2. PICK c \in Conns :
        ClientConnect(c) \/ ClientSend(c) \/ ClientCloses(c) \/ ClientResets(c)
  BY DEF ClientNext
<1>3. /\ owner' = owner
      /\ \A d \in Conns : d # c => sock'[d] = sock[d] /\ (d \in pending' <=> d \in pending)
  BY <1>2 DEF ClientConnect, ClientSend, ClientCloses, ClientResets, Client,
              SInv, LoopInv, LoopTypeOK
<1>4. sock[c] \in {"sent", "eof", "reset"} => sock'[c] \in {"eof", "reset"} /\ pending' = pending
  BY <1>2 DEF ClientConnect, ClientSend, ClientCloses, ClientResets, Client,
              SInv, LoopInv, LoopTypeOK
<1>5. Kept'
  BY <1>3, <1>4 DEF SInv, Kept
<1> QED BY <1>1, <1>5 DEF SInv

LEMMA ServerNext == SInv /\ [Next]_vars => SInv'
<1> SUFFICES ASSUME SInv, [Next]_vars PROVE SInv'
  OBVIOUS
<1>1. CASE sig_usr
  <2>1. LoopInv'
    BY <1>1, LoopInvInterrupted DEF sig_usr, SInv
  <2> QED BY <1>1, <2>1 DEF sig_usr, Interrupted, SInv, Kept
<1>2. CASE UNCHANGED vars
  <2>1. LoopInv'
    BY <1>2, LoopInvStutter DEF vars, SInv
  <2> QED BY <1>2, <2>1 DEF vars, loop, SInv, Kept
<1> QED BY <1>1, <1>2, ServerLoop, ServerConnected, ServerClient DEF Next, MainNext

-----------------------------------------------------------------------------

(* The variables keep their types.                                          *)
THEOREM TypeCorrect == Spec => []TypeOK
<1>1. SInv => TypeOK
  BY DEF SInv, LoopInv, TypeOK
<1> QED BY <1>1, ServerInit, ServerNext, PTL DEF Spec

(* No event is worked off in the name of a connection it was not copied     *)
(* for, whatever is closed and accepted in between.                         *)
THEOREM EventsCurrentHolds == Spec => []EventsCurrent
<1>1. SInv => EventsCurrent
  BY DEF SInv, LoopInv
<1> QED BY <1>1, ServerInit, ServerNext, PTL DEF Spec

(* A connection has one descriptor, none before it is accepted and none     *)
(* once its reading is stored.                                              *)
THEOREM OneDescriptorHolds == Spec => []OneDescriptor
<1>1. SInv => OneDescriptor
  <2> SUFFICES ASSUME SInv, NEW f \in Fds \ Free
               PROVE  /\ owner[f] \notin pending /\ sock[owner[f]] # "idle"
                      /\ stored[owner[f]] = 0
                      /\ \A g \in Fds : owner[f] = owner[g] => f = g
    BY DEF OneDescriptor
  <2>1. owner[f] \in Conns
    BY DEF SInv, LoopInv, LoopTypeOK, Free
  <2> QED BY <2>1 DEF SInv, LoopInv, Owned, Kept
<1> QED BY <1>1, ServerInit, ServerNext, PTL DEF Spec

-----------------------------------------------------------------------------
(* The refinement: what a step does to the stages of the readings.          *)

Same(d) == Stage(d)' = Stage(d)

(* The steps of Reading, as changes of one stage.                           *)
Moves(c) ==
    /\ \A d \in Conns : d # c => Same(d)
    /\ \/ Stage(c) = "unsent" /\ Stage(c)' \in {"sent", "lost"}
       \/ Stage(c) = "sent" /\ Stage(c)' \in {"stored", "lost"}

LEMMA StageMoves ==
    ASSUME (\A d \in Conns : Same(d)) \/ (\E c \in Conns : Moves(c))
    PROVE  [R!Next]_([c \in Conns |-> Stage(c)])
<1>1. CASE \A d \in Conns : Same(d)
  <2>1. [d \in Conns |-> Stage(d)]' = [d \in Conns |-> Stage(d)]
    BY <1>1 DEF Same
  <2> QED BY <2>1
<1>2. ASSUME NEW c \in Conns, Moves(c) PROVE R!Next
  <2> DEFINE s == [d \in Conns |-> Stage(d)]
  <2>1. s[c] = Stage(c)
    OBVIOUS
  <2>2. s' = [s EXCEPT ![c] = Stage(c)']
    BY <1>2 DEF Moves, Same
  <2>3. R!Send(c) \/ R!Record(c) \/ R!Lose(c)
    <3> HIDE DEF s
    <3>1. CASE Stage(c) = "unsent" /\ Stage(c)' = "sent"
      BY <2>1, <2>2, <3>1 DEF R!Send, R!Step, s
    <3>2. CASE Stage(c) = "sent" /\ Stage(c)' = "stored"
      BY <2>1, <2>2, <3>2 DEF R!Record, R!Step, s
    <3>3. CASE Stage(c) \in {"unsent", "sent"} /\ Stage(c)' = "lost"
      BY <2>1, <2>2, <3>3 DEF R!Lose, R!Step, s
    <3> QED BY <1>2, <3>1, <3>2, <3>3 DEF Moves
  <2> QED BY <2>3 DEF R!Next
<1> QED BY <1>1, <1>2

(* The server answers for the readings it reads; only the connection of the *)
(* event moves, from "sent".                                                *)
LEMMA StageConnected ==
    ASSUME SInv, NEW e \in evlist, Disconnected(e) \/ OpenFails(e) \/ Store(e) \/ InsertFails(e)
    PROVE  (\A d \in Conns : Same(d)) \/ (\E c \in Conns : Moves(c))
<1>1. PICK c \in Conns : c = owner[e.fd]
  BY ConnectedOwner DEF SInv, Disconnected, OpenFails, Store, InsertFails
<1>2. stored[c] = 0
  BY <1>1, ConnectedOwner DEF SInv, Kept, Disconnected, OpenFails, Store, InsertFails
<1>3. CASE Disconnected(e)
  BY <1>3 DEF Disconnected, Same, Stage
<1>4. CASE OpenFails(e) \/ InsertFails(e)
  <2>1. /\ sock[c] \in {"data", "torn"} /\ stored' = stored
        /\ \E to \in {"sent", "reset"} : sock' = [sock EXCEPT ![c] = to]
    BY <1>1, <1>4 DEF OpenFails, InsertFails, Receive, Unread
  <2>2. sock'[c] \in {"sent", "reset"} /\ \A d \in Conns : d # c => sock'[d] = sock[d]
    BY <1>1, <2>1 DEF SInv, LoopInv, LoopTypeOK
  <2>3. Stage(c) = "sent" /\ Stage(c)' = "lost"
    BY <1>2, <2>1, <2>2 DEF Stage, Unread
  <2>4. \A d \in Conns : d # c => Same(d)
    BY <2>1, <2>2 DEF Same, Stage, Unread
  <2> QED BY <2>3, <2>4 DEF Moves
<1>5. CASE Store(e)
  <2>1. /\ sock[c] \in {"data", "torn"} /\ stored' = [stored EXCEPT ![c] = @ + 1]
        /\ \E to \in {"sent", "reset"} : sock' = [sock EXCEPT ![c] = to]
    BY <1>1, <1>5 DEF Store, Receive, Unread
  <2>2. /\ stored'[c] = 1
        /\ \A d \in Conns : d # c => sock'[d] = sock[d] /\ stored'[d] = stored[d]
    BY <1>1, <1>2, <2>1 DEF SInv, LoopInv, LoopTypeOK
  <2>3. Stage(c) = "sent" /\ Stage(c)' = "stored"
    BY <1>2, <2>1, <2>2 DEF Stage, Unread
  <2>4. \A d \in Conns : d # c => Same(d)
    BY <2>2 DEF Same, Stage, Unread
  <2> QED BY <2>3, <2>4 DEF Moves
<1> QED BY <1>3, <1>4, <1>5

LEMMA StageClient ==
    ASSUME SInv, NEW c \in Conns, UNCHANGED stored,
           ClientConnect(c) \/ ClientSend(c) \/ ClientCloses(c) \/ ClientResets(c)
    PROVE  Same(c) \/ Moves(c)
<1>1. \A d \in Conns : d # c => Same(d)
  BY DEF Same, Stage, Unread, ClientConnect, ClientSend, ClientCloses, ClientResets, Client,
         SInv, LoopInv, LoopTypeOK
<1>2. /\ sock[c] \in {"idle", "open", "data", "sent", "eof", "torn", "reset"}
      /\ stored[c] = 0 \/ (stored[c] = 1 /\ sock[c] \in {"sent", "eof", "reset"})
  BY DEF SInv, LoopInv, LoopTypeOK, Kept
<1>3. \/ sock[c] = "idle" /\ sock'[c] = "open"
      \/ sock[c] = "open" /\ sock'[c] \in {"data", "eof", "reset"}
      \/ sock[c] = "data" /\ sock'[c] = "torn"
      \/ sock[c] \in {"sent", "eof"} /\ sock'[c] \in {"eof", "reset"}
  BY DEF ClientConnect, ClientSend, ClientCloses, ClientResets, Client,
         SInv, LoopInv, LoopTypeOK
<1>4. \/ Stage(c)' = Stage(c)
      \/ Stage(c) = "unsent" /\ Stage(c)' \in {"sent", "lost"}
  BY <1>2, <1>3 DEF Stage, Unread
<1> QED BY <1>1, <1>4 DEF Moves, Same

(* A connection that hung up is closed, with what was not read.             *)
LEMMA StageHungUp ==
    ASSUME SInv, NEW e \in evlist, HungUp(e), UNCHANGED stored
    PROVE  (\A d \in Conns : Same(d)) \/ (\E c \in Conns : Moves(c))
<1>1. /\ e.fd \in Fds /\ owner[e.fd] \in Conns
      /\ sock' = [sock EXCEPT ![owner[e.fd]] = "reset"]
  BY DEF HungUp, SInv, LoopInv, LoopTypeOK, Event, EventsCurrent, OneEvent
<1>2. PICK c \in Conns : c = owner[e.fd]
  BY <1>1
<1>3. stored[c] = 0 /\ stored'[c] = 0
  BY <1>1, <1>2 DEF SInv, Kept
<1>4. sock'[c] = "reset" /\ \A d \in Conns : d # c => sock'[d] = sock[d]
  BY <1>1, <1>2 DEF SInv, LoopInv, LoopTypeOK
<1>5. Stage(c)' = "lost" /\ Stage(c) \in {"unsent", "sent", "lost"}
  BY <1>3, <1>4 DEF Stage, Unread
<1>6. \A d \in Conns : d # c => Same(d)
  BY <1>4 DEF Same, Stage, Unread
<1> QED BY <1>5, <1>6 DEF Moves, Same

LEMMA StageNext == SInv /\ [Next]_vars => [R!Next]_([c \in Conns |-> Stage(c)])
<1> SUFFICES ASSUME SInv, [Next]_vars
             PROVE  (\A d \in Conns : Same(d)) \/ (\E c \in Conns : Moves(c))
  BY StageMoves
<1>1. CASE (LoopNext /\ UNCHANGED stored) \/ sig_usr \/ UNCHANGED vars
  <2>1. UNCHANGED <<sock, stored>> \/ \E e \in evlist : HungUp(e) /\ UNCHANGED stored
    BY <1>1 DEF LoopNext, Loop, Enter, Wait, BatchDone, Accept, AcceptFails,
                AcceptLoses, sig_usr, Interrupted, vars, loop
  <2> QED BY <2>1, StageHungUp DEF Same, Stage, Unread
<1>2. ASSUME NEW e \in evlist, Disconnected(e) \/ OpenFails(e) \/ Store(e) \/ InsertFails(e)
      PROVE  (\A d \in Conns : Same(d)) \/ (\E c \in Conns : Moves(c))
  BY <1>2, StageConnected
<1>3. CASE ClientNext /\ UNCHANGED stored
  <2>1. PICK c \in Conns :
          ClientConnect(c) \/ ClientSend(c) \/ ClientCloses(c) \/ ClientResets(c)
    BY <1>3 DEF ClientNext
  <2>2. \A d \in Conns : d # c => Same(d)
    BY <2>1, <1>3 DEF Same, Stage, Unread, ClientConnect, ClientSend, ClientCloses, ClientResets,
                      Client, SInv, LoopInv, LoopTypeOK
  <2> QED BY <1>3, <2>1, <2>2, StageClient
<1> QED BY <1>1, <1>2, <1>3 DEF Next, MainNext

(* The server keeps the promise of Reading: a reading is taken once, stored *)
(* at most once and never after it was given up.                            *)
THEOREM ReadingKeptHolds == Spec => ReadingKept
<1>1. Init => R!Init
  BY DEF Init, LoopInit, Stage, Unread, R!Init
<1> QED BY <1>1, ServerInit, ServerNext, StageNext, PTL DEF Spec, ReadingKept, R!Spec
=============================================================================
