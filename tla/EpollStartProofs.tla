--------------------------- MODULE EpollStartProofs ---------------------------
(* Theorems about EpollStart, for any set of connections and any number of  *)
(* descriptors: the SMS program is given the descriptor of a connection     *)
(* that is there, and the choice stands.                                    *)
EXTENDS EpollStart, EpollLoopProofs

USE ConnsAssumption, MaxFdAssumption
USE DEF Fds, listen_fd, Goto, running, stdin

(* The function returns once, out of a batch, for an event of its own       *)
(* client; what the client does later leaves it something to read.          *)
Chosen ==
    ret_fd \in Fds =>
        /\ at = "done" /\ owner[ret_fd] \in Conns
        /\ sock[owner[ret_fd]] \in {"data", "eof"} \cup Broken

(* What the events of this batch are about stays ready until its turn: this *)
(* loop reads nothing.                                                      *)
StillReady ==
    \A e \in evlist : e.fd # listen_fd => sock[e.of] \in {"data", "eof"} \cup Broken

StartInv ==
    /\ LoopInv /\ ret_fd \in {running, stdin} \cup Fds /\ g_stop \in BOOLEAN
    /\ Chosen /\ StillReady

LEMMA StartInit == Init => StartInv
<1> SUFFICES ASSUME Init PROVE StartInv
  OBVIOUS
<1>1. LoopInv
  BY LoopInvInit DEF Init
<1>2. ret_fd = running /\ g_stop = FALSE /\ evlist = {}
  BY DEF Init, LoopInit
<1>3. Chosen /\ StillReady
  BY <1>2 DEF Chosen, StillReady
<1> QED BY <1>1, <1>2, <1>3 DEF StartInv

LEMMA ReadyHasData ==
    ASSUME LoopInv
    PROVE  \A e \in Ready : e.fd # listen_fd => sock[e.of] \in {"data", "eof"} \cup Broken
  BY DEF Ready, Broken

-----------------------------------------------------------------------------
(* The steps.                                                               *)

(* Once the function has returned, only the backlog of its loop can move.   *)
LEMMA LoopOver ==
    ASSUME StartInv, LoopNext, at = "done"
    PROVE  UNCHANGED <<at, owner, sock>>
  BY DEF LoopNext, Loop, Enter, Wait, BatchDone, HungUp, Accept, AcceptFails, AcceptLoses, Turn

LEMMA StartLoop ==
    ASSUME StartInv, LoopNext, UNCHANGED <<ret_fd, g_stop>>
    PROVE  StartInv'
<1>1. LoopInv'
  BY LoopInvLoop DEF StartInv
<1>2. Chosen'
  BY LoopOver DEF StartInv, Chosen
<1>3. \A c \in Conns : sock'[c] = sock[c] \/ sock'[c] = "reset"
  <2>1. sock' = sock \/ \E d : sock' = [sock EXCEPT ![d] = "reset"]
    BY DEF LoopNext, Loop, Enter, Wait, BatchDone, HungUp, Accept, AcceptFails, AcceptLoses
  <2> QED BY <2>1 DEF StartInv, LoopInv, LoopTypeOK
<1>6. \A e \in evlist \cup Ready : e.fd # listen_fd => e.of \in Conns
  BY ReadyTyped DEF StartInv, LoopInv, OneEvent
<1>4. evlist' \subseteq evlist \/ evlist' = Ready
  BY DEF LoopNext, Loop, Enter, Wait, BatchDone, HungUp, Accept, AcceptFails, AcceptLoses, Turn
<1>5. StillReady'
  <2>1. CASE evlist' \subseteq evlist
    BY <1>3, <1>6, <2>1 DEF StartInv, StillReady, Broken
  <2>2. CASE evlist' = Ready
    BY <1>3, <1>6, <2>2, ReadyHasData DEF StartInv, StillReady, Broken
  <2> QED BY <1>4, <2>1, <2>2
<1> QED BY <1>1, <1>2, <1>5 DEF StartInv

LEMMA StartReturn == ASSUME StartInv, NEW e \in evlist, Return(e) PROVE StartInv'
<1>1. /\ evlist' = evlist \ {e} /\ at' = "done" /\ ret_fd' = e.fd
      /\ UNCHANGED <<stop, owner, pending, sock, g_stop>>
  BY DEF Return, Connected, Turn
<1>2. LoopInv'
  <2>1. sock \in [Conns -> {"idle", "open", "data", "sent", "eof", "torn", "reset"}]
    BY DEF StartInv, LoopInv, LoopTypeOK
  <2> QED BY <1>1, <2>1, LoopInvTurn DEF StartInv
<1>3. e.fd \in Fds /\ owner[e.fd] = e.of /\ e.of \in Conns
      /\ sock[e.of] \in {"data", "eof"} \cup Broken
  BY DEF Return, Connected, StartInv, LoopInv, LoopTypeOK, Event, EventsCurrent, OneEvent,
         StillReady
<1>4. Chosen'
  BY <1>1, <1>3 DEF Chosen
<1>5. StillReady'
  BY <1>1 DEF StartInv, StillReady
<1> QED BY <1>1, <1>2, <1>3, <1>4, <1>5 DEF StartInv

LEMMA StartClient ==
    ASSUME StartInv, ClientNext, UNCHANGED <<ret_fd, g_stop>>
    PROVE  StartInv'
<1>1. LoopInv'
  BY LoopInvClient DEF StartInv
<1>2. UNCHANGED <<at, evlist, owner>>
  BY DEF ClientNext, ClientConnect, ClientSend, ClientCloses, ClientResets, Client
<1>3. \A d \in Conns :
        sock[d] \in {"data", "eof"} \cup Broken => sock'[d] \in {"data", "eof"} \cup Broken
  <2> SUFFICES ASSUME NEW d \in Conns, sock[d] \in {"data", "eof"} \cup Broken
               PROVE  sock'[d] \in {"data", "eof"} \cup Broken
    OBVIOUS
  <2> QED BY DEF ClientNext, ClientConnect, ClientSend, ClientCloses, ClientResets, Client,
                 StartInv, LoopInv, LoopTypeOK, Broken
<1>4. Chosen' /\ StillReady'
  BY <1>2, <1>3 DEF StartInv, LoopInv, OneEvent, Chosen, StillReady
<1> QED BY <1>1, <1>4 DEF StartInv

LEMMA StartSignal == ASSUME StartInv, sig_sigstp \/ sig_sigint PROVE StartInv'
<1>1. Interrupted /\ stop' \in {0, 1} /\ ret_fd' = ret_fd /\ g_stop' \in BOOLEAN
  BY DEF sig_sigstp, sig_sigint, StartInv, LoopInv, LoopTypeOK
<1>2. LoopInv'
  BY <1>1, LoopInvInterrupted DEF StartInv
<1>3. Chosen' /\ StillReady'
  BY <1>1 DEF Interrupted, StartInv, Chosen, StillReady
<1> QED BY <1>1, <1>2, <1>3 DEF StartInv

LEMMA StartNextKeeps == StartInv /\ [Next]_vars => StartInv'
<1> SUFFICES ASSUME StartInv, [Next]_vars PROVE StartInv'
  OBVIOUS
<1>1. CASE ReturnStopped
  <2>1. UNCHANGED <<loop, g_stop>> /\ ret_fd' = stdin
    BY <1>1 DEF ReturnStopped
  <2>2. LoopInv'
    BY <2>1, LoopInvStutter DEF StartInv
  <2> QED BY <2>1, <2>2 DEF loop, StartInv, Chosen, StillReady
<1>2. CASE UNCHANGED vars
  <2>1. LoopInv'
    BY <1>2, LoopInvStutter DEF vars, StartInv
  <2> QED BY <1>2, <2>1 DEF vars, loop, StartInv, Chosen, StillReady
<1> QED BY <1>1, <1>2, StartLoop, StartReturn, StartClient, StartSignal DEF Next, StartNext

-----------------------------------------------------------------------------

(* The variables keep their types.                                          *)
THEOREM TypeCorrect == Spec => []TypeOK
<1>1. StartInv => TypeOK
  BY DEF StartInv, LoopInv, TypeOK
<1> QED BY <1>1, StartInit, StartNextKeeps, PTL DEF Spec

(* What main() is given is open, and has a line or an end to read.          *)
THEOREM GivesClientHolds == Spec => []GivesClient
<1>1. StartInv => GivesClient
  <2> SUFFICES ASSUME StartInv, ret_fd \in Fds
               PROVE  owner[ret_fd] \in Conns \ pending
                      /\ sock[owner[ret_fd]] \in {"data", "eof"} \cup Broken
    BY DEF GivesClient
  <2>1. owner[ret_fd] \in Conns /\ sock[owner[ret_fd]] \in {"data", "eof"} \cup Broken
    BY DEF StartInv, Chosen
  <2>2. owner[ret_fd] \notin pending
    BY <2>1 DEF StartInv, LoopInv, Owned, Free
  <2> QED BY <2>1, <2>2
<1> QED BY <1>1, StartInit, StartNextKeeps, PTL DEF Spec

(* The descriptor that was returned is never another connection's.          *)
THEOREM ClientForGoodHolds == Spec => ClientForGood
<1>1. ASSUME StartInv, [Next]_vars, ret_fd \in Fds
      PROVE  ret_fd' = ret_fd /\ owner'[ret_fd] = owner[ret_fd]
  <2>1. at = "done"
    BY <1>1 DEF StartInv, Chosen
  <2>2. CASE LoopNext /\ UNCHANGED <<ret_fd, g_stop>>
    BY <1>1, <2>1, <2>2, LoopOver
  <2>3. CASE \E e \in evlist : Return(e)
    BY <2>1, <2>3 DEF Return, Connected, Turn
  <2>4. CASE ReturnStopped
    BY <1>1, <2>4 DEF ReturnStopped
  <2>5. CASE ClientNext /\ UNCHANGED <<ret_fd, g_stop>>
    BY <2>5 DEF ClientNext, ClientConnect, ClientSend, ClientCloses, ClientResets, Client
  <2>6. CASE sig_sigstp \/ sig_sigint
    BY <2>6 DEF sig_sigstp, sig_sigint, Interrupted
  <2>7. CASE UNCHANGED vars
    BY <2>7 DEF vars, loop
  <2> QED BY <1>1, <2>2, <2>3, <2>4, <2>5, <2>6, <2>7 DEF Next, StartNext
<1>2. StartInv /\ [Next]_vars => [(ret_fd \in Fds) => ret_fd' = ret_fd /\ owner'[ret_fd] = owner[ret_fd]]_vars
  BY <1>1
<1> QED BY <1>2, StartInit, StartNextKeeps, PTL DEF Spec, ClientForGood
=============================================================================
