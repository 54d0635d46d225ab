------------------------------- MODULE EpollLoop -------------------------------
(***************************************************************************)
(* The event loop that the two epoll servers of the repository have in     *)
(* common: main() of epoll_server/epoll_sever.c and epoll_server_start()   *)
(* of sim5360/epoll_sever.c, a copy of it.  One process, a level triggered *)
(* epoll instance, one batch of events after another.  The modules that    *)
(* extend this one add what is done for a connection that is readable.     *)
(*                                                                         *)
(* The kernel's part (descriptor table, backlog, readiness) is modelled as *)
(* the code uses it.  An event is a copy made by epoll_wait: between the   *)
(* copy and its turn the server closes and accepts descriptors, and        *)
(* clients go on.  MAXEVENT (512) exceeds the descriptors here, so a batch *)
(* holds everything that was ready; its order is the kernel's.             *)
(***************************************************************************)
EXTENDS Integers

CONSTANTS
    Conns,          \* the connections clients make
    MaxFd           \* bound: descriptors the process may have for them

ASSUME ConnsAssumption == Conns \cap {"free", "none"} = {}
ASSUME MaxFdAssumption == MaxFd \in Nat \ {0}

Fds       == 1..MaxFd
listen_fd == 0

VARIABLES
    at,             \* where the loop is
    stop,           \* g_cilentstop, g_serverstop
    evlist,         \* the events of this batch that wait for their turn:
                    \* the descriptor, the kind, and (history) whose it was
    owner,          \* the descriptor table, which is the epoll set, too
    pending,        \* connections waiting in the backlog
    sock            \* each connection: "sent": the client sent what it had to,
                    \* and the server has read it; "torn": reset before it has

loop == <<at, stop, evlist, owner, pending, sock>>

Free   == {f \in Fds : owner[f] = "free"}
Lowest == CHOOSE f \in Free : \A g \in Free : f <= g
Event  == [fd : Fds \cup {listen_fd}, kind : {"in", "err"}, of : Conns \cup {"none"}]

LoopTypeOK ==
    /\ at \in {"loop", "enter", "wait", "batch", "done"}
    /\ stop \in {0, 1}
    /\ evlist \subseteq Event
    /\ owner \in [Fds -> Conns \cup {"free"}]
    /\ pending \subseteq Conns
    /\ sock \in [Conns -> {"idle", "open", "data", "sent", "eof", "torn", "reset"}]

LoopInit ==
    /\ at = "loop" /\ stop = 0 /\ evlist = {}
    /\ owner = [f \in Fds |-> "free"] /\ pending = {}
    /\ sock = [c \in Conns |-> "idle"]

(* Level triggered: what is ready now.  A connection that was reset is in  *)
(* error (EPOLLERR, EPOLLHUP), with data to be read as well as without, and*)
(* even after a read() returned the error.                                 *)
Broken == {"torn", "reset"}
Ready ==
    {[fd |-> listen_fd, kind |-> "in", of |-> "none"] : c \in pending} \cup
    {[fd |-> f, kind |-> IF sock[owner[f]] \in Broken THEN "err" ELSE "in", of |-> owner[f]] :
        f \in {g \in Fds \ Free : sock[owner[g]] \in {"data", "eof"} \cup Broken}}

-----------------------------------------------------------------------------
(* Slips that properties would catch; no specification uses them.          *)

FaultHungUp(e) ==       \* comes back to the event of what it closed
    /\ at = "batch" /\ e \in evlist /\ e.kind = "err"
    /\ owner' = [owner EXCEPT ![e.fd] = "free"]
    /\ UNCHANGED <<at, stop, evlist, pending, sock>>

FaultBatchDone ==       \* waits again without a look at the flag
    /\ at = "batch" /\ evlist = {}
    /\ at' = "enter"
    /\ UNCHANGED <<stop, evlist, owner, pending, sock>>

FaultWait ==            \* drops what was ready but the listening socket
    /\ at = "wait" /\ Ready # {}
    /\ evlist' = {e \in Ready : e.fd = listen_fd}
    /\ at' = "batch"
    /\ UNCHANGED <<stop, owner, pending, sock>>

-----------------------------------------------------------------------------
(* The loop.                                                               *)

Goto(l) == at' = l /\ UNCHANGED <<stop, evlist, owner, pending, sock>>

Loop == at = "loop" /\ Goto(IF stop = 0 THEN "enter" ELSE "done")

(* The system call: a signal that came before it does not end it.          *)
Enter == at = "enter" /\ Goto("wait")

Wait ==
    /\ at = "wait" /\ Ready # {}
    /\ evlist' = Ready
    /\ at' = "batch"
    /\ UNCHANGED <<stop, owner, pending, sock>>

BatchDone == at = "batch" /\ evlist = {} /\ Goto("loop")

(* The turn of one event.                                                  *)
Turn(e) ==
    /\ at = "batch" /\ e \in evlist
    /\ evlist' = evlist \ {e}

close(fd) == owner' = [owner EXCEPT ![fd] = "free"]

(* What the connection still holds is thrown away with it.                 *)
HungUp(e) ==
    /\ Turn(e) /\ e.kind = "err"
    /\ close(e.fd)
    /\ sock' = [sock EXCEPT ![owner[e.fd]] = "reset"]
    /\ UNCHANGED <<at, stop, pending>>

Accept(e) ==
    /\ Turn(e) /\ e.fd = listen_fd /\ Free # {}
    /\ \E c \in pending :
          /\ pending' = pending \ {c}
          /\ owner' = [owner EXCEPT ![Lowest] = c]
    /\ UNCHANGED <<at, stop, sock>>

(* No descriptor is left: the connection stays in the backlog.             *)
AcceptFails(e) ==
    /\ Turn(e) /\ e.fd = listen_fd /\ Free = {}
    /\ UNCHANGED <<at, stop, owner, pending, sock>>

(* The connection is lost: aborted, refused because addrlen, which nobody  *)
(* initialises, is negative, or closed after EPOLL_CTL_ADD failed.         *)
AcceptLoses(e) ==
    /\ Turn(e) /\ e.fd = listen_fd
    /\ \E c \in pending : pending' = pending \ {c}
    /\ UNCHANGED <<at, stop, owner, sock>>

(* The turn of a connection that was readable.                             *)
Connected(e) == Turn(e) /\ e.kind = "in" /\ e.fd # listen_fd /\ UNCHANGED stop

LoopNext ==
    \/ Loop \/ Enter \/ Wait \/ BatchDone
    \/ \E e \in evlist : HungUp(e) \/ Accept(e) \/ AcceptFails(e) \/ AcceptLoses(e)

-----------------------------------------------------------------------------
(* The clients and the terminal.                                           *)

Client(c, from, to) ==
    /\ sock[c] \in from
    /\ sock' = [sock EXCEPT ![c] = to]
    /\ UNCHANGED <<at, stop, evlist, owner>>

(* The end that follows unread data is noticed after it; a reset is at once. *)
ClientConnect(c) == Client(c, {"idle"}, "open") /\ pending' = pending \cup {c}
ClientSend(c)    == Client(c, {"open"}, "data") /\ UNCHANGED pending
ClientCloses(c)  == Client(c, {"open", "sent"}, "eof") /\ UNCHANGED pending
ClientResets(c)  ==
    /\ \/ Client(c, {"open", "sent", "eof"}, "reset")
       \/ Client(c, {"data"}, "torn")
    /\ UNCHANGED pending

ClientNext ==
    \E c \in Conns : ClientConnect(c) \/ ClientSend(c) \/ ClientCloses(c) \/ ClientResets(c)

(* epoll_wait is never restarted: unless it has events to return it fails  *)
(* with EINTR, and the loop goes on at its test.                           *)
Interrupted ==
    /\ at # "done"
    /\ at' = IF at = "wait" /\ Ready = {} THEN "loop" ELSE at
    /\ UNCHANGED <<evlist, owner, pending, sock>>

-----------------------------------------------------------------------------
(* Properties of the loop.                                                 *)

(* An event that waits for its turn is about the connection it was copied  *)
(* for, although descriptors are closed and reused while the batch is      *)
(* worked off: nobody's descriptor is closed or read in another's name.    *)
EventsCurrent == \A e \in evlist : e.fd # listen_fd => owner[e.fd] = e.of
=============================================================================
