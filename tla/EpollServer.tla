------------------------------ MODULE EpollServer ------------------------------
(***************************************************************************)
(* The temperature server on epoll, epoll_server/epoll_sever.c: the loop of*)
(* EpollLoop with the handler datadell (epoll_server/datadell.c).  Each    *)
(* connection carries one reading (wujinlong/client.c).                    *)
(***************************************************************************)
EXTENDS EpollLoop

VARIABLE stored     \* the database: how often each reading was inserted

vars == <<loop, stored>>

TypeOK == LoopTypeOK /\ stored \in [Conns -> Nat]

Init == LoopInit /\ stored = [c \in Conns |-> 0]

-----------------------------------------------------------------------------
(* Slips that the properties below would catch; no specification uses them.*)

FaultStore(e) ==        \* leaves the descriptor open
    /\ Connected(e) /\ sock[owner[e.fd]] = "data"
    /\ sock' = [sock EXCEPT ![owner[e.fd]] = "sent"]
    /\ stored' = [stored EXCEPT ![owner[e.fd]] = @ + 1]
    /\ UNCHANGED <<at, owner, pending>>

FaultDisconnected(e) == \* takes an empty read for a reading
    /\ Connected(e) /\ sock[owner[e.fd]] = "eof"
    /\ stored' = [stored EXCEPT ![owner[e.fd]] = @ + 1]
    /\ close(e.fd)
    /\ UNCHANGED <<at, pending, sock>>

FaultBreak(e) ==        \* leaves the for loop where the code continues it
    /\ at = "batch" /\ e \in evlist /\ e.kind = "in" /\ e.fd # listen_fd
    /\ sock[owner[e.fd]] \in {"eof", "reset"}
    /\ evlist' = {}
    /\ UNCHANGED <<at, stop, owner, stored, pending, sock>>

-----------------------------------------------------------------------------
(* datadell(), called for an event of a connection.                        *)

(* read() <= 0: datadell returns -1 or -2, and main goes on without closing*)
(* the descriptor.                                                         *)
Disconnected(e) ==
    /\ Connected(e) /\ sock[owner[e.fd]] \in {"eof", "reset"}
    /\ UNCHANGED <<at, owner, stored, pending, sock>>

(* read() returns the data of a connection that was reset after its event  *)
(* was copied; the error comes with the next one.                          *)
Unread(c)  == sock[c] \in {"data", "torn"}
Receive(c) == Unread(c) /\ sock' = [sock EXCEPT ![c] = IF @ = "data" THEN "sent" ELSE "reset"]

(* -3: the database cannot be opened, and again nothing is closed.         *)
OpenFails(e) ==
    /\ Connected(e) /\ Receive(owner[e.fd])
    /\ UNCHANGED <<at, owner, stored, pending>>

Store(e) ==
    /\ Connected(e) /\ Receive(owner[e.fd])
    /\ stored' = [stored EXCEPT ![owner[e.fd]] = @ + 1]
    /\ close(e.fd)
    /\ UNCHANGED <<at, pending>>

(* A failing INSERT is printed and counts as success.                      *)
InsertFails(e) ==
    /\ Connected(e) /\ Receive(owner[e.fd])
    /\ close(e.fd)
    /\ UNCHANGED <<at, stored, pending>>

MainNext ==
    \/ LoopNext /\ UNCHANGED stored
    \/ \E e \in evlist : Disconnected(e) \/ OpenFails(e) \/ Store(e) \/ InsertFails(e)

sig_usr == Interrupted /\ stop' = 1 /\ UNCHANGED stored

Next == MainNext \/ (ClientNext /\ UNCHANGED stored) \/ sig_usr

Spec == Init /\ [][Next]_vars

(* The process runs; no client has to do anything.                         *)
FairSpec == Spec /\ WF_vars(MainNext)

-----------------------------------------------------------------------------
(* Properties.                                                             *)

(* A connection has one descriptor, none before accept() and none again    *)
(* once its reading is in the database.                                    *)
OneDescriptor ==
    \A f \in Fds \ Free :
        /\ owner[f] \notin pending /\ sock[owner[f]] # "idle" /\ stored[owner[f]] = 0
        /\ \A g \in Fds : owner[f] = owner[g] => f = g

(* What becomes of each reading: the promise of module Reading.            *)
Stage(c) ==
    CASE stored[c] > 1 -> "stored twice"
      [] stored[c] = 1 -> "stored"
      [] stored[c] = 0 /\ Unread(c) -> "sent"
      [] stored[c] = 0 /\ sock[c] \in {"sent", "eof", "reset"} -> "lost"
      [] OTHER -> "unsent"

R == INSTANCE Reading WITH stage <- [c \in Conns |-> Stage(c)]
ReadingKept == R!Spec

(* A client that waits to be accepted is, although the descriptors of      *)
(* clients that left without a reading stay ready for ever; unless no      *)
(* descriptor is left or the server is told to stop.                       *)
PendingAccepted ==
    \A c \in Conns : c \in pending ~> c \notin pending \/ Free = {} \/ stop = 1

(* A reading that reached an accepted connection is read, unless the       *)
(* connection is reset before it has its turn; and then it is not kept,    *)
(* either: its descriptor is given back.  So whatever the clients do, no   *)
(* reading stays where it is until the server is told to stop.             *)
ReadingTaken ==
    \A c \in Conns :
        Unread(c) /\ (\E f \in Fds : owner[f] = c) ~>
            \/ sock[c] = "sent" \/ stop = 1
            \/ sock[c] = "reset" /\ \A f \in Fds : owner[f] # c

(* SIGUSR2 ends the server, except when it comes between the test of       *)
(* the flag and the system call: then only the next event does.        *)
StopHonoured == stop = 1 ~> at = "done" \/ (at = "wait" /\ Ready = {})
=============================================================================
