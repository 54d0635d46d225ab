------------------------------ MODULE EpollStart ------------------------------
(***************************************************************************)
(* How the SMS program gets its client: epoll_server_start() of            *)
(* sim5360/epoll_sever.c, called by main() of sim5360/pthread.c before its *)
(* own loop.  The loop of EpollLoop returns the descriptor of the first    *)
(* connection with an event, which SmsControl starts from.  The listening  *)
(* socket, the epoll instance and the other connections stay open and are  *)
(* never looked at again.                                                  *)
(***************************************************************************)
EXTENDS EpollLoop

VARIABLES
    ret_fd,     \* what the function returned
    g_stop      \* main's flag, set by SIGINT

vars == <<loop, ret_fd, g_stop>>

stdin   == 0        \* what the return value 0 means to main
running == 0 - 1    \* it has not returned

TypeOK ==
    /\ LoopTypeOK
    /\ ret_fd \in {running, stdin} \cup Fds
    /\ g_stop \in BOOLEAN

Init == LoopInit /\ ret_fd = running /\ g_stop = FALSE

-----------------------------------------------------------------------------
(* Slips that the properties below would catch; no specification uses them.*)

FaultReturn(e) ==       \* closes the descriptor it returns
    /\ Connected(e)
    /\ ret_fd' = e.fd /\ at' = "done"
    /\ close(e.fd)
    /\ UNCHANGED <<pending, sock, g_stop>>

FaultKeep(e) ==         \* goes on waiting for the others
    /\ Connected(e)
    /\ ret_fd' = e.fd
    /\ UNCHANGED <<at, owner, pending, sock, g_stop>>

-----------------------------------------------------------------------------

(* EPOLL_CTL_DEL and return: the rest of the batch is forgotten.           *)
Return(e) ==
    /\ Connected(e)
    /\ ret_fd' = e.fd /\ at' = "done"
    /\ UNCHANGED <<owner, pending, sock, g_stop>>

(* After SIGTSTP: close(listen_fd), return 0.  (at is "done" by then.)     *)
ReturnStopped ==
    /\ at = "done" /\ ret_fd = running
    /\ ret_fd' = stdin
    /\ UNCHANGED <<loop, g_stop>>

StartNext ==
    \/ LoopNext /\ UNCHANGED <<ret_fd, g_stop>>
    \/ \E e \in evlist : Return(e)
    \/ ReturnStopped

sig_sigstp == Interrupted /\ stop' = 1 /\ UNCHANGED <<ret_fd, g_stop>>

(* The handler of main: its flag is not the one this loop tests.           *)
sig_sigint == Interrupted /\ g_stop' = TRUE /\ UNCHANGED <<stop, ret_fd>>

Next ==
    \/ StartNext
    \/ ClientNext /\ UNCHANGED <<ret_fd, g_stop>>
    \/ sig_sigstp \/ sig_sigint

Spec == Init /\ [][Next]_vars

(* The process runs; no client has to do anything.                         *)
FairSpec == Spec /\ WF_vars(StartNext)

-----------------------------------------------------------------------------
(* Properties.                                                             *)

(* SmsControl starts in the states this function leaves: main has an open  *)
(* descriptor of an accepted connection whose first line, or end, is there *)
(* to be read; or standard input.                                          *)
GivesClient ==
    ret_fd \in Fds =>
        /\ owner[ret_fd] \in Conns \ pending
        /\ sock[owner[ret_fd]] \in {"data", "eof"} \cup Broken

(* The choice is made once: what was returned stays, and its descriptor    *)
(* keeps its owner although others connect.                                *)
ClientForGood ==
    [][(ret_fd \in Fds) => ret_fd' = ret_fd /\ owner'[ret_fd] = owner[ret_fd]]_vars

(* As soon as one connection has sent a line and is not reset before its   *)
(* turn (then it is closed with the line unread), somebody becomes the     *)
(* client, whatever else connects, hangs up or interrupts; and SIGTSTP ends*)
(* the wait, unless it came just before epoll_wait and nothing happens     *)
(* since.  SIGINT does not: its flag is another one.                       *)
StartReturns ==
    /\ \A c \in Conns : sock[c] = "data" /\ (\E f \in Fds : owner[f] = c) ~>
                           ret_fd # running \/ sock[c] = "torn"
    /\ stop = 1 ~> ret_fd # running \/ (at = "wait" /\ Ready = {})
=============================================================================
