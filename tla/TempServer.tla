------------------------------ MODULE TempServer ------------------------------
(***************************************************************************)
(* The temperature server with a thread per client,                        *)
(* wujinlong/server_pthread.c.  main() accepts a connection and calls      *)
(* pthread_start, which hands a detached thread the address of a structure *)
(* in its own stack frame {arg_fd, p_over}, waits up to two seconds and    *)
(* returns.  The next call puts its structure in the same place, and in    *)
(* between the frame belongs to other calls.  The thread, datadell, loads  *)
(* arg_fd whenever it needs the descriptor: to read, and again to close.   *)
(*                                                                         *)
(* Descriptors are numbers; accept returns the lowest free one, so a       *)
(* number that is closed soon means another connection.  Each connection   *)
(* carries one reading (wujinlong/client.c: connect, write, close).        *)
(***************************************************************************)
EXTENDS Integers

CONSTANTS
    Conns,         \* the connections clients make
    MaxFd          \* bound: descriptors the process may have for them

ASSUME ConnsAssumption == Conns \cap {"free", "listener", "none", "file"} = {}
ASSUME MaxFdAssumption == MaxFd \in Nat \ {0}

Fds       == 0..MaxFd
listen_fd == 0
junk      == -1     \* a number that is none of these: closed, /dev/null,
                    \* or of the file that SQLite has open
SIGUSR2 == 12

VARIABLES
    main,           \* where main() and pthread_start() are
    new_fd,         \* the descriptor main accepted last
    new_conn,       \* history: and whose it was then
    arg_fd, p_over, \* the structure, wherever a thread looks for it
    owner,          \* the descriptor table: whose each number is
    pending,        \* connections waiting in the backlog
    net,            \* the client's side of each connection; "eof": ended or reset
    thread,         \* where the thread started for each connection is
    target,         \* what that thread reads from: a connection, SQLite's
                    \* file, or nothing that can be read
    db,             \* who is writing to the database
    stored,         \* the database: how often each reading was inserted
    g_cilentstop, exited,
    late            \* history: a thread was still at work when the sleep(2) of
                    \* main was over (its client did not send at once)

accepted == <<new_fd, new_conn>>
frame   == <<arg_fd, p_over>>
threads == <<thread, target>>
files   == <<db, stored>>
process == <<g_cilentstop, exited, late>>
vars    == <<main, accepted, frame, owner, pending, net, threads, files, process>>

ThreadLocations == {"none", "load", "read", "drop", "open", "insert", "commit",
                    "close", "over", "gone"}

TypeOK ==
    /\ main \in {"loop", "accept", "start", "create", "test", "sleep", "return"}
    /\ new_fd \in Fds \cup {junk} /\ new_conn \in Conns \cup {"none"}
    /\ arg_fd \in Fds \cup {junk} /\ p_over \in {0, 1}
    /\ owner \in [Fds -> Conns \cup {"free", "listener"}]
    /\ pending \subseteq Conns
    /\ net \in [Conns -> {"idle", "open", "data", "eof"}]
    /\ thread \in [Conns -> ThreadLocations]
    /\ target \in [Conns -> Conns \cup {"none", "file"}]
    /\ db \in Conns \cup {"free"} /\ stored \in [Conns -> Nat]
    /\ g_cilentstop \in {0, 1} /\ exited \in BOOLEAN /\ late \in BOOLEAN

Init ==
    /\ main = "loop" /\ new_fd = junk /\ new_conn = "none" /\ arg_fd = junk /\ p_over = 0
    /\ owner = [f \in Fds |-> IF f = listen_fd THEN "listener" ELSE "free"] /\ pending = {}
    /\ net = [c \in Conns |-> "idle"]
    /\ thread = [c \in Conns |-> "none"] /\ target = [c \in Conns |-> "none"]
    /\ db = "free" /\ stored = [c \in Conns |-> 0]
    /\ g_cilentstop = 0 /\ exited = FALSE /\ late = FALSE

Free   == {f \in Fds : owner[f] = "free"}
Lowest == CHOOSE f \in Free : \A g \in Free : f <= g
Busy(c) == thread[c] \notin {"none", "gone"}
Listening == owner[listen_fd] = "listener"

-----------------------------------------------------------------------------
(* What SQLite inserts for thread c; from its own file, no client's reading.*)
Inserted(c) == stored' = [d \in Conns |-> IF d = target[c] THEN stored[d] + 1 ELSE stored[d]]

(* Slips that the properties below would catch; no specification uses them.*)

FaultSleep ==      \* waits until the thread says it is over
    /\ main = "sleep" /\ p_over = 1
    /\ main' = "return"
    /\ UNCHANGED <<accepted, frame, owner, pending, net, threads, files, process>>

FaultStart ==       \* the structure is filled in after the thread was created
    /\ main = "start"
    /\ main' = "create"
    /\ UNCHANGED <<accepted, frame, owner, pending, net, threads, files, process>>

FaultDrop(c) ==     \* a disconnected client's descriptor stays open
    /\ thread[c] = "drop"
    /\ thread' = [thread EXCEPT ![c] = "gone"]
    /\ UNCHANGED <<main, accepted, frame, owner, pending, net, target, files, process>>

FaultReceive(c) ==  \* looks at the data without taking it
    /\ thread[c] = "read" /\ target[c] \in Conns /\ net[target[c]] = "data"
    /\ thread' = [thread EXCEPT ![c] = "open"]
    /\ UNCHANGED <<main, accepted, frame, owner, pending, net, target, files, process>>

FaultCommit(c) ==   \* keeps the file locked
    /\ thread[c] = "commit"
    /\ Inserted(c)
    /\ thread' = [thread EXCEPT ![c] = "close"]
    /\ UNCHANGED <<db, main, accepted, frame, owner, pending, net, target, process>>

-----------------------------------------------------------------------------
(* main() and pthread_start().                                             *)

Goto(l) == main' = l /\ UNCHANGED <<pending, net, threads, files>>

(* The call of accept.  Once the listening socket was closed it fails, and *)
(* main() comes round for ever; a call that waits already is not affected. *)
Loop ==
    /\ main = "loop" /\ g_cilentstop = 0 /\ Listening
    /\ Goto("accept")
    /\ UNCHANGED <<accepted, frame, owner, process>>

Accept ==
    /\ main = "accept" /\ Free # {}
    /\ \E c \in pending :
          /\ pending' = pending \ {c}
          /\ owner' = [owner EXCEPT ![Lowest] = c]
          /\ new_conn' = c
    /\ new_fd' = Lowest
    /\ main' = "start"
    /\ UNCHANGED <<frame, net, threads, files, process>>

AcceptFails ==
    /\ main = "accept" /\ Free = {} /\ pending # {}
    /\ Goto("loop")
    /\ UNCHANGED <<accepted, frame, owner, process>>

(* The connection is lost with the call: it was aborted, or addrlen, which *)
(* nobody initialises, is negative.                                        *)
AcceptLoses ==
    /\ main = "accept"
    /\ \E c \in pending : pending' = pending \ {c}
    /\ main' = "loop"
    /\ UNCHANGED <<accepted, frame, owner, net, threads, files, process>>

Start ==
    /\ main = "start"
    /\ arg_fd' = new_fd /\ p_over' = 0
    /\ Goto("create")
    /\ UNCHANGED <<accepted, owner, process>>

Create ==
    /\ main = "create"
    /\ thread' = [thread EXCEPT ![new_conn] = "load"]
    /\ main' = "test"
    /\ UNCHANGED <<accepted, frame, owner, pending, net, target, files, process>>

(* An attribute of the thread cannot be set: CleanUp, without a wait.      *)
AttrFails ==
    /\ main = "create"
    /\ Goto("return")
    /\ UNCHANGED <<accepted, frame, owner, process>>

(* pthread_create returns a positive number, which passes the test for < 0.*)
CreateFails ==
    /\ main = "create"
    /\ Goto("test")
    /\ UNCHANGED <<accepted, frame, owner, process>>

Test ==
    /\ main = "test"
    /\ Goto(IF p_over = 0 THEN "sleep" ELSE "return")
    /\ UNCHANGED <<accepted, frame, owner, process>>

Sleep ==
    /\ main = "sleep"
    /\ late' = (late \/ \E c \in Conns : Busy(c))
    /\ Goto("return")
    /\ UNCHANGED <<accepted, frame, owner, g_cilentstop, exited>>

(* The frame is given up: printf and accept may write there, or may not,   *)
(* any descriptor's number among others (accept is called with listen_fd). *)
Return ==
    /\ main = "return"
    /\ arg_fd' \in Fds \cup {junk} /\ p_over' \in {0, 1}
    /\ Goto("loop")
    /\ UNCHANGED <<accepted, owner, process>>

MainNext ==
    /\ ~exited
    /\ \/ Loop \/ Accept \/ AcceptFails \/ AcceptLoses \/ Start \/ Create \/ CreateFails
       \/ AttrFails \/ Test \/ Sleep \/ Return

-----------------------------------------------------------------------------
(* datadell().                                                             *)

Move(c, l) == thread' = [thread EXCEPT ![c] = l]
Main == UNCHANGED <<main, accepted, pending, process>>

(* What arg_fd is the number of.  The listening socket cannot be read.     *)
Named(c) ==
    IF arg_fd \in Fds THEN {IF owner[arg_fd] \in Conns THEN owner[arg_fd] ELSE "none"}
    ELSE {"none"} \cup {"file" : d \in {e \in Conns : thread[e] \in {"insert", "commit"}}}

(* read() is called with the descriptor of this moment; it goes on reading *)
(* from that connection even if the number is closed meanwhile.            *)
Load(c) ==
    /\ thread[c] = "load"
    /\ \E t \in Named(c) : target' = [target EXCEPT ![c] = t]
    /\ Move(c, "read")
    /\ UNCHANGED <<frame, owner, net, files>> /\ Main

Receive(c) ==
    /\ thread[c] = "read" /\ target[c] \in Conns /\ net[target[c]] = "data"
    /\ net' = [net EXCEPT ![target[c]] = "eof"]
    /\ Move(c, "open")
    /\ UNCHANGED <<frame, owner, target, files>> /\ Main

ReceiveFile(c) ==
    /\ thread[c] = "read" /\ target[c] = "file"
    /\ Move(c, "open")
    /\ UNCHANGED <<frame, owner, net, target, files>> /\ Main

(* read() <= 0.                                                            *)
ReceiveNothing(c) ==
    /\ thread[c] = "read"
    /\ target[c] \in Conns => net[target[c]] = "eof"
    /\ Move(c, "drop")
    /\ UNCHANGED <<frame, owner, net, target, files>> /\ Main

CloseFd == owner' = [f \in Fds |-> IF f = arg_fd THEN "free" ELSE owner[f]]

Drop(c) ==          \* close, and pthread_exit without a word to main
    /\ thread[c] = "drop"
    /\ CloseFd
    /\ Move(c, "gone")
    /\ UNCHANGED <<frame, net, target, files>> /\ Main

Open(c) ==
    /\ thread[c] = "open"
    /\ Move(c, "insert")
    /\ UNCHANGED <<frame, owner, net, target, files>> /\ Main

OpenFails(c) ==     \* exit(0)
    /\ thread[c] = "open"
    /\ exited' = TRUE
    /\ UNCHANGED <<main, accepted, frame, owner, pending, net, threads, files,
                   g_cilentstop, late>>

Insert(c) ==
    /\ thread[c] = "insert" /\ db = "free"
    /\ db' = c
    /\ Move(c, "commit")
    /\ UNCHANGED <<stored, frame, owner, net, target>> /\ Main

(* SQLITE_BUSY: there is no busy handler, the reading is given up.         *)
InsertBusy(c) ==
    /\ thread[c] = "insert" /\ db # "free"
    /\ Move(c, "close")
    /\ UNCHANGED <<frame, owner, net, target, files>> /\ Main

Commit(c) ==
    /\ thread[c] = "commit"
    /\ Inserted(c)
    /\ db' = "free"
    /\ Move(c, "close")
    /\ UNCHANGED <<frame, owner, net, target>> /\ Main

CommitFails(c) ==   \* any other error is printed, too
    /\ thread[c] = "commit"
    /\ db' = "free"
    /\ Move(c, "close")
    /\ UNCHANGED <<stored, frame, owner, net, target>> /\ Main

Close(c) ==
    /\ thread[c] = "close"
    /\ CloseFd
    /\ Move(c, "over")
    /\ UNCHANGED <<frame, net, target, files>> /\ Main

Over(c) ==
    /\ thread[c] = "over"
    /\ p_over' = 1
    /\ Move(c, "gone")
    /\ UNCHANGED <<arg_fd, owner, net, target, files>> /\ Main

ThreadNext(c) ==
    /\ ~exited
    /\ \/ Load(c) \/ Receive(c) \/ ReceiveFile(c) \/ ReceiveNothing(c) \/ Drop(c)
       \/ Open(c) \/ OpenFails(c) \/ Insert(c) \/ InsertBusy(c) \/ Commit(c) \/ CommitFails(c) \/ Close(c) \/ Over(c)

-----------------------------------------------------------------------------
(* The clients and the terminal.                                           *)

Client(c, from, to) ==
    /\ ~exited /\ net[c] = from
    /\ net' = [net EXCEPT ![c] = to]
    /\ UNCHANGED <<main, accepted, frame, owner, threads, files, process>>

(* Who connects waits for accept; it is refused when nothing listens.      *)
ClientConnect(c) ==
    /\ Listening \/ main = "accept"
    /\ Client(c, "idle", "open") /\ pending' = pending \cup {c}
ClientSend(c)    == Client(c, "open", "data") /\ UNCHANGED pending
ClientDies(c)    == Client(c, "open", "eof") /\ UNCHANGED pending

(* The handler compares g_cilentstop, not a signal's number, with signum.  *)
(* signal() restarts an interrupted accept.                                *)
sig_usr ==
    /\ ~exited
    /\ g_cilentstop' = IF g_cilentstop = SIGUSR2 THEN 1 ELSE g_cilentstop
    /\ UNCHANGED <<main, accepted, frame, owner, pending, net, threads, files, exited, late>>

Next ==
    \/ MainNext
    \/ \E c \in Conns : ThreadNext(c) \/ ClientConnect(c) \/ ClientSend(c) \/ ClientDies(c)
    \/ sig_usr

Spec == Init /\ [][Next]_vars

(* The scheduler runs every thread; no client has to send anything.        *)
FairSpec == Spec /\ WF_vars(MainNext) /\ \A c \in Conns : WF_vars(ThreadNext(c))

-----------------------------------------------------------------------------
(* Properties.                                                             *)

(* A reading gets into the database at most once, even when threads that   *)
(* are late take each other's descriptors.                                 *)
StoredOnce ==
    \A c \in Conns :
        /\ stored[c] <= 1
        /\ stored[c] = 1 => net[c] = "eof"

(* What becomes of each reading, the promise of module Reading: it is on   *)
(* its way while it is in the socket or in a thread.                       *)
Carries(c, d) == thread[c] \in {"open", "insert", "commit"} /\ target[c] = d
OnItsWay(d)   == net[d] = "data" \/ \E c \in Conns : Carries(c, d)

Stage(d) ==
    IF stored[d] > 1 THEN "stored twice"
    ELSE IF stored[d] = 1 THEN "stored"
    ELSE IF OnItsWay(d) THEN "sent"
    ELSE IF net[d] = "eof" THEN "lost"
    ELSE "unsent"

R == INSTANCE Reading WITH stage <- [c \in Conns |-> Stage(c)]
ReadingKept == R!Spec

(* As long as every thread was done when the wait of main was over, a      *)
(* thread reads, stores and closes the connection it was started for and   *)
(* no other, although it finds the descriptor in a frame it does not own.  *)
OwnConnection ==
    ~late => \A c \in Conns :
        /\ thread[c] \in {"open", "insert", "commit", "close"} => target[c] = c
        /\ thread[c] \in {"drop", "close"} => arg_fd \in Fds /\ owner[arg_fd] = c

(* As long as no thread was late no insertion meets SQLITE_BUSY, which     *)
(* would lose a reading: the wait of main keeps the threads apart.         *)
NeverBusy == ~late => \A c \in Conns : thread[c] = "insert" => db = "free"

(* As long as no thread was late, when main waits for the next client no   *)
(* descriptor is open but those for which no thread could be created.      *)
NothingLeaks ==
    ~late /\ main = "accept" =>
        \A f \in Fds : owner[f] \in Conns => thread[owner[f]] = "none"

(* A client that never sends, or leaves, keeps nobody else from being      *)
(* accepted, unless the descriptors run out, or a thread that is late has  *)
(* found the number of the listening socket in the frame and closed it:    *)
(* then nobody is accepted again.                                          *)
AcceptsAgain ==
    \A c \in Conns :
        c \in pending ~> c \notin pending \/ Free = {} \/ (late /\ ~Listening) \/ exited
=============================================================================
