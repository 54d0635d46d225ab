----------------------------- MODULE SmsControl -----------------------------
(***************************************************************************)
(* The control program of the SMS modem, sim5360/pthread.c.                *)
(*                                                                         *)
(* Three kinds of threads share one CTR record (req, exc, srcfd, occupy,   *)
(* lock): the main thread, which reads commands from the client and hands  *)
(* out the execution slot exc; fun_sendmsg, which sends messages while     *)
(* exc = PRI_SENDMEG; and fun_rvmsg, which reads messages while            *)
(* exc = PRI_READMEG and which the main thread cancels asynchronously and  *)
(* creates again when a request of a higher priority arrives.              *)
(*                                                                         *)
(* The record is read outside the lock and written partly inside it, so    *)
(* every load of a shared field that a branch depends on is an action of   *)
(* its own.  The makefile compiles without optimisation: two tests of exc  *)
(* in one if/else chain are two loads, and so are the two sides of         *)
(* req > exc, of which the left one is loaded first.                       *)
(***************************************************************************)
EXTENDS Naturals, Sequences

CONSTANTS
    Readers,      \* slots for fun_rvmsg threads; a dead thread's slot is reused
    MaxInbox,     \* bound: client lines waiting in the socket
    PromptCancel  \* TRUE: a cancelled thread runs no further code, which is what
                  \* the usleep(1000) after pthread_cancel counts on;
                  \* FALSE: it may run until the cancellation is delivered

MSG == "msg"
CTR == "ctr"

ASSUME ReadersAssumption ==
    /\ Readers # {}
    /\ Readers \cap {MSG, CTR, "free", "orphaned"} = {}
ASSUME MaxInboxAssumption == MaxInbox \in Nat \ {0}
ASSUME PromptCancelAssumption == PromptCancel \in BOOLEAN

Workers == {MSG} \cup Readers

PRI_CALL    == 3
PRI_SENDMEG == 2
PRI_READMEG == 1

(* What the client may write.  Anything but the three commands is a text:  *)
(* message content, a phone number, a mistyped or a truncated command.     *)
Commands == {"call", "send message", "read message"}
Lines    == Commands \cup {"text"}

getreq(line) ==
    CASE line = "call"         -> PRI_CALL
      [] line = "send message" -> PRI_SENDMEG
      [] line = "read message" -> PRI_READMEG
      [] OTHER                 -> 0

VARIABLES
    req, exc, srcfd, occupy,  \* the CTR record
    lock,       \* its mutex: "free", the owner, or "orphaned" by a dead owner
    ctr,        \* where the main thread is
    cmd_buff,   \* the command it read last
    reg,        \* the req it is about to compare with exc; 0 when not comparing
    tid_rvmsg,  \* the fun_rvmsg thread it created last
    worker,     \* where each worker thread is; "none" for a slot with no thread
    cancelled,  \* the readers pthread_cancel was called on and that still live
    inbox,      \* lines in the client's socket
    conn,       \* the client's connection: "open", "eof" or "reset"
    g_stop,     \* set by the SIGINT handler
    exited      \* "no", or why the process ended

record  == <<req, exc, srcfd, occupy>>
main    == <<ctr, cmd_buff, reg, tid_rvmsg>>
threads == <<worker, cancelled>>
client  == <<inbox, conn>>
vars    == <<record, lock, main, threads, client, g_stop, exited>>

CtrLocations ==
    {"top", "read", "lock1", "post", "test_req", "test_idle", "lock2", "grant",
     "test_busy", "test_prio", "compare", "cancel", "lock3", "preempt", "create", "sleep",
     "closing"}
Finishing == {"lock", "clear_req", "clear_exc"}
MsgBusy   == {"judge", "occupy", "content", "number", "send", "release"} \cup Finishing
ReadBusy  == {"judge", "list", "wait"} \cup Finishing
Locations == {"none", "idle", "unlock"} \cup MsgBusy \cup ReadBusy

TypeOK ==
    /\ req \in 0..3 /\ exc \in 0..3
    /\ srcfd \in {"none", "ret_fd"} /\ occupy \in {0, 1}
    /\ lock \in {"free", "orphaned", CTR} \cup Workers
    /\ ctr \in CtrLocations /\ cmd_buff \in Lines /\ reg \in 0..3 /\ tid_rvmsg \in Readers
    /\ worker \in [Workers -> Locations] /\ cancelled \in SUBSET Readers
    /\ inbox \in Seq(Lines) /\ Len(inbox) <= MaxInbox
    /\ conn \in {"open", "eof", "reset"} /\ g_stop \in BOOLEAN
    /\ exited \in {"no", "eof", "illegal", "at_failed", "create_failed", "closed"}

-----------------------------------------------------------------------------
(* main() up to its loop: the record is initialised, both threads are      *)
(* created, and epoll_server_start returned (see EpollStart) a client with *)
(* a first line or the end of its stream; or standard input, empty so far. *)
Init ==
    /\ req = 0 /\ exc = 0 /\ srcfd = "none" /\ occupy = 0
    /\ lock = "free"
    /\ ctr = "top" /\ cmd_buff = "text" /\ reg = 0
    /\ tid_rvmsg \in Readers
    /\ worker = [t \in Workers |-> IF t \in {MSG, tid_rvmsg} THEN "idle" ELSE "none"]
    /\ cancelled = {}
    /\ \/ conn = "open" /\ inbox \in {<<>>} \cup {<<l>> : l \in Lines}
       \/ conn \in {"eof", "reset"} /\ inbox = <<>>
    /\ g_stop = FALSE /\ exited = "no"

Goto(l)     == ctr' = l /\ UNCHANGED <<cmd_buff, reg, tid_rvmsg>>
Move(t, l)  == worker' = [worker EXCEPT ![t] = l] /\ UNCHANGED cancelled
Exit(why)   == exited' = why /\ UNCHANGED <<record, lock, main, threads, client, g_stop>>
Quiet       == UNCHANGED <<g_stop, exited>>

(* What a read with a 1024-byte buffer returns: everything that arrived.   *)
(* Two lines that arrived together are one string, which is no command.    *)
Received == IF Len(inbox) = 1 THEN inbox[1] ELSE "text"

-----------------------------------------------------------------------------
(* Faults: slips that the properties below would catch.  No specification  *)
(* uses them.                                                              *)

FaultFinishLock(t) ==    \* does not wait for the mutex
    /\ worker[t] = "lock"
    /\ lock' = t
    /\ Move(t, "clear_req")
    /\ UNCHANGED <<record, main, client>> /\ Quiet

FaultCtrPost ==          \* forgets srcfd
    /\ ctr = "post"
    /\ req' = getreq(cmd_buff)
    /\ lock' = "free"
    /\ Goto("test_req")
    /\ UNCHANGED <<exc, srcfd, occupy, threads, client>> /\ Quiet

FaultCtrCompare ==       \* compares for a difference
    /\ ctr = "compare"
    /\ ctr' = (IF reg # exc THEN "cancel" ELSE "top")
    /\ reg' = 0
    /\ UNCHANGED <<record, lock, cmd_buff, tid_rvmsg, threads, client>> /\ Quiet

FaultCtrTestIdle ==      \* grants without looking at the slot
    /\ ctr = "test_idle"
    /\ Goto("lock2")
    /\ UNCHANGED <<record, lock, threads, client>> /\ Quiet

FaultCtrCancel ==        \* takes the slot without stopping the reader
    /\ ctr = "cancel"
    /\ Goto("lock3")
    /\ UNCHANGED <<record, lock, threads, client>> /\ Quiet

FaultCtrTop ==           \* looks at g_stop only when nobody occupies the client
    /\ ctr = "top"
    /\ Goto(IF occupy # 0 THEN "sleep" ELSE IF g_stop THEN "closing" ELSE "read")
    /\ UNCHANGED <<record, lock, threads, client>> /\ Quiet

FaultMsgJudged ==        \* drops the job after the check of the module
    /\ worker[MSG] = "judge"
    /\ Move(MSG, "idle")
    /\ UNCHANGED <<record, lock, main, client>> /\ Quiet

-----------------------------------------------------------------------------
(* The main thread.                                                        *)

CtrTop ==
    /\ ctr = "top"
    /\ Goto(IF g_stop THEN "closing" ELSE IF occupy = 0 THEN "read" ELSE "sleep")
    /\ UNCHANGED <<record, lock, threads, client>> /\ Quiet

CtrRead ==
    /\ ctr = "read" /\ inbox # <<>>
    /\ cmd_buff' = Received
    /\ inbox' = <<>>
    /\ ctr' = "lock1"
    /\ UNCHANGED <<record, lock, reg, tid_rvmsg, threads, conn>> /\ Quiet

(* read() = 0: main returns and the process ends with all its threads.     *)
CtrReadEof ==
    /\ ctr = "read" /\ inbox = <<>> /\ conn = "eof"
    /\ Exit("eof")

(* read() < 0 breaks out of the loop.                                      *)
CtrReadError ==
    /\ ctr = "read" /\ inbox = <<>> /\ conn = "reset"
    /\ conn' = "eof"
    /\ Goto("closing")
    /\ UNCHANGED <<record, lock, threads, inbox>> /\ Quiet

(* The three places where the main thread takes the lock.                  *)
AfterLock == [lock1 |-> "post", lock2 |-> "grant", lock3 |-> "preempt"]

CtrLock ==
    /\ ctr \in DOMAIN AfterLock /\ lock = "free"
    /\ lock' = CTR
    /\ Goto(AfterLock[ctr])
    /\ UNCHANGED <<record, threads, client>> /\ Quiet

CtrPost ==
    /\ ctr = "post"
    /\ req' = getreq(cmd_buff)
    /\ srcfd' = "ret_fd"
    /\ lock' = "free"
    /\ Goto("test_req")
    /\ UNCHANGED <<exc, occupy, threads, client>> /\ Quiet

CtrTestReq ==
    /\ ctr = "test_req"
    /\ Goto(IF req = 0 THEN "top" ELSE "test_idle")
    /\ UNCHANGED <<record, lock, threads, client>> /\ Quiet

CtrTestIdle ==
    /\ ctr = "test_idle"
    /\ Goto(IF exc = 0 THEN "lock2" ELSE "test_busy")
    /\ UNCHANGED <<record, lock, threads, client>> /\ Quiet

CtrGrant ==
    /\ ctr = "grant"
    /\ exc' = req
    /\ lock' = "free"
    /\ Goto("sleep")
    /\ UNCHANGED <<req, srcfd, occupy, threads, client>> /\ Quiet

CtrTestBusy ==
    /\ ctr = "test_busy" /\ exc > 0
    /\ Goto("test_prio")
    /\ UNCHANGED <<record, lock, threads, client>> /\ Quiet

(* "Thread is illegal!", exit(-1).                                         *)
CtrIllegal ==
    /\ ctr = "test_busy" /\ ~(exc > 0)
    /\ Exit("illegal")

(* req > exc: a worker may clear both between the two loads.               *)
CtrTestPrio ==
    /\ ctr = "test_prio"
    /\ reg' = req
    /\ ctr' = "compare"
    /\ UNCHANGED <<record, lock, cmd_buff, tid_rvmsg, threads, client>> /\ Quiet

CtrCompare ==
    /\ ctr = "compare"
    /\ ctr' = (IF reg > exc THEN "cancel" ELSE "top")
    /\ reg' = 0
    /\ UNCHANGED <<record, lock, cmd_buff, tid_rvmsg, threads, client>> /\ Quiet

CtrCancel ==
    /\ ctr = "cancel"
    /\ cancelled' = cancelled \cup {tid_rvmsg}
    /\ Goto("lock3")
    /\ UNCHANGED <<record, lock, worker, client>> /\ Quiet

CtrPreempt ==
    /\ ctr = "preempt"
    /\ exc' = PRI_SENDMEG
    /\ lock' = "free"
    /\ Goto("create")
    /\ UNCHANGED <<req, srcfd, occupy, threads, client>> /\ Quiet

CtrCreate ==
    /\ ctr = "create"
    /\ \E r \in Readers :
          /\ worker[r] = "none"
          /\ Move(r, "idle")
          /\ tid_rvmsg' = r
    /\ ctr' = "sleep"
    /\ UNCHANGED <<record, lock, cmd_buff, reg, client>> /\ Quiet

CtrCreateFails ==
    /\ ctr = "create"
    /\ Exit("create_failed")

CtrSleep ==
    /\ ctr = "sleep"
    /\ Goto("top")
    /\ UNCHANGED <<record, lock, threads, client>> /\ Quiet

(* closeComport, Comport_term and pthread_mutex_destroy, then return 0.    *)
CtrClose ==
    /\ ctr = "closing"
    /\ Exit("closed")

CtrNext ==
    /\ exited = "no"
    /\ \/ CtrTop \/ CtrRead \/ CtrReadEof \/ CtrReadError \/ CtrLock \/ CtrPost
       \/ CtrTestReq \/ CtrTestIdle \/ CtrGrant \/ CtrTestBusy \/ CtrIllegal
       \/ CtrTestPrio \/ CtrCompare \/ CtrCancel \/ CtrPreempt \/ CtrCreate \/ CtrCreateFails
       \/ CtrSleep \/ CtrClose

-----------------------------------------------------------------------------
(* Steps the workers share.  A worker leaves the record alone until it is  *)
(* done, then gives the slot back under the lock.                          *)

Acting(t) == worker[t] # "none" /\ ~(PromptCancel /\ t \in cancelled)

Pass(t, from, to) ==
    /\ worker[t] = from
    /\ Move(t, to)
    /\ UNCHANGED <<record, lock, main, client>> /\ Quiet

(* try_times() gives up after too many attempts of an AT command: exit(1). *)
GiveUp(t) ==
    /\ worker[t] \in {"judge", "list", "wait", "send"}
    /\ Exit("at_failed")

FinishLock(t) ==
    /\ worker[t] = "lock" /\ lock = "free"
    /\ lock' = t
    /\ Move(t, "clear_req")
    /\ UNCHANGED <<record, main, client>> /\ Quiet

FinishClearReq(t) ==
    /\ worker[t] = "clear_req"
    /\ req' = 0
    /\ Move(t, "clear_exc")
    /\ UNCHANGED <<exc, srcfd, occupy, lock, main, client>> /\ Quiet

FinishClearExc(t) ==
    /\ worker[t] = "clear_exc"
    /\ exc' = 0
    /\ Move(t, "unlock")
    /\ UNCHANGED <<req, srcfd, occupy, lock, main, client>> /\ Quiet

FinishUnlock(t) ==
    /\ worker[t] = "unlock"
    /\ lock' = "free"
    /\ Move(t, "idle")
    /\ UNCHANGED <<record, main, client>> /\ Quiet

Finish(t) ==
    FinishLock(t) \/ FinishClearReq(t) \/ FinishClearExc(t) \/ FinishUnlock(t)

-----------------------------------------------------------------------------
(* fun_sendmsg.  judge_modulestate and sendenglish are left to the AT      *)
(* layer: they return, or end the process.                                 *)

MsgBegin  == exc = PRI_SENDMEG /\ Pass(MSG, "idle", "judge")
MsgJudged == Pass(MSG, "judge", "occupy")

MsgOccupy ==
    /\ worker[MSG] = "occupy"
    /\ occupy' = 1
    /\ Move(MSG, "content")
    /\ UNCHANGED <<req, exc, srcfd, lock, main, client>> /\ Quiet

MsgReadContent ==
    /\ worker[MSG] = "content" /\ inbox # <<>>
    /\ inbox' = <<>>
    /\ Move(MSG, "number")
    /\ UNCHANGED <<record, lock, main, conn>> /\ Quiet

(* The number is read with a 12-byte buffer: k whole lines are consumed    *)
(* and the next one may be cut, which leaves a text.                       *)
MsgReadNumber ==
    /\ worker[MSG] = "number"
    /\ \E k \in 0..Len(inbox) :
          \/ k > 0 /\ inbox' = SubSeq(inbox, k + 1, Len(inbox))
          \/ k < Len(inbox) /\ inbox' = <<"text">> \o SubSeq(inbox, k + 2, Len(inbox))
    /\ Move(MSG, "send")
    /\ UNCHANGED <<record, lock, main, conn>> /\ Quiet

(* read() = 0 is not an error here: an empty content, an empty number.     *)
MsgReadEof ==
    /\ inbox = <<>> /\ conn = "eof"
    /\ Pass(MSG, "content", "number") \/ Pass(MSG, "number", "send")

(* read() < 0: continue, with occupy still set and exc still PRI_SENDMEG.  *)
MsgReadError ==
    /\ worker[MSG] \in {"content", "number"} /\ inbox = <<>> /\ conn = "reset"
    /\ conn' = "eof"
    /\ Move(MSG, "idle")
    /\ UNCHANGED <<record, lock, main, inbox>> /\ Quiet

MsgSent     == Pass(MSG, "send", "release")
MsgSendFail == Pass(MSG, "send", "idle")  \* sendenglish() < 0: continue

MsgRelease ==
    /\ worker[MSG] = "release"
    /\ occupy' = 0
    /\ Move(MSG, "lock")
    /\ UNCHANGED <<req, exc, srcfd, lock, main, client>> /\ Quiet

MsgSteps ==
    /\ exited = "no"
    /\ \/ MsgBegin \/ MsgJudged \/ MsgOccupy \/ MsgReadContent \/ MsgReadNumber
       \/ MsgReadEof \/ MsgReadError \/ MsgRelease \/ Finish(MSG)

MsgNext ==
    \/ MsgSteps
    \/ exited = "no" /\ (MsgSent \/ MsgSendFail \/ GiveUp(MSG))

-----------------------------------------------------------------------------
(* fun_rvmsg.  The results of list_msg_txt and wait_newmsg_txt are ignored.*)

RvBegin(r)  == exc = PRI_READMEG /\ Pass(r, "idle", "judge")
RvJudged(r) == Pass(r, "judge", "list")
RvListed(r) == Pass(r, "list", "wait")
RvWaited(r) == Pass(r, "wait", "lock")

RvSteps(r) ==
    /\ exited = "no" /\ Acting(r)
    /\ RvBegin(r) \/ RvJudged(r) \/ Finish(r)

(* The asynchronous cancellation takes effect wherever the thread is.  A   *)
(* mutex it holds stays locked: there is no cleanup handler.               *)
RvDie(r) ==
    /\ exited = "no" /\ r \in cancelled
    /\ worker' = [worker EXCEPT ![r] = "none"]
    /\ cancelled' = cancelled \ {r}
    /\ lock' = IF lock = r THEN "orphaned" ELSE lock
    /\ UNCHANGED <<record, main, client>> /\ Quiet

RvNext(r) ==
    \/ RvSteps(r)
    \/ exited = "no" /\ Acting(r) /\ (RvListed(r) \/ RvWaited(r) \/ GiveUp(r))
    \/ RvDie(r)

-----------------------------------------------------------------------------
(* The client and the terminal.                                            *)

ClientSend ==
    /\ exited = "no" /\ conn = "open" /\ Len(inbox) < MaxInbox
    /\ \E l \in Lines : inbox' = Append(inbox, l)
    /\ UNCHANGED <<record, lock, main, threads, conn>> /\ Quiet

ClientLeave ==
    /\ exited = "no" /\ conn = "open"
    /\ conn' \in {"eof", "reset"}
    /\ UNCHANGED <<record, lock, main, threads, inbox>> /\ Quiet

(* signal() installs the handler with SA_RESTART: a blocked read goes on.  *)
sig_sigint ==
    /\ exited = "no"
    /\ g_stop' = TRUE
    /\ UNCHANGED <<record, lock, main, threads, client, exited>>

Next ==
    \/ CtrNext \/ MsgNext
    \/ \E r \in Readers : RvNext(r)
    \/ ClientSend \/ ClientLeave \/ sig_sigint

Spec == Init /\ [][Next]_vars

(* The scheduler runs every thread.  Nothing forces the client to write,   *)
(* a message to arrive (RvWaited) or the modem to answer the unbounded     *)
(* loops of list_msg_txt and sendenglish (RvListed, MsgSent).              *)
Fairness ==
    /\ WF_vars(CtrNext) /\ WF_vars(MsgSteps)
    /\ \A r \in Readers : WF_vars(RvSteps(r)) /\ WF_vars(RvDie(r))

FairSpec == Spec /\ Fairness

-----------------------------------------------------------------------------
(* Properties.                                                             *)

(* Whoever is between pthread_mutex_lock and pthread_mutex_unlock owns the *)
(* mutex, so no two threads write the record at once, and a mutex that was *)
(* orphaned by a cancelled reader lets nobody in again.                    *)
CriticalSections ==
    /\ \A t \in Workers : worker[t] \in {"clear_req", "clear_exc", "unlock"} => lock = t
    /\ ctr \in {"post", "grant", "preempt"} => lock = CTR

(* fun_sendmsg reads srcfd without the lock.  The order of the writes in   *)
(* main (srcfd before exc) makes it the client's descriptor whenever the   *)
(* slot is taken or the sender is at work.                                 *)
SrcfdBeforeWork == exc # 0 \/ worker[MSG] # "idle" => srcfd = "ret_fd"

(* A running request is never replaced by one of a lower priority, in      *)
(* spite of the unlocked tests of exc: a step from one running request to  *)
(* another only goes up.  And a free slot that main grants goes to the     *)
(* command it read last, although the request was posted in an earlier     *)
(* critical section and a worker may have cleared it since (then to none). *)
PriorityNeverDemoted ==
    [][exc' \notin {0, exc} =>
         exc' > exc /\ (ctr = "grant" => exc' = getreq(cmd_buff))]_vars

Busy(t) == worker[t] \in (IF t = MSG THEN MsgBusy ELSE ReadBusy)

(* A worker that is anywhere between taking a job and clearing exc owns    *)
(* the slot: exc still names its own job.  Holds when a cancelled reader   *)
(* stops at once (PromptCancel).                                           *)
SlotOwned ==
    \A t \in Workers :
        Acting(t) /\ Busy(t) => exc = (IF t = MSG THEN PRI_SENDMEG ELSE PRI_READMEG)

SerialUsers ==
    {t \in Workers : Acting(t) /\ worker[t] \in {"judge", "list", "wait", "send"}}

(* At most one thread has an AT dialogue with the modem at any time, so    *)
(* no thread reads the answer to another one's command (PromptCancel).     *)
SerialExclusive == \A t, u \in SerialUsers : t = u

(* The jobs of ModemJobs: what the threads do on the serial line.          *)
AtJob(t) ==
    /\ Acting(t)
    /\ worker[t] \in (IF t = MSG THEN {"judge", "occupy", "content", "number", "send"}
                                  ELSE {"judge", "list", "wait"})
Kind(t) == IF t = MSG THEN "send" ELSE IF worker[t] = "wait" THEN "wait" ELSE "list"
Jobs    == {<<t, Kind(t)>> : t \in {u \in Workers : AtJob(u)}}

J == INSTANCE ModemJobs WITH Threads <- Workers, running <- Jobs

(* The control program implements ModemJobs: a job begins only when the one *)
(* before it is over, be it by a cancellation, although the slot is tested  *)
(* and given without the lock being held throughout (PromptCancel).  It is  *)
(* what SmsProcedures starts from.                                          *)
OneJobAtATime == J!Spec

(* Once a send owns the slot it gets to the point where the client is      *)
(* asked for the message, unless the slot is taken away, the process ends  *)
(* or the mutex was orphaned.  (A sender that already sent and waits for   *)
(* the mutex is past that point; a client that keeps writing lines can     *)
(* keep it waiting, because the main loop then takes the mutex without a   *)
(* pause.)                                                                 *)
SendReachesClient ==
    exc = PRI_SENDMEG ~>
        \/ worker[MSG] \in {"content", "number", "send", "lock"}
        \/ exc # PRI_SENDMEG \/ exited # "no" \/ lock = "orphaned"

(* SIGINT ends the process, unless the main thread waits for the client in *)
(* read(), which the signal does not interrupt, or for an orphaned mutex.  *)
StopHonoured ==
    g_stop ~> exited # "no" \/ ctr = "read" \/ lock = "orphaned"

-----------------------------------------------------------------------------
(* What the source says of the program and the code does not do.           *)

(* "Thread is illegal!": the branch for an exc below zero, which no code   *)
(* writes, is not taken.                                                   *)
NeverIllegal == exited # "illegal"

(* "Higher priority than the running one: interrupt it": a preemption      *)
(* gives the slot to the new request, or the process ends.                 *)
PreemptionServed == ctr = "cancel" ~> exc = PRI_SENDMEG \/ exited # "no"
=============================================================================
