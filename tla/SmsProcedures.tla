---------------------------- MODULE SmsProcedures ----------------------------
(***************************************************************************)
(* The procedures of sim5360/at_msg.c with which the control program reads *)
(* and sends messages: judge_modulestate; list_msg_txt and wait_newmsg_txt *)
(* with read_msg_index_txt, msg_output and del_msg; sendenglish.  One job  *)
(* at a time (ModemJobs, which SmsControl implements) runs the procedures  *)
(* in the order of fun_rvmsg or of fun_sendmsg.                            *)
(*                                                                         *)
(* Each action is what a procedure does between two calls of AT_test: it   *)
(* looks at the answer and calls AT_test with the next command.            *)
(***************************************************************************)
EXTENDS SmsModem

CONSTANTS
    MaxTries,       \* 10 in the code: judging, deleting, waiting for the OK
    MaxLists        \* 5 in the code: listing, writing the text

(* sendenglish counts on with one variable from the lower of the limits to *)
(* the higher.                                                             *)
ASSUME TriesAssumption == MaxTries \in Nat \ {0} /\ MaxLists \in 1..MaxTries

VARIABLES
    job,            \* "none", or "list", "wait", "send"
    proc,           \* the procedure that waits for an answer
    n,              \* its count of attempts
    todo,           \* the texts that name the messages to read and delete,
                    \* the first of which is at hand
    printed,        \* messages that msg_output wrote out
    result          \* of the last sendenglish

jobVars == <<job, proc, n, todo, printed, result>>
vars    == <<atVars, modemVars, jobVars, strays>>

Cmd(name, arg) == [name |-> name, arg |-> arg]
Plain == {"ATE0", "AT", "AT+CPIN", "AT+CREG", "AT+CSQ", "AT+CMGF", "AT+CMGL",
          "AT+CPMS", "AT+CNMI", "AT+CMGS", "text"}
ModemCommands == {Cmd(c, 0) : c \in Plain} \cup {Cmd("text", 1)}
                     \cup {Cmd(c, x) : c \in {"AT+CMGR", "AT+CMGD"}, x \in Args}

ASSUME CommandsAre == ModemCommands \subseteq Commands
ASSUME ArgsAssumption == {0, 99} \subseteq Args

TypeOK ==
    /\ AtTypeOK /\ ModemTypeOK
    /\ job \in {"none", "list", "wait", "send"}
    /\ proc \in {"none", "judge", "list", "read", "del", "setup", "notices",
                 "noticed", "send", "text", "confirm"}
    /\ n \in 0..MaxTries /\ todo \in Seq(Texts)
    /\ printed \subseteq 1..came /\ result \in {"none", "sent", "failed"}
    /\ strays \in 0..MaxEvents - came

Init ==
    /\ AtInit /\ cmd = Cmd("AT", 0) /\ ModemInit
    /\ job = "none" /\ proc = "none" /\ n = 0 /\ todo = <<>>
    /\ printed = {} /\ result = "none" /\ strays = 0

-----------------------------------------------------------------------------
(* What seek_AT_str and atoi make of an answer.                            *)

(* The first text with a comma, or with a colon, decides.                  *)
WithComma == {"+CREG", "+CSQ", "+CMTI", "+CMGR", "+CMGL"}
WithColon == WithComma \cup {"READY", "+CMGS"}

FaultAfterComma(t) ==   \* a fault: the number behind the colon
    IF t.kind = "+CREG" THEN t.arg ELSE 0

AfterComma(t) == IF t.kind \in {"+CREG", "+CMTI"} THEN t.arg
                 ELSE IF t.kind = "+CSQ" THEN 99 ELSE 0
AfterColon(t) == IF t.kind \in {"+CSQ", "+CMGL"} THEN t.arg ELSE 0

Place(s, kinds) == SelectInSeq(s, LAMBDA t : t.kind \in kinds)
First(s, kinds) == s[Place(s, kinds)]

Registered(s) == /\ \E k \in WithComma : Shows(s, k)
                 /\ AfterComma(First(s, WithComma)) \in {1, 5}
Strong(s) == /\ \E k \in WithColon : Shows(s, k)
             /\ LET r == AfterColon(First(s, WithColon)) IN r >= 2 /\ r # 99

(* Of a listing, from its first message on.                                *)
Listed(s)   == SubSeq(s, Place(s, {"+CMGL"}), Len(s))
Contents(s) == {s[k].arg : k \in {x \in DOMAIN s : s[x].kind = "+CMGR"}}

-----------------------------------------------------------------------------
(* Calling AT_test, and counting attempts with try_times.                  *)

Index(texts) ==
    IF job = "list" THEN AfterColon(Head(texts)) ELSE AfterComma(Head(texts))

Ask(name, arg) == Call(Cmd(name, arg)) /\ UNCHANGED <<serial, modemVars, strays>>

Counted(limit) == n' = n + 1 /\ exited' = (n + 1 = limit)
Afresh         == n' = 1 /\ exited' = (1 = MaxTries)
Uncounted      == UNCHANGED <<n, exited>>

At(p, name) == ~exited /\ at = "idle" /\ proc = p /\ cmd.name = name
Within == UNCHANGED <<job, proc, todo, printed, result>>

Start ==
    /\ ~exited /\ at = "idle" /\ job = "none"
    /\ job' \in {"list", "send"} /\ proc' = "judge"
    /\ Call(Cmd("ATE0", 0)) /\ Afresh
    /\ sends' = 0 /\ spoilt' = {} /\ result' = "none" /\ todo' = <<>>
    /\ UNCHANGED <<serial, memory, notify, entry, printed, strays>>

End == job' = "none" /\ proc' = "none" /\ n' = 0 /\ todo' = <<>>

-----------------------------------------------------------------------------
(* Slips that the properties would catch; no specification uses them.      *)

FaultJudgeAgain ==      \* the network is waited for without counting
    /\ At("judge", "AT+CREG") /\ ~Registered(reply)
    /\ Ask("ATE0", 0) /\ Uncounted /\ Within

FaultOutputFails ==     \* what cannot be printed is deleted like the rest
    /\ At("read", "AT+CMGR") /\ Shows(reply, "+CMGR")
    /\ proc' = "del"
    /\ Ask("AT+CMGD", Index(todo)) /\ Afresh /\ UNCHANGED <<job, todo, printed, result>>

FaultSendTo ==          \* does not wait for the answer to AT+CMGF
    /\ ~exited /\ proc = "send" /\ cmd.name = "AT+CMGF" /\ at = "read"
    /\ Put(Cmd("AT+CMGS", 0)) /\ cmd' = Cmd("AT+CMGS", 0)
    /\ UNCHANGED <<at, i, reply, exited, disturbed, modemVars, jobVars, strays>>

FaultSendAgain ==       \* starts over although the modem took the command
    /\ At("send", "AT+CMGS")
    /\ Ask("AT+CMGF", 0) /\ Within /\ Uncounted

-----------------------------------------------------------------------------
(* judge_modulestate().                                                    *)

Judged == /\ At("judge", "AT+CSQ") /\ Strong(reply)
          /\ UNCHANGED <<todo, printed>>

JudgeNext ==
    /\ \/ At("judge", "ATE0") /\ Ask("AT", 0)
       \/ At("judge", "AT") /\ Ask("AT+CPIN", 0)
       \/ At("judge", "AT+CPIN") /\ Shows(reply, "READY") /\ Ask("AT+CREG", 0)
       \/ At("judge", "AT+CREG") /\ Registered(reply) /\ Ask("AT+CSQ", 0)
    /\ Within /\ Uncounted

JudgeAgain ==
    /\ \/ At("judge", "AT+CPIN") /\ ~Shows(reply, "READY")
       \/ At("judge", "AT+CREG") /\ ~Registered(reply)
       \/ At("judge", "AT+CSQ") /\ ~Strong(reply)
    /\ Ask("ATE0", 0) /\ Counted(MaxTries) /\ Within

-----------------------------------------------------------------------------
(* list_msg_txt().  fun_rvmsg ignores its result and goes on to wait.      *)

List ==
    /\ Judged /\ job = "list"
    /\ proc' = "list" /\ n' = 1 /\ exited' = (1 = MaxLists)
    /\ Ask("AT+CMGF", 0) /\ UNCHANGED <<job, result>>

ListNext ==
    At("list", "AT+CMGF") /\ Shows(reply, "OK") /\ Ask("AT+CMGL", 0) /\ Within /\ Uncounted

ListAgain ==
    /\ At("list", "AT+CMGF") /\ ~Shows(reply, "OK")
    /\ Ask("AT+CMGF", 0) /\ Counted(MaxLists) /\ Within

ReadFirst ==
    /\ At("list", "AT+CMGL") /\ Shows(reply, "+CMGL")
    /\ proc' = "read" /\ todo' = Listed(reply)
    /\ Ask("AT+CMGR", Index(todo')) /\ Uncounted /\ UNCHANGED <<job, printed, result>>

(* wait_newmsg_txt() begins after nothing was found, or all is read.       *)
Setup ==
    /\ job' = "wait" /\ proc' = "setup" /\ n' = 0 /\ todo' = <<>>
    /\ Ask("AT+CPMS", 0) /\ UNCHANGED <<result, exited>>

NoneListed ==
    At("list", "AT+CMGL") /\ ~Shows(reply, "+CMGL") /\ Setup /\ UNCHANGED printed

-----------------------------------------------------------------------------
(* read_msg_index_txt(), msg_output() and del_msg().                       *)

ReadAgain ==        \* continue, before loops--
    /\ At("read", "AT+CMGR") /\ ~Shows(reply, "+CMGR")
    /\ Ask("AT+CMGR", Index(todo)) /\ Uncounted /\ Within

(* msg_output prints all the buffer holds from the first +CMGR on.         *)
Output ==
    /\ At("read", "AT+CMGR") /\ Shows(reply, "+CMGR")
    /\ printed' = printed \cup Contents(reply)
    /\ proc' = "del"
    /\ Ask("AT+CMGD", Index(todo)) /\ Afresh /\ UNCHANGED <<job, todo, result>>

(* It does not find what it looks for, a "+" or a "/".                     *)
OutputFails ==
    /\ At("read", "AT+CMGR") /\ Shows(reply, "+CMGR")
    /\ \/ job = "list" /\ Setup
       \/ /\ job = "wait" /\ End
          /\ UNCHANGED <<atVars, modemVars, result, strays>>
    /\ UNCHANGED printed

DeleteAgain ==
    /\ At("del", "AT+CMGD") /\ ~Shows(reply, "OK")
    /\ Ask("AT+CMGD", Index(todo)) /\ Counted(MaxTries) /\ Within

Deleted ==
    /\ At("del", "AT+CMGD") /\ Shows(reply, "OK")
    /\ \/ /\ Shows(Tail(todo), "+CMGL") /\ todo' = Listed(Tail(todo))
          /\ proc' = "read" /\ n' = 0
          /\ Ask("AT+CMGR", Index(todo')) /\ UNCHANGED <<job, result, exited>>
       \/ ~Shows(Tail(todo), "+CMGL") /\ job = "list" /\ Setup
       \/ /\ ~Shows(Tail(todo), "+CMGL") /\ job = "wait" /\ End
          /\ UNCHANGED <<atVars, modemVars, result, strays>>
    /\ UNCHANGED printed

-----------------------------------------------------------------------------
(* wait_newmsg_txt().                                                      *)

SetupNext ==
    /\ \/ At("setup", "AT+CPMS") /\ Shows(reply, "OK") /\ Ask("AT+CMGF", 0) /\ UNCHANGED proc
       \/ At("setup", "AT+CMGF") /\ Shows(reply, "OK") /\ Ask("AT+CNMI", 0) /\ UNCHANGED proc
       \/ /\ At("setup", "AT+CNMI") /\ Shows(reply, "OK")
          /\ proc' = "notices" /\ UNCHANGED <<atVars, modemVars, strays>>
    /\ Uncounted /\ UNCHANGED <<job, todo, printed, result>>

SetupAgain ==
    /\ ~exited /\ at = "idle" /\ proc = "setup" /\ ~Shows(reply, "OK")
    /\ Ask("AT+CPMS", 0) /\ Uncounted /\ Within

(* readComport_notime() waits for as long as it takes.                     *)
ReadNotices ==
    /\ ~exited /\ proc = "notices"
    /\ Listen
    /\ proc' = IF Shows(reply', "+CMTI") THEN "noticed" ELSE "notices"
    /\ strays' = strays
    /\ UNCHANGED <<modemVars, job, n, todo, printed, result>>

ReadNoticed ==
    /\ ~exited /\ proc = "noticed"
    /\ proc' = "read" /\ todo' = <<First(reply, WithComma)>>
    /\ Ask("AT+CMGR", Index(todo')) /\ Uncounted /\ UNCHANGED <<job, printed, result>>

WaitInterrupted ==      \* select() returns -1
    /\ ~exited /\ proc = "notices" /\ End
    /\ UNCHANGED <<atVars, modemVars, printed, result, strays>>

-----------------------------------------------------------------------------
(* sendenglish().                                                          *)

Send ==
    /\ Judged /\ job = "send"
    /\ proc' = "send" /\ n' = 0
    /\ Ask("AT+CMGF", 0) /\ UNCHANGED <<job, result, exited>>

(* The client is gone, or what it sent is too long, which of what follows  *)
(* the number is noticed later.                                            *)
SendNothing ==
    /\ (Judged /\ job = "send") \/ At("send", "AT+CMGF")
    /\ End /\ result' = "failed"
    /\ UNCHANGED <<atVars, modemVars, printed, strays>>

SendTo == At("send", "AT+CMGF") /\ Ask("AT+CMGS", 0) /\ Within /\ Uncounted

SendAgain ==
    At("send", "AT+CMGS") /\ ~Shows(reply, ">") /\ Ask("AT+CMGF", 0) /\ Within /\ Uncounted

(* The message was copied without its end into an array that nothing set:  *)
(* strlen() finds an end anywhere behind it, the byte before that becomes  *)
(* the Ctrl-Z, and so what is written is the message or something else.    *)
SendText ==
    /\ \/ At("send", "AT+CMGS") /\ Shows(reply, ">")
       \/ ~exited /\ proc = "text"
    /\ \/ /\ \E other \in {0, 1} : Tell(Cmd("text", other))
          /\ proc' = "confirm" /\ Uncounted
       \/ /\ proc' = "text" /\ Counted(MaxLists)
          /\ UNCHANGED <<call, reply, serial, disturbed>>
    /\ UNCHANGED <<modemVars, strays, job, todo, printed, result>>

Confirm ==
    /\ ~exited /\ proc = "confirm"
    /\ Listen \/ UNCHANGED atVars           \* or the 30 seconds are over
    /\ \/ n + 1 = MaxTries /\ End /\ result' = "failed"
       \/ n + 1 # MaxTries /\ Shows(reply', "OK") /\ End /\ result' = "sent"
       \/ /\ n + 1 # MaxTries /\ ~Shows(reply', "OK")
          /\ n' = n + 1 /\ UNCHANGED <<job, proc, todo, result>>
    /\ strays' = strays + IF job' = "none" /\ ~Quiet' THEN 1 ELSE 0
    /\ came + strays' <= MaxEvents
    /\ UNCHANGED <<modemVars, printed>>

-----------------------------------------------------------------------------
(* pthread_cancel of the reader, wherever it is.                           *)
Cancel ==
    /\ ~exited /\ job \in {"list", "wait"}
    /\ Abandon /\ End
    /\ strays' = strays + IF Quiet THEN 0 ELSE 1
    /\ came + strays' <= MaxEvents
    /\ UNCHANGED <<modemVars, printed, result>>

(* AT_test took an answer, or gave up waiting, and left something behind.  *)
Stray == at = "read" /\ ~Quiet'

Dialogue ==
    /\ AT_test
    /\ strays' = strays + IF Stray THEN 1 ELSE 0
    /\ came + strays' <= MaxEvents
    /\ UNCHANGED <<modemVars, jobVars>>

Procedure ==
    \/ JudgeNext \/ JudgeAgain
    \/ List \/ ListNext \/ ListAgain \/ ReadFirst \/ NoneListed
    \/ ReadAgain \/ Output \/ OutputFails \/ DeleteAgain \/ Deleted
    \/ SetupNext \/ SetupAgain \/ ReadNotices \/ ReadNoticed
    \/ Send \/ SendNothing \/ SendTo \/ SendAgain \/ SendText \/ Confirm

ModemStep == ~exited /\ Work /\ UNCHANGED <<jobVars, strays>>

Next ==
    \/ Start \/ Procedure \/ Dialogue \/ WaitInterrupted \/ Cancel \/ ModemStep
    \/ ~exited /\ Arrive /\ UNCHANGED <<jobVars, strays>>

Spec == Init /\ [][Next]_vars

(* The process runs; select() returns by its time-out, and the modem, once *)
(* MaxEvents answers were late, in time.                                   *)
FairSpec == Spec /\ WF_vars(Procedure \/ Dialogue) /\ WF_vars(ModemStep)

-----------------------------------------------------------------------------
(* Properties.                                                             *)

(* Every step of the procedures is one that AtTest allows its callers: what*)
(* AtTest says of a call holds of each of theirs.                          *)
DialogueKept == AtSpec

(* The jobs are those of ModemJobs, which is what SmsControl makes of its  *)
(* threads: the two modules agree on when a job begins, waits and is over. *)
J == INSTANCE ModemJobs WITH
         Threads <- {"worker"},
         running <- IF job = "none" THEN {} ELSE {<<"worker", job>>}
JobsInOrder == J!Spec

(* No message is deleted that was not printed, whatever the modem refuses  *)
(* or ignores and whenever messages come in, provided that every answer    *)
(* came whole and in time: index and content belong together although only *)
(* the index is in the command and only the content in the answer.         *)
DeletedWasPrinted == strays = 0 => gone \subseteq printed

(* Provided the same, of a message reported as sent the modem took one text*)
(* and no command got into it.  It was sent once, unless what was written  *)
(* in its place made the modem abandon it.                                 *)
SentMeansSent ==
    strays = 0 /\ result = "sent" =>
        /\ sends = 1 \/ (sends = 0 /\ "text" \in spoilt)
        /\ "command" \notin spoilt

(* Provided the same, a message announced to the waiting program is        *)
(* printed, unless the wait is cut off or the process ends: the notice is  *)
(* found and its index taken from it, through whatever else is read.       *)
NewsPrinted ==
    \A m \in 1..MaxEvents :
        /\ proc = "notices" /\ strays = 0
        /\ line # <<>> /\ Head(line).kind = "+CMTI" /\ mem[Head(line).arg] = m
        ~> m \in printed \/ strays > 0 \/ job = "none" \/ exited

(* However the modem answers, a job ends or the process does, or it waits  *)
(* for a message.  The one loop that nothing ends is the one about reading *)
(* a message that is not there: loops-- stands behind continue.            *)
JobEnds ==
    job # "none" ~> \/ job = "none" \/ exited
                    \/ proc = "notices"
                    \/ proc = "read" /\ mem[Index(todo)] = 0

-----------------------------------------------------------------------------
(* What the source says and the code does not do.                          *)

(* "Read the messages one by one", each before it is deleted.              *)
ReadOneByOne == gone \subseteq printed
=============================================================================
