-------------------------------- MODULE AtTest --------------------------------
(***************************************************************************)
(* AT_test() of sim5360/at_msg.c, with readComport and writeComport of     *)
(* sim5360/comport.c: it writes an AT command to the modem and reads until *)
(* something comes back that is no error, repeating the command after a    *)
(* time-out; try_times() ends the process after MaxTimes attempts.         *)
(*                                                                         *)
(* What goes over the serial line is a sequence of texts that are read     *)
(* whole ("OK", "+CREG: 0,1"): records of a kind, the number that matters  *)
(* in it, and the command it answers, as a history.  AT_test itself cannot *)
(* tell whose answer it reads.  Its callers are abstracted (see            *)
(* SmsProcedures): whenever it is idle any command may be called, and the  *)
(* line may be read and written without it.                                *)
(***************************************************************************)
EXTENDS Integers, SequencesExt

CONSTANTS
    Commands,       \* AT commands, and the message text
    Nobody,         \* what a text that was not asked for answers
    Kinds, Args,    \* what a text is, and its number
    Answers,        \* the sequences of texts with which the modem may answer
    Notices,        \* the texts it may send unasked
    MaxTimes,       \* 10 in the code: the attempts of try_times()
    MaxAsked        \* bound: commands the modem can hold; it drops the others

ASSUME CommandsAssumption == Nobody \notin Commands
ASSUME AnswersAssumption ==
    /\ Answers \subseteq Seq([kind : Kinds, arg : Args])
    /\ Notices \subseteq [kind : Kinds, arg : Args]
ASSUME AttemptsAssumption == MaxTimes \in Nat /\ MaxTimes >= 3
ASSUME AskedAssumption == MaxAsked \in Nat \ {0}

VARIABLES
    at,             \* where AT_test is; "idle": the caller runs
    cmd, i,         \* its command and its count of attempts
    reply,          \* readbuff: what was read last
    asked,          \* what was written and the modem has not answered
    line,           \* texts not read yet
    exited,         \* try_times() called exit(1)
    disturbed       \* history: since the call began something was on its way
                    \* after a read, or came unasked, or was left from before

call   == <<at, cmd, i>>
serial == <<asked, line>>
atVars == <<call, reply, serial, exited, disturbed>>

Texts == [kind : Kinds, arg : Args, of : Commands \cup {Nobody}]

AtTypeOK ==
    /\ at \in {"idle", "try", "write", "read"}
    /\ cmd \in Commands /\ i \in 0..MaxTimes
    /\ reply \in Seq(Texts) /\ line \in Seq(Texts)
    /\ asked \in Seq(Commands) /\ Len(asked) <= MaxAsked
    /\ exited \in BOOLEAN /\ disturbed \in BOOLEAN

AtInit ==
    /\ at = "idle" /\ cmd \in Commands /\ i = 0
    /\ reply = <<>> /\ asked = <<>> /\ line = <<>>
    /\ exited = FALSE /\ disturbed = FALSE

Quiet == line = <<>> /\ asked = <<>>
Shows(s, kind) == \E k \in DOMAIN s : s[k].kind = kind
From(c, texts) == [k \in DOMAIN texts |->
                       [kind |-> texts[k].kind, arg |-> texts[k].arg, of |-> c]]

-----------------------------------------------------------------------------
(* Slips that the properties would catch; no specification uses them.      *)

FaultReadFails ==       \* counts the failed read without a look at the limit
    /\ at = "read"
    /\ i' = i + 1 /\ at' = "try"
    /\ disturbed' = (disturbed \/ ~Quiet)
    /\ UNCHANGED <<cmd, reply, serial, exited>>

-----------------------------------------------------------------------------
(* AT_test().                                                              *)

(* The call.  Nothing looks at the buffer before it is read into again.    *)
Call(c) ==
    /\ at = "idle"
    /\ cmd' = c /\ i' = 0 /\ at' = "try"
    /\ reply' = <<>>
    /\ disturbed' = ~Quiet

(* try_times(&i, 10), then on to l.                                        *)
Attempt(l) ==
    /\ i' = i + 1
    /\ exited' = (i + 1 = MaxTimes)
    /\ at' = l
    /\ UNCHANGED cmd

Try == at = "try" /\ Attempt("write") /\ UNCHANGED <<reply, serial, disturbed>>

(* writeComport().                                                         *)
Put(c) ==
    /\ asked' = IF Len(asked) < MaxAsked THEN Append(asked, c) ELSE asked
    /\ UNCHANGED line

Write ==
    /\ at = "write"
    /\ Put(cmd)
    /\ at' = "read"
    /\ UNCHANGED <<cmd, i, reply, exited, disturbed>>

WriteFails ==
    at = "write" /\ Attempt("write") /\ UNCHANGED <<reply, serial, disturbed>>

(* select() gave up after 30 seconds, or was interrupted by a signal.      *)
ReadFails ==
    /\ at = "read"
    /\ Attempt("try")
    /\ disturbed' = (disturbed \/ ~Quiet)
    /\ UNCHANGED <<reply, serial>>

(* readComport(): read() returns some of what is there.                    *)
Receive ==
    \E n \in DOMAIN line :
          /\ reply' = SubSeq(line, 1, n)
          /\ line' = SubSeq(line, n + 1, Len(line))
          /\ UNCHANGED asked

TooShort(s) == Len(s) = 1 /\ s[1].kind = "eol"      \* fewer than 3 bytes

Read ==
    /\ at = "read"
    /\ Receive
    /\ disturbed' = (disturbed \/ ~Quiet')
    /\ \/ TooShort(reply') /\ Attempt("try")
       \/ Shows(reply', "ERROR") /\ at' = "try" /\ UNCHANGED <<cmd, i, exited>>
       \/ ~TooShort(reply') /\ ~Shows(reply', "ERROR")
          /\ at' = "idle" /\ UNCHANGED <<cmd, i, exited>>

AT_test == ~exited /\ (Try \/ Write \/ WriteFails \/ ReadFails \/ Read)

-----------------------------------------------------------------------------
(* The callers.                                                            *)

(* One that also counts attempts may end the process.                      *)
CallNext == (\E c \in Commands : Call(c)) /\ exited' \in BOOLEAN /\ UNCHANGED serial

(* readComport, readComport_notime and writeComport outside AT_test.       *)
Listen == at = "idle" /\ Receive /\ disturbed' = TRUE /\ UNCHANGED <<call, exited>>
Tell(c) ==
    /\ at = "idle"
    /\ Put(c)
    /\ disturbed' = TRUE /\ UNCHANGED <<call, reply, exited>>

(* The thread is cancelled.                                                *)
Abandon ==
    /\ at' = "idle" /\ disturbed' = TRUE /\ reply' = <<>>
    /\ UNCHANGED <<cmd, i, serial, exited>>

(* A caller that fails for reasons of its own.                             *)
GiveUp == at = "idle" /\ exited' = TRUE /\ UNCHANGED <<call, reply, serial, disturbed>>

Caller ==
    /\ ~exited
    /\ CallNext \/ Listen \/ (\E c \in Commands : Tell(c)) \/ Abandon \/ GiveUp

-----------------------------------------------------------------------------
(* The modem: it takes one command after another.                          *)

Reply(texts) ==
    /\ asked # <<>>
    /\ line' = line \o From(Head(asked), texts)
    /\ asked' = Tail(asked)
    /\ UNCHANGED <<call, reply, exited, disturbed>>

Notice(t) ==
    /\ line' = line \o From(Nobody, <<t>>)
    /\ disturbed' = TRUE
    /\ UNCHANGED <<call, reply, asked, exited>>

Modem ==
    /\ ~exited
    /\ \/ asked # <<>> /\ \E a \in Answers : Reply(a)
       \/ \E t \in Notices : Notice(t)

AtNext == Caller \/ AT_test \/ Modem

AtSpec == AtInit /\ [][AtNext]_atVars

-----------------------------------------------------------------------------
(* Properties.                                                             *)

(* A call that begins on a quiet line and whose answers come whole and in  *)
(* time returns the answer to its own command, all of it, and leaves the   *)
(* line quiet for the next call, however often the command was refused,    *)
(* ignored or could not be written, and whatever the calls before it met.  *)
AnswerIsOwn ==
    at = "idle" /\ reply # <<>> /\ ~disturbed =>
        /\ \A k \in DOMAIN reply : reply[k].of = cmd
        /\ Quiet

=============================================================================
