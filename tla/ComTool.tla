------------------------------- MODULE ComTool -------------------------------
(***************************************************************************)
(* The serial terminal pro_comporttool/main.c: a loop around select() that *)
(* copies lines from standard input to the port and shows what comes from  *)
(* it, with the opening and closing of the port in comport.c.              *)
(*                                                                         *)
(* select() looks at descriptors, fgets() at stdio's buffer in front of    *)
(* one of them.  The signal handler is installed by signal(): a read is    *)
(* restarted after SIGINT, select is not.                                  *)
(***************************************************************************)
EXTENDS Comport, SequencesExt

CONSTANTS
    ARRMAX,         \* the size of databuf; 64 in the code
    Lines, Pieces,  \* what is typed: whole lines, and what a pipe may also carry
    NL,             \* the newline
    Options,        \* settings asked for on the command line
    Terms,          \* settings a port may be found with
    MaxTyped        \* bound: characters on standard input

ASSUME ArrmaxAssumption == ARRMAX \in Nat /\ ARRMAX >= 2
Alphabet == UNION {Range(l) : l \in Lines \cup Pieces}

ASSUME LinesAssumption ==
    /\ Lines \cup Pieces \subseteq Seq(Alphabet)
    /\ \A l \in Lines : l # <<>> /\ Last(l) = NL
ASSUME TermsAssumption == Terms \subseteq Termios

VARIABLES
    at,             \* where main is
    stdin,          \* "terminal" (gives a line at a time) or "pipe"
    typed,          \* history: all that was put on standard input
    pending, eof,   \* of it, what read() has not returned; whether it ends there
    stdio,          \* the buffer of the FILE stdin
    databuf,        \* the line at hand, without its last character
    out,            \* what write() took for the port
    device,         \* "quiet", "talking" (there is input) or "gone" (hung up)
    sig_exit,       \* set by the SIGINT handler
    opts, found,    \* command line; the settings before the port was opened
    term,           \* the settings of the port
    released,       \* how often the comport structure was freed
    failed          \* history: what failed, of "open", "set", "restore";
                    \* "cut": characters dropped by fgets or a short write

input == <<stdin, typed, pending, eof>>
port  == <<opts, found, term, released>>
vars  == <<at, input, stdio, databuf, out, device, sig_exit, port, failed>>

(* s without its newlines.                                                 *)
Chars(s) ==
    LET upto[k \in 0..Len(s)] ==
            IF k = 0 THEN <<>>
            ELSE IF s[k] = NL THEN upto[k - 1] ELSE Append(upto[k - 1], s[k])
    IN upto[Len(s)]

Init ==
    /\ at = "open"
    /\ stdin \in {"terminal", "pipe"}
    /\ typed = <<>> /\ pending = <<>> /\ eof = FALSE
    /\ stdio = <<>> /\ databuf = <<>> /\ out = <<>>
    /\ device = "quiet" /\ sig_exit = FALSE
    /\ opts \in Options /\ found \in Terms /\ term = found
    /\ released = 0 /\ failed = {}

Goto(l) == at' = l
File    == <<stdio, databuf>>

-----------------------------------------------------------------------------
(* Slips that the properties would catch; no specification uses them.      *)

FaultTake(taken) == databuf' = taken        \* with its newline

FaultRefill ==          \* takes all there is, as from a pipe
    /\ pending # <<>>
    /\ stdio' = stdio \o pending /\ pending' = <<>>
    /\ UNCHANGED <<at, stdin, typed, eof, databuf, out, failed>>

FaultInterrupted ==     \* returns at once
    at = "select" /\ sig_exit' = TRUE /\ Goto("exited") /\ UNCHANGED <<released, term, failed>>

FaultTest == at = "test" /\ Goto("enter")   \* does not look at the flag

FaultSelectPort ==      \* does not read what it reports
    at = "select" /\ device # "quiet" /\ Goto("test") /\ UNCHANGED device

-----------------------------------------------------------------------------
(* Opening the port: open(), isatty(), tcgetattr() or tcsetattr() may fail; *)
(* openComport does not look at what setComport returns.                   *)

Open ==
    /\ at = "open"
    /\ \/ Goto("exited") /\ failed' = failed \cup {"open"} /\ UNCHANGED term
       \/ Goto("test") /\ term' = Settings(opts, found) /\ UNCHANGED failed
       \/ Goto("test") /\ failed' = failed \cup {"set"} /\ UNCHANGED term
    /\ UNCHANGED <<input, File, out, device, sig_exit, opts, found, released>>

-----------------------------------------------------------------------------
(* The loop.                                                               *)

Test == at = "test" /\ Goto(IF sig_exit THEN "close" ELSE "enter")

(* select() is reached; from here on a signal ends it.                     *)
Enter == at = "enter" /\ Goto("select")

Readable == pending # <<>> \/ eof

SelectTimeout == at = "select" /\ device = "quiet" /\ ~Readable /\ Goto("close")

(* The port goes first.  A port that hung up reads as 0 bytes, for ever.   *)
SelectPort ==
    /\ at = "select" /\ device # "quiet"
    /\ \/ device' = (IF device = "gone" THEN "gone" ELSE "quiet") /\ Goto("test")
       \/ Goto("close") /\ UNCHANGED device         \* readComport fails

SelectStdin == at = "select" /\ device = "quiet" /\ Readable /\ Goto("fgets")

Control ==
    \/ /\ (Test \/ Enter \/ SelectTimeout \/ SelectStdin)
       /\ UNCHANGED <<input, File, out, device, sig_exit, port, failed>>
    \/ SelectPort /\ UNCHANGED <<input, File, out, sig_exit, port, failed>>

(* fgets(databuf, ARRMAX, stdin).                                          *)
Room == ARRMAX - 1
LineEnd == SelectInSeq(stdio, LAMBDA c : c = NL)
AtEnd  == pending = <<>> /\ eof
Enough == LineEnd # 0 \/ Len(stdio) >= Room

(* read() on standard input.                                               *)
Refill ==
    /\ pending # <<>>
    /\ \E k \in DOMAIN pending :
          /\ k = IF stdin = "pipe" THEN Len(pending)
                 ELSE SelectInSeq(pending, LAMBDA c : c = NL)
          /\ stdio' = stdio \o SubSeq(pending, 1, k)
          /\ pending' = SubSeq(pending, k + 1, Len(pending))
    /\ UNCHANGED <<at, stdin, typed, eof, databuf, out, failed>>

(* databuf[strlen(databuf)-1] = '\0', whatever stood there: a line that is *)
(* too long, or the last one of a file, loses a character.  At the end of  *)
(* the file databuf is what memset left.                                   *)
Take(taken) == databuf' = IF taken = <<>> THEN <<>> ELSE Front(taken)

TakeLine ==
    /\ \E k \in 0..Len(stdio) :
          /\ k = IF LineEnd \in 1..Room THEN LineEnd
                 ELSE IF Len(stdio) < Room THEN Len(stdio) ELSE Room
          /\ Take(SubSeq(stdio, 1, k))
          /\ stdio' = SubSeq(stdio, k + 1, Len(stdio))
          /\ failed' = failed \cup IF k > 0 /\ stdio[k] # NL THEN {"cut"} ELSE {}
    /\ Goto("write")
    /\ UNCHANGED <<input, out>>

Fgets ==
    /\ at = "fgets"
    /\ \/ ~Enough /\ Refill
       \/ (Enough \/ AtEnd) /\ TakeLine
    /\ UNCHANGED <<device, sig_exit, port>>

(* writeComport(): the count that write() returns is not looked at.        *)
Written ==
    /\ at = "write" /\ Goto("test")
    /\ \E k \in 0..Len(databuf) :
          /\ out' = out \o SubSeq(databuf, 1, k)
          /\ failed' = failed \cup IF k < Len(databuf) THEN {"cut"} ELSE {}

WriteFails == at = "write" /\ Goto("close") /\ failed' = failed \cup {"cut"} /\ UNCHANGED out

Write ==
    /\ Written \/ WriteFails
    /\ databuf' = <<>>      \* memset at the head of the loop
    /\ UNCHANGED <<input, stdio, device, sig_exit, port>>

-----------------------------------------------------------------------------
(* closeComport(); the process exits whatever it returns.                  *)

Close ==
    /\ at = "close" /\ Goto("exited")
    /\ \/ term' = found /\ released' = released + 1 /\ UNCHANGED failed
       \/ failed' = failed \cup {"restore"} /\ UNCHANGED <<term, released>>
    /\ UNCHANGED <<input, File, out, device, sig_exit, opts, found>>

-----------------------------------------------------------------------------
(* What comes from outside.                                                *)

Type ==
    /\ at # "exited" /\ ~eof
    /\ \E l \in Lines \cup (IF stdin = "pipe" THEN Pieces ELSE {}) :
          /\ Len(typed) + Len(l) <= MaxTyped
          /\ typed' = typed \o l /\ pending' = pending \o l
    /\ UNCHANGED <<at, stdin, eof, File, out, device, sig_exit, port, failed>>

EndInput ==
    /\ at # "exited" /\ ~eof /\ eof' = TRUE
    /\ UNCHANGED <<at, stdin, typed, pending, File, out, device, sig_exit, port, failed>>

(* The device says something (as often as it likes), or hangs up.          *)
Talk ==
    /\ at # "exited" /\ device # "gone"
    /\ device' \in {"talking", "gone"}
    /\ UNCHANGED <<at, input, File, out, sig_exit, port, failed>>

(* SIGINT, once the handler is installed.                                  *)
Interrupted == at = "select" /\ sig_exit' = TRUE /\ Goto("close") /\ UNCHANGED <<released, term, failed>>

sighandler ==
    /\ \/ Interrupted
       \/ /\ at \notin {"select", "exited"} /\ ~sig_exit /\ sig_exit' = TRUE
          /\ UNCHANGED <<at, released, term, failed>>
    /\ UNCHANGED <<input, File, out, device, opts, found>>

Main == Open \/ Control \/ Fgets \/ Write \/ Close

Next == Main \/ Type \/ EndInput \/ Talk \/ sighandler

Spec == Init /\ [][Next]_vars

(* The process runs and select() returns by its time-out.                  *)
FairSpec == Spec /\ WF_vars(Main)

-----------------------------------------------------------------------------
(* Properties.                                                             *)

(* What was typed goes to the port in order, once, without its newlines:   *)
(* everything was taken by write(), or is in one of the three places on its*)
(* way there, as long as every line fits the buffer and every write takes  *)
(* it.  (What write() took and the line has not sent is discarded by the   *)
(* tcflush of closeComport.)                                               *)
NothingLost ==
    "cut" \notin failed =>
        Chars(typed) = out \o databuf \o Chars(stdio) \o Chars(pending)

(* select() does not see the lines in stdio's buffer.  With a terminal     *)
(* there are none while it waits, unless a line was too long.              *)
NothingHidden ==
    at = "select" /\ stdin = "terminal" /\ "cut" \notin failed => stdio = <<>>

(* While the port is open the line has the framing that was asked for,     *)
(* whatever it had before; whichever way the loop is left, the settings it *)
(* was found with are restored, and the structure is given back once,      *)
(* unless the port refuses.                                                *)
PortSettings ==
    /\ at \notin {"open", "exited"} /\ "set" \notin failed =>
           \A t \in Terms : Framing(term) = Framing(Settings(opts, t))
    /\ at = "exited" /\ failed \cap {"open", "restore"} = {} => term = found /\ released = 1
    /\ released <= 1

(* SIGINT ends the program, although it is not noticed by a read and may   *)
(* come just before select: only a line that nobody completes holds it up. *)
StopHonoured ==
    sig_exit ~> \/ at = "exited"
                \/ at = "fgets" /\ ~Enough /\ pending = <<>> /\ ~eof

(* What is on standard input is read, unless the program ends or the port, *)
(* which goes first (main.c:138, 148), has hung up or never stops talking: *)
(* standard input is looked at only when the port is silent.               *)
LinesTaken ==
    \/ pending # <<>> ~> pending = <<>> \/ at = "exited" \/ device = "gone"
    \/ []<><<Talk>>_vars
=============================================================================
