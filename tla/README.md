# Specifications of the SMS and temperature programs

TLA+ specifications of the programs in this repository: the control program of a
SIM5360 modem that sends and reads text messages (`sim5360/`), three servers that
collect temperature readings (`wujinlong/`, `epoll_server/`, `tlv/`) with their
clients, and a serial terminal (`pro_comporttool/`). TLC checks the models on small
instances; TLAPS proves the main safety results for every instance.

Paths below are relative to the root of the sources. `PROJECT.json` maps every
definition that models code to the lines it stands for, and lists runs, mutants,
findings, hazards and theorems.

## 1. The system

| Component | State | Operations | Interacts with |
|---|---|---|---|
| **SMS control program** `sim5360/pthread.c` | the `CTR` record (`req`, `exc`, `srcfd`, `occupy`, a mutex), three threads, `g_stop` | `main` reads a command, posts it, grants or preempts; `fun_sendmsg` and `fun_rvmsg` do the job and give the slot back; SIGINT | client socket (read by `main` *and* by `fun_sendmsg`), AT dialogue, client acceptor |
| **AT dialogue** `AT_test`, `try_times` in `sim5360/at_msg.c`, `readComport`/`writeComport` in `sim5360/comport.c` | attempt count, the buffer read last; outside: what the modem has not answered, what is on the line | write a command, wait for an answer with a time-out, repeat; end the process after ten attempts | the serial line; called by every SMS procedure |
| **SMS procedures** rest of `sim5360/at_msg.c` | indices of unread messages, reply buffers, counts of attempts; outside: the modem's memory | `judge_modulestate`, `sendenglish`, `list_msg_txt`, `wait_newmsg_txt`, `read_msg_index_txt`, `msg_output`, `del_msg` | AT dialogue; called by the worker threads |
| **SMS client acceptor** `sim5360/epoll_sever.c` | epoll set, batch of events, `g_serverstop` | accept, hang-up, return the first readable connection; SIGTSTP | called by `main` of the control program before its loop |
| **Serial port** `sim5360/comport.c`, `pro_comporttool/comport.c` | a heap-allocated `comport` structure, saved `termios` | `initComport`, `openComport`, `setComport` with the `set_` functions, `closeComport`, `Comport_term` | AT dialogue, terminal tool |
| **Serial terminal** `pro_comporttool/main.c` | two descriptors, stdio's buffer, `sig_exit` | copy standard input to the port, show what comes back; SIGINT | serial port |
| **PPP dialler** `sim5360/ppp_connect.c` | dial script files | choose the operator from the IMSI, rewrite the script | called by nobody |
| **Threaded temperature server** `wujinlong/server_pthread.c` | one stack frame `{arg_fd, p_over}` shared by `main` and every thread, descriptor table, SQLite file | accept, start a thread, wait up to two seconds for it; the thread reads, inserts, closes | clients over TCP; the database lock |
| **Temperature client** `wujinlong/client.c` | `g_cilentstop` | connect, send a reading, close; once per period | threaded and epoll servers |
| **Epoll temperature server** `epoll_server/` | epoll set, batch of events, database, `g_cilentstop` | accept, hang-up, store; SIGUSR2 | clients over TCP |
| **TLV temperature server** `tlv/server_tlv.c` | receive buffer, `remain`, `current` | read, scan for packets, check, shift, accept a reading | TLV client, CRC |
| **TLV temperature client** `tlv/client_clv.c` | packet buffer | sample, pack, write | TLV server, CRC |
| **CRC** `tlv/crc-itu-t.[ch]` | the table | update by a byte, by a buffer; short to bytes and back | both ends of TLV |
| Character conversion, socket exercise, manual tests | – | – | – |

### What is hard about it

* **Control program.** `exc` is tested outside the lock in an `if/else` chain of two
  loads; `req` is posted in one critical section and granted in another, while
  workers clear it; a reader is cancelled *asynchronously*, possibly while it holds
  the mutex, and is replaced after a fixed 1 ms; `occupy`, which keeps `main` off the
  socket during a send, is written without the lock, late.
* **AT dialogue.** Nothing ties an answer to its command. After a time-out the answer
  may still come; `read()` may return a part of one. The count of attempts is compared
  with `==` and is advanced in three places.
* **SMS procedures.** An index and a content belong together only because of the order of
  commands. Retries repeat commands that may have been carried out (`AT+CMGD`,
  `AT+CMGS`). A notice of a new message arrives among answers. A reader may be
  cancelled in the middle of any of it and leave an answer behind.
* **Terminal.** `select()` looks at a descriptor, `fgets` at a buffer in front of it; SIGINT
  interrupts `select()` but not a read; the port goes before standard input, and starves it as
  long as it talks.
* **Epoll servers.** An event is a copy made before earlier events of the same batch
  closed and accepted descriptors; clients that leave without data stay in the epoll
  set, ready for ever; a connection that is reset is closed with its data unread; a signal may
  come just before `epoll_wait`.
* **Threaded server.** A thread gets a pointer into a stack frame that its starter
  leaves after at most two seconds and that the next start fills in again; the thread
  loads its descriptor from there twice, and may find any number there, the listening socket's
  among them. The database has no busy handler.
* **TLV server.** `read()` cuts packets anywhere; stale bytes behind `remain` take part
  in the checksum; `current = 0; continue` resumes at index 1; lengths are signed
  chars in one test and unsigned in the other; a full buffer looks like a disconnect.

### What makes it correct

| Component | Correct means |
|---|---|
| Control program | one writer of the record at a time; a running request is replaced only by a higher one, and a free slot goes to the command read last; who works owns the slot; one job on the modem at a time (`ModemJobs`); a granted send gets to the client; SIGINT ends the process |
| AT dialogue | a call returns at all, within the limit of attempts; it returns the answer to its own command as long as answers come whole and in time |
| SMS procedures | a message is deleted only when it was printed; what is reported as sent was taken by the modem once, and no command got into it; announced news is printed; a job ends |
| Terminal, serial port | what is typed arrives in order; nothing waits unseen; SIGINT ends it; the port has the framing asked for and gets its settings back |
| PPP dialler | every operator is recognised; only the line looked for is changed |
| Acceptor | what it returns is an accepted, readable connection; somebody is chosen once a connection has something to say and stays |
| Temperature servers | a reading is stored once or lost for good (`Reading`), never twice; no descriptor is used in another connection's name; waiting clients are served |
| TLV server | accepted readings are a subsequence of those sent; a first reading and one of any two in a row are accepted however they are cut, if the server awaits packets as long; the buffer never fills; the scan ends |
| CRC | the table computes the division by the polynomial |

## 2. Modules

| Module | Models | Code |
|---|---|---|
| `SmsControl` | the control program | `sim5360/pthread.c` |
| `ModemJobs` | *abstract*: one job on the modem at a time, listing, waiting or sending | implemented by `SmsControl` and `SmsProcedures` |
| `AtTest` | the AT dialogue, any caller and any modem | `at_msg.c` 60–130, `comport.c` read and write |
| `SmsModem` = `AtTest` + a modem with a memory | *external*: what the procedures' commands do | – |
| `SmsProcedures` = `SmsModem` + the callers | judging, listing, waiting, reading, printing, deleting, sending | rest of `at_msg.c` |
| `EpollLoop` | the loop the two epoll servers share; the kernel's descriptor table, backlog and readiness | both `epoll_sever.c` |
| `EpollStart` = `EpollLoop` + the choice of a client | `epoll_server_start()` | `sim5360/epoll_sever.c` |
| `EpollServer` = `EpollLoop` + the handler | `main` and `datadell` | `epoll_server/*.c` |
| `TempServer` | the threaded server | `wujinlong/server_pthread.c` |
| `Reading` | *abstract*: what a temperature server makes of readings | implemented by `TempServer` and `EpollServer` |
| `TlvPacket` | packets, bytes and signed chars, what the client writes | `tlv/*.c` |
| `TlvServer` | receive buffer and scan | `tlv/server_tlv.c` |
| `CrcItuT` | the table-driven register, and the division it stands for | `tlv/crc-itu-t.[ch]` |
| `Comport` | both copies' settings of a port, as functions of a `termios` record | both `comport.c` |
| `ComTool` = `Comport` + the loop | the serial terminal | `pro_comporttool/main.c`, `comport.c` |
| `PppConnect` | operator and dial script, as functions | `sim5360/ppp_connect.c` |
| `MC*` | values of the constants | |
| `*Proofs` | theorems and proofs | |

Two compositions cross module borders. `EpollStart` ends where `SmsControl` begins: its
`GivesClient` and `ClientForGood` are what `Init` of `SmsControl` assumes about the
connection. `SmsControl` and `SmsProcedures` meet in `ModemJobs`: the control program, whose
threads take, cancel and give back the slot, has one job on the serial line at a time
(`OneJobAtATime`, a refinement with the set of jobs as its mapping), and the procedures carry
out one such job (`JobsInOrder`). `DialogueKept`, the property
that `SmsProcedures` implements `AtTest`'s specification, carries what `AtTest` promises to
each of the procedures' calls.

### How state and actions correspond to the code

**`SmsControl`.** `req`, `exc`, `srcfd`, `occupy` are the fields of `CTR`; `lock` is its
mutex, with the extra value `"orphaned"` for a mutex whose owner died. `ctr` and
`worker[t]` are program counters; a location stands for the load or store that comes
next. Every load of a shared field that a branch depends on and every store is an
action of its own, since the fields are plain `int`s read outside the lock and the
makefile sets no optimisation (so the two tests of `exc` at lines 198 and 217 are two
loads, and `req > exc` at 220 is a load of `req` into `reg`, `CtrTestPrio`, and then one of `exc`,
`CtrCompare`). `fun_rvmsg` threads live in *slots* (`Readers`): `pthread_cancel` marks a slot as
cancelled, and `RvDie` delivers it at any later point, because the thread asks for
`PTHREAD_CANCEL_ASYNCHRONOUS`. With `PromptCancel` a cancelled thread takes no further step,
which is what `usleep(1000)` after the cancellation counts on; without it, it may take
any number. The AT procedures are single steps that return (`RvJudged`, `RvListed`,
`RvWaited`, `MsgJudged`, `MsgSent`), fail, or end the process (`GiveUp`). Client lines are
the three commands and `"text"` for all else; lines that arrive together are read as one
string, which is no command.

**`AtTest`.** `at`, `cmd`, `i`, `reply` are `AT_test`'s position, argument, counter and
buffer. `asked` and `line` are the modem's queue and the serial line; each text carries,
as a history, the command it answers. `disturbed` is a history variable too: since the
call began some answer was late, was read in pieces, or is one to an earlier call.
`Caller` is any procedure that calls `AT_test`, reads or writes the line itself, is
cancelled, or ends the process.

**`SmsProcedures`.** One action is what a procedure does between two calls of `AT_test`: it looks
at `reply` and asks the next command; `proc` names the procedure, `cmd` the command it
waits for. `todo` is the rest of the listing (`list_msg_txt`'s array) or the notice
(`wait_newmsg_txt`), as the texts that were read; `Index` is what `seek_AT_str` and `atoi` make of
the first of them: the number after the first colon, or after the first comma,
whatever text that is in. `n` is the count that `try_times` compares, which is
one counter that every procedure sets anew. `Cancel` is the cancellation of
a reader (`SmsControl`'s `RvDie`) wherever it is; a sender is not cancelled while it works.
`SmsModem` keeps a message per index, gives each message a number, and is in text
entry (`entry`) after the prompt. `strays` counts the reads that left something on
the line or on its way: a late answer, one in pieces, a cancelled dialogue. `SendText` writes
the message or something else: the array it is sent from is not initialised and gets no
terminator (`at_msg.c` 221, 260), so what `strlen` finds in 278 and 280 may be more than the message,
or less by its last byte. The modem takes what is written up to the Ctrl-Z, or gives up the
text when there is an escape in it; `spoilt` remembers what of it was not the message.

**`EpollLoop`** keeps `evlist`, the rest of the current batch, as a set (the order of a
batch is the kernel's), each event with the connection it was about as a history.
`owner` is the descriptor table and, since every descriptor but the listening one is in
the epoll set until it is closed, the epoll set as well. `Enter` separates the test of the
stop flag from `epoll_wait`. Descriptors are the lowest free number, as POSIX says. A reset
(`ClientResets`) may come at any time, also when data was sent and not yet read (`"torn"`): the next
batch then reports an error, and `HungUp` closes the descriptor with what it holds; the handler
of an event that was copied before still reads it.

**`TempServer`** has `arg_fd` and `p_over`, the shared frame; `Return` gives it up, after
which it may hold what later calls leave there, or the old contents: the number of any
descriptor, the listening socket's (0 here; `accept` is called with it) among them, or `junk`, which
stands for all other numbers. `target[c]` is what that thread's `read()` was called on: a
connection, which it keeps even when the number is closed, SQLite's file, or nothing that can be
read. When a late thread has closed the listening socket, `accept` fails from then on, and clients are
refused. An attribute that cannot be set (`AttrFails`, 140-155) ends the start without a thread and
without a wait. `db` is SQLite's lock. `late` is a history variable: at some end of main's
two-second wait a thread was still busy.

**`TlvServer`** has one action per branch of one iteration of `unpacktlv`. The buffer is a
function on `0..BufSize-1` whose bytes beyond `remain` keep what was there, as they do in
the code. A packet that is found right is printed (`Printed`) whether or not all of it was read:
if not, the size that `memmove` gets is negative, and that is the end of the server (`Negative`);
if it is longer than `tep[10]`, the server may end before it prints (`Overrun`). Reads beyond
the buffer (`Overread`) compare with any byte. The checksum is a
constant operator `Crc`: the proofs hold for every checksum, TLC uses the real one.

**`ComTool`.** `at` is `main`'s position; `Enter` separates the test of `sig_exit` from `select()`.
`pending` is what `read()` on standard input would return, `stdio` the buffer of the `FILE`:
a terminal gives `read()` one line, a pipe all there is. `Take` is `databuf[strlen(databuf)-1] = '\0'`,
which drops the last character whether it is a newline or not. `failed` is a history of
what went wrong.

## 3. What is checked

Every run below is checked by TLC without error, or, for those marked *refuted*, TLC finds
the stated sentence of the source violated. For every property of a passing run
`PROJECT.json` names a mutant: a definition `Fault...` beside the original that changes it
the way a slip in the code would, under which TLC reports the property violated.

| Run | Bounds | Shows |
|---|---|---|
| `control_safe` | 2 reader slots, 1 line in the socket, late cancellation allowed | `CriticalSections`, `SrcfdBeforeWork`, `PriorityNeverDemoted` |
| `control_prompt` | the same, prompt cancellation, fair scheduler | `SlotOwned`, `OneJobAtATime`, `SendReachesClient`, `StopHonoured` |
| `control_illegal` | | *refuted*: "Thread is illegal!" is unreachable |
| `control_preemption` | fair | *refuted*: "higher priority than the running one: interrupt it" |
| `sms` | 2 places in the modem, 2 events (messages and disturbed reads together), attempts 4/3/2 for the code's 10/10/5, 3 commands held by the modem | `TypeOK`, `DialogueKept`, `DeletedWasPrinted`, `SentMeansSent`, `NewsPrinted`, `JobEnds`; `DialScript` |
| `sms_deleted` | 3 events | *refuted*: "read the messages one by one" |
| `comtool` | buffer of 3, 4 characters typed, a device that talks without limit, two settings found | `NothingLost`, `NothingHidden`, `PortSettings`, `StopHonoured`, `LinesTaken` |
| `epoll` | 3 connections on 2 descriptors | `EventsCurrent`, `OneDescriptor`, `ReadingKept`, `PendingAccepted`, `ReadingTaken`, `StopHonoured` |
| `start` | 3 connections on 2 descriptors | `GivesClient`, `ClientForGood`, `StartReturns` |
| `temp` | 2 connections, 2 descriptors, threads of any speed | `StoredOnce`, `OwnConnection`, `NeverBusy`, `NothingLeaks`, `ReadingKept`, `AcceptsAgain` |
| `tlv` | up to 4 messages of 9 kinds on a connection, or what the client writes, or a reading too long to be awaited behind other bytes; every cut into reads, buffer of 16 bytes; the checksum on all messages of two bytes | `RoomToRead`, `AcceptedInOrder`, `NoTwoSkipped`, `UnpackReturns`, `TableDivides` |
| `tlv_stale` | one connection's worth of noise and the first bytes of a packet, buffer of 64 | *refuted*: "this is the right data" |

`TableDivides` and `DialScript` are about pure functions and are decided once, in the initial
states of the run they stand beside. The type invariants of the modules with a `TypeCorrect` theorem
are proved rather than checked in each run.

### What the properties of the procedures except

* `DeletedWasPrinted` and `SentMeansSent` hold until a read left something
  behind (`strays`). Nothing in the protocol ties an answer to its command, so
  after that an answer may be taken for another's; `sms_deleted` shows the worst of it.
  `DialogueKept`, `TypeOK` and `JobEnds` hold with late and partial answers, too.
* `SentMeansSent` does not say that what was sent is the message, and says "sent once" except where
  what was written in its place made the modem abandon it: see `SendText` in section 2.
* `NewsPrinted` excepts a job that was cut off, and an exit.
* `JobEnds` excepts waiting for news, which is meant to last, and the reading of a message
  that is no longer there: `read_msg_index_txt` never counts that down.

### What the properties of the others except

* `LinesTaken`: a port that hung up, and one that never stops talking. `NothingHidden` is about a
  terminal; with a pipe, lines do stay in stdio's buffer while `select()` waits.
* `NothingLost` follows a character into `write()`. What `write()` took and the line has not sent is
  discarded by the `tcflush` of `closeComport` (`pro_comporttool/comport.c:303`).
* `ReadingTaken` and `StartReturns`: a connection that is reset before its turn is closed with what it
  sent; the first says that it is closed, and does not stay.
* `AcceptsAgain`: no descriptor is left, or a late thread has closed the listening socket.
* `AcceptedInOrder`: the reading that the server dies of (`tlv_stale` shows one). `NoTwoSkipped` is about
  packets of up to 12 bytes; longer ones are not awaited, and lost when they come in parts.

### Why the bounds are enough

* *Two reader slots*: a cancelled reader and its replacement alive together. A third
  would need a second preemption before the first victim dies and adds no new pair.
  One line in the socket is enough for every interleaving of a command with the
  threads; two (in the refuting runs) allow lines to be read as one.
* *Two places and two events*: a list of two messages, or a message listed and one
  announced, or one message and one late answer, each at any moment. Three events are
  needed for a deletion to hit a stranger: the message, the late answer, the message that takes
  its place. The attempts are fewer than the code's, but every limit is still
  reached and differs from the others; the theorems hold for all. Index 1 is also what
  `+CREG` says of a registered modem, index 2 what it says of one that is searching.
* *A buffer of three* takes lines of none and one character, and cuts those of two and more; four
  characters are two lines, or one too long and what it leaves behind.
* *Three connections, two descriptors*: a descriptor is reused while an event of its
  former owner may still be in the batch, and one connection finds no descriptor.
  The threaded server has two connections with two threads, which is what it takes for
  one to find the other's descriptor in the frame; two descriptors can be exhausted
  by one leak and one thread. The listening socket has a third, which nobody gives back but a
  thread that found its number in the frame.
* *Buffer of 16*: the real one has 64 bytes. The buffer has to hold what is kept between
  reads (at most 11 bytes, `RoomToRead`) and more; a small one makes packets meet its end
  more often. `BufSizeAssumption` states the range for which the model is exact (below 126
  a length below the fixed size always counts as too long), and the proofs cover all of
  it, 64 included. The messages hold a header byte inside a value, a lone header, a length
  below the fixed size, a length above what is awaited, an unknown tag and a longer value.
* *Two bytes* drive the CRC register through all 65536 values, with all 256 bytes next.
* *Files of five characters* over three, one of them the newline, hold the line looked for first,
  last, between others, twice, and not at all, with new text shorter and longer. `fgets` takes 3
  characters at once (`Room`, 1023 in the code), so that lines of four and five come in pieces and
  the string looked for may lie across two. `relay_loca` is each of the two values and another.
  The dialler's operators are looked for behind 0 to 4 blanks, with sizes 0 and 3.

### Fairness

* `SmsControl`: weak fairness of each thread, of cancellation being delivered. None for the
  client, for a message arriving (`RvWaited`), or for the unbounded loops of
  `list_msg_txt` and `sendenglish`, which only the modem can end (`RvListed`, `MsgSent`). Mutexes
  are not fair: weak fairness of a thread that waits for one promises nothing while
  others keep taking it; `SendReachesClient` says where that shows.
* `SmsProcedures`: the procedures and `AT_test`; `select` returns by its time-out at the
  latest. The modem deals with the commands it was given, be it by silence. None for the
  network, cancellation or jobs.
* `EpollServer`, `EpollStart`: the process; an event that is ready is returned by
  `epoll_wait`. None for clients or signals.
* `TempServer`: each thread and `main`. None for clients.
* `TlvServer`: `unpacktlv` only.
* `ComTool`: `main`, including `select`'s time-out. None for the user, the device or SIGINT.

`CHECK_DEADLOCK FALSE` is set where the system really stops: the process has exited, the
modelled clients are used up, or everybody waits for a client.

## 4. What is proved

All proofs are checked by TLAPS for every value of the constants that satisfies the
assumptions named in the modules (`ReadersAssumption`, `ConnsAssumption`, ...).

**`SmsControlProofs`.** `TypeCorrect`; then `CriticalInv`, the invariant

    IInv == TypeOK /\ CriticalSections /\ SrcfdBeforeWork
                /\ Posted /\ Requested /\ SlotFree /\ NotCall

The last four conjuncts are what makes the unlocked tests harmless: what `main` found in the
record stays true up to the write it is about to make, because `srcfd` is already
written (`Posted`), `req` is what the command asked for or was cleared (`Requested`), nobody
but `main` takes a free slot (`SlotFree`), and workers only
ever clear `exc`, so it never rises behind main's back, not even between the two loads of
`req > exc` (`NotCall`). From it:
`CriticalSectionsHold`, `SrcfdIsReady`, and the action properties `PriorityOnlyRises` and
`OrphanedForGood`: a reader that dies in its critical section orphans
the mutex, and an orphaned mutex lets nobody in, ever. None of them needs an assumption about
cancellation.

With `PromptCancel`, `OInv` adds that the only reader that still runs is the one created last
(`LastReader`) and that none runs between a cancellation and the next creation
(`NoReader`); it yields `SlotIsOwned` and `SerialIsExclusive`, for any number of slots, and
`CallKeepsSlot`: a call that was granted the slot keeps it for good, since nothing serves it and
nothing ranks higher. `OneJobHolds` is the refinement of `ModemJobs`. `OneAtJob` says that two jobs
would need the slot for two owners or two readers; `JobsMove` names the four ways in which a step
may change the set of jobs; each step of `main` and of a worker is one of them. Without
`PromptCancel` these are false: that assumption is the one the 1 ms pause stands for.

**`SmsProofs`.** First about `AtTest` with any callers, any modem and any limits: `TypeCorrect`, from
`TInv`, which adds that the count reaches its limit only in a process that exits; and
`AnswerIsOwnHolds`. `AnswerIsOwn` is not inductive: `OInv` says where the answer is meanwhile. While the
call is undisturbed, either the command is still with the modem and the line is empty, or
all that is on the line answers it (`OwnLine`), and between calls nothing is on its way
(`Quiet`). `AttemptsRunOut` is a call's variant: no step of it but the last leaves
`AttemptsLeft` where it was, and no caller or modem raises it, so a call takes at most three steps for
each of its attempts. With `DialogueKept` this is true of each call of the procedures.

Then that the procedures are such callers and `SmsModem` such a modem: `DialogueKeptHolds`,
a refinement in the same variables, so the mapping is the identity. What has to
be shown is that every command asked is one of `Commands`, whose index comes out of
texts that were read; that nobody reads or writes the line during a call; and that every
answer is one of `Answers`. `DInv` says the list of messages is never empty where its head is
used, that a notice is there where its index is taken, and that the procedures which use the
line themselves do so only while `AT_test` does not. `ProceduresGetAnswers` follows: the
promise of `AtTest` holds of every call in the sms program. (`AnswerIsOwn` is a theorem and not a
property of a run: it says until when an answer cannot be another's, and what happens then is
what the runs are about.)

Last, the two properties about messages: `DeletedWasPrintedHolds` and `SentMeansSentHolds`, the
second whatever the text is that is written. Both
rest on order, not on what any one action does, and their invariant has to say what the
whole protocol knows at each point. `UInv` is `DInv` together with, while `strays = 0`,

    Order == LineInv /\ AskedInv /\ ToldInv /\ SentInv /\ gone \subseteq printed

Between calls only notices are on the line, and a command is followed by its answer
(`LineInv`); a reading and a deletion are asked by one procedure each, with the index of the
text at hand (`AskedInv`); an answer that shows a content shows the content of that index,
and whatever does not answer "OK" to a deletion leaves a message there that was printed
(`ToldInv`); the modem is in text entry exactly between the prompt and the text,
and a text is accepted once per job (`SentInv`). `ReadOneByOne` is `DeletedWasPrinted` without
`strays = 0`, and a run refutes it.

`ProceduresTypeCorrect` is about the procedures' and the modem's own variables, and says more than
types: messages have distinct places (`StoreInv`), the texts on the line and
what is printed name messages that came (`KnownInv`), a count of attempts stops at its limit
(`CountInv`). The last needs `TriesAssumption`, that `MaxLists` is not above `MaxTries`, as with the
code's 5 and 10: in `sendenglish` one variable counts both the prompts and the confirmations, so
with a higher first limit it would enter the second loop past the equality test that ends it.
From it comes `LoopsRunOut`, the variant of the loops for judging, listing, deleting and sending: each
turn brings `TurnsLeft` down, which counts the attempts left and, within one, the commands still ahead. The loops
left out are those that do not count: `read_msg_index_txt`, the set-up of the wait, and
`sendenglish` up to the prompt. `JobsInOrderHolds` is the procedures' side of `ModemJobs`.

Beside them, the dialler. `OnlyThatLineHolds`: for every file without zeros, every string, every
new text and every `Room` of `fgets`, `modify_file` keeps what stands before the place where the string is first found
in a piece of a line, puts the new text, then what follows the piece, then zeros; and changes nothing where there
is no such place or `relay_loca` is neither of the two. The proof follows each character through the three
writes (`Rewritten`). `OperatorFoundHolds`: for any number of blanks and any size given, zero and negative ones
included: only a size that is one of the counts on the way through the blanks is compared with. `DialScriptHolds` is
the instance that the run checks.

**`EpollLoopProofs`, `EpollServerProofs`, `EpollStartProofs`.** `LoopInv`, proved once for the common loop,
adds to `EventsCurrent` that a batch has one event per descriptor (`OneEvent`) and that a
connection in the table is one that connected, under one descriptor (`Owned`). The server
has `SInv`, which adds how often a reading is stored and that one not yet taken is stored no
more than once (`Kept`); it yields
`EventsCurrentHolds`, `OneDescriptorHolds` and the refinement `ReadingKeptHolds`. The acceptor has
`StartInv`: once chosen, the client is in the table, for good, and was ready;
`GivesClientHolds` and the action property `ClientForGoodHolds` follow.

**`TempServerProofs`.** `StoredOnceHolds` rests on `SInv`: the bytes of a connection are carried by
at most one thread (`OnlyCarrier`). `ReadingKeptHolds` is the refinement: `KInv` adds that a
connection has no thread before `main` creates it (`Unserved`), and every step maps to a step
of `Reading` or to a stutter. Both hold for threads of any speed, although late threads do read
from and close each other's descriptors. `OwnConnectionHolds`, `NeverBusyHolds` and
`NothingLeaksHolds` say what holds until some thread was late: `PromptInv` is
`~late => OInv`, and `OInv` describes the frame as a mailbox with one thread at a time
(`OneThread`, `Holds`, `Given`, `Closes`). It is inductive only because `late` never becomes
false again (`LateStays`).

**`TlvServerProofs`.** `TypeCorrect` and `RoomToReadHolds` for every checksum, every set of streams and
every buffer size in the assumed range: every index stays inside the buffer, and at most
`MaxKept` bytes are kept. They are proved as one invariant, since the type of a shifted
buffer depends on `remain` and `current` and the room on the length that was awaited.

Then what becomes of a stream, for every checksum, however it is cut into reads. What the run
checks as `AcceptedInOrder` and `NoTwoSkipped` is not true for every checksum: a header
byte inside a value may start a packet whose checksum happens to fit. `Plain` therefore says
what a connection must carry: packets no longer than what is awaited and other traffic, no header byte
behind the first byte of a message, and no other message that starts like a reading.
`NothingInvented` and `SkipsNoTwo` say that on such a connection every reading accepted was sent, in order and
once (`CarriedInOrder`, without the exception of `AcceptedInOrder`), and `NoTwoSkipped` holds; header bytes inside
values remain with TLC. `HeldInv` places the buffer in the
stream: it is the piece behind what was passed over, the wire is the rest, and a process that
waits for more has too little of a packet to judge (`Waiting`). `PlainInv` says that the
readings accepted are those of an increasing choice of messages, all passed; that the first message
is chosen if it is a reading; and that of readings alone no two in a row are left out (`NoneMissed`). One can
be, because after a packet the scan resumes at index 1, behind the header that would be next.
`AcceptedFromStream` needs no such condition: on any stream and with any checksum, while the server lives each
reading accepted stands in a packet of that very stream, header, tag, length and checksum one behind the other, and the
packets do not overlap (`SourceInv`, by `HeldInv`). The checksum *is* taken from what an earlier packet left
behind `remain` when a packet is longer than what was read, and such a packet may be accepted: `tlv_stale` shows it.
What the theorem adds is that the server dies in that very step, so that no reading accepted before was of this kind
and none comes after.
`ScanShortens` is the variant of `unpacktlv`'s loop, as an action property: every turn that does not
leave it brings `Left` down in the natural numbers. It is what `UnpackReturns` rests on; that fairness then ends the
loop is left to TLC.

**`ComToolProofs`.** `FramingIsAsked`: for all settings a port may be found with and all that may be
asked for, the framing that `setComport` makes depends on what is asked alone. It is what makes
`PortSettingsHolds` (from `PortInv`) true of every port. `FlowIsAsked` says the same of the modem's
copy, as long as software flow control is not asked for; `SoftwareFlowIsNotSet` says what happens
when it is. `NothingHiddenHolds` rests on `HiddenInv`: from a terminal, stdio's buffer is empty,
or `fgets` is at it and it holds one line whose newline is its last character (`OneLine`).

`NothingLostHolds` needs to know what dropping the newlines from a text does to its
parts. `Chars` is a fold over the text, and no installed prover can instantiate the library's induction theorems;
`Induction` says of a set of numbers what they say of a predicate, from numbers being well-founded, and `CharsConcat` is
proved with it. Then
`LostInv` follows a character from the terminal through stdio and the frame to the device.

**Only model-checked.** Liveness (`SendReachesClient`, `StopHonoured`, `NewsPrinted`, `JobEnds`, `PendingAccepted`,
`ReadingTaken`, `StartReturns`, `AcceptsAgain`, `UnpackReturns`, `LinesTaken`), which is beyond this prover;
`TableDivides`, a computation over all messages of two bytes; and `AcceptedInOrder` and `NoTwoSkipped` on
connections that are not `Plain`, which depend on the real checksum.

## 5. Where the source says otherwise

Four runs refute a sentence of the source:

* `control_illegal` – `exc` is loaded at `sim5360/pthread.c:198` and again at 217. If the worker clears
  it in between, both tests fail and `main` ends the process with "Thread is illegal!".
* `control_preemption` – a reader cancelled between lock and unlock leaves the mutex locked
  (no cleanup handler); `main` then waits at line 225 for ever.
* `sms_deleted` – `del_msg` (`sim5360/at_msg.c:466`) repeats `AT+CMGD` when no answer came in time. If the
  modem carried out the first one late, the message that has taken the index since is
  deleted, unread, against "read the messages one by one" (645).
* `tlv_stale` – a length of 13 or more is not awaited (`tlv/server_tlv.c:221`) and nothing else compares
  it with what was read. If the bytes an earlier packet left in the buffer fit the checksum, the
  server says "this is the right data" (260), prints a reading that nobody sent (277), and
  dies of `memmove` with a negative size (279). The run has noise that leaves the bytes, and
  then the first bytes of a packet.

Seen while modelling, without a run. **Control program:**

* `"call"` (priority 3) has no thread. It takes a free slot and never gives it back
  (`CallKeepsSlot`), and it preempts a reader or a running send, after which `exc` becomes
  `PRI_SENDMEG`: a send that nobody asked for starts. The comment at
  `sim5360/pthread.c:222` reckons with one case only.
* A worker that finishes between main's post and its grant clears `req`; the request is
  lost (`sim5360/pthread.c:206`).
* `req > exc` loads `req` first (`sim5360/pthread.c:220`). If the reader finishes before `exc` is loaded, a
  second request to read compares 1 with 0: `main` cancels the reader, and the send that nobody asked for
  starts here, too.
* `occupy` is set only after `judge_modulestate`; until then `main` still reads the socket
  and may take the message content for a command.
* At the end `closeComport` has freed the structure that `Comport_term` then uses and frees
  again (`pthread.c:266`, 267).
* `SIGINT` does not end the wait for a client in `epoll_server_start`, which prints that it
  does (`sim5360/epoll_sever.c:87`): the handler sets main's flag, the loop tests its own,
  which only SIGTSTP sets. After SIGTSTP it returns 0, and `main` takes standard input
  for its client.

**SMS procedures:**

* A late answer, or one in pieces, is taken for the answer to the next command (`at_msg.c:98`),
  although `AT_test` is to "save return value" (73). `AnswerIsOwnHolds` says until when that cannot happen,
  `sms_deleted` what comes of it.
* `sendenglish` counts before it looks: an "OK" that comes with the tenth read is reported as a failure
  (`at_msg.c:294`), and who tries again sends the message twice.
* The text is copied without a terminating zero into an uninitialised array (`at_msg.c:221`,
  260), of which `strlen` then finds the end (278): with a zero right behind the message its last
  byte becomes the Ctrl-Z, otherwise what the stack holds is sent along, or instead of being
  sent the text is abandoned at an escape in it. `sendenglish` returns 0 ("success") all the same.
* An answer that contains "ERROR" anywhere, be it in a message's text, makes `AT_test`
  repeat the command, at most until the process exits.
* The number after the first comma decides whether the modem is registered (`at_msg.c:177`): a
  notice with index 1 or 5 read along with the answer will do.
* A notice that comes between the listing and the wait is read along with another answer and
  dropped (521); its message stays until the next listing. Messages that were read
  but not yet printed when a job is cancelled are no longer unread, and are not
  listed again.
* A message that cannot be read is tried for ever: `loops--` stands behind `continue` (342).

**Serial port, terminal, dialler:**

* `set_flowctr` sets the input flags `IXON|IXOFF|IXANY` in `c_cflag` for "software flow control"
  (`sim5360/comport.c:186`), where they mean other things; `SoftwareFlowIsNotSet` says what comes
  of it. No caller asks for it.
* The terminal spins after the end of its input, drops a character of a line of `ARRMAX-1` or
  more, drops what a short `write` leaves, and does not get to its input once the port has hung up
  or while it does not stop talking (`pro_comporttool/main.c:138`).
  At the end of the input `strlen(databuf)-1` is an index before the array
  (`pro_comporttool/main.c:151`).
* `id_isp` looks at the first digit of the network code only to tell 2 (China Tietong) from the
  rest, so 460-11 counts as 460-01. `modify_file` has no `return` for a text it does not find, overwrites
  the rest of the line it changes, its newline included, and computes a wrong place in a line that holds
  zeros (`sim5360/ppp_connect.c:72`). The test for a line that is too long (51) never fires, since
  `fgets` always ends what it reads with a zero there: a longer line is taken in pieces, a
  string that lies across two is not found, and behind the new text the line goes on with its next piece.
* `id_isp` compares its size with the count of blanks only behind a blank (`sim5360/ppp_connect.c:146`):
  with a size of zero it never stops.

**Temperature programs:**

* `SIGUSR2` does not end the threaded server: the handler compares `g_cilentstop`, not the
  signal's number (`wujinlong/server_pthread.c:31`; `wujinlong/makefile:25` sends it). The TLV
  server has the same handler.
* A client that sends and is reset before the server turns to it has its reading thrown away
  unread (`epoll_server/epoll_sever.c:150`; the same in `sim5360/epoll_sever.c:103`, where it would have
  become the SMS program's client): `EPOLLERR` or `EPOLLHUP` closes the descriptor whatever it holds.
* A thread that is late may find the listening socket's number in the frame and close it
  (`wujinlong/server_pthread.c:125`); then nobody is accepted any more (`AcceptsAgain`).
* `write(fd, tep, strlen(tep))` (`tlv/client_clv.c:139`): a packet with a zero byte (21.00 degrees has one) is cut
  there and its reading lost, and one without is followed by whatever the stack holds.
* `epoll_server`: a client that leaves without a reading is never closed
  (`datadell` < 0 → `continue`): its descriptor is lost, and `epoll_wait` returns at once
  from then on.
* `addrlen` is not initialised before `accept` (`AcceptLoses`, `AcceptFails`).
* `tlv/crc-itu-t.c`: line 10 writes x^16 + x^12 + x^15 + 1 for 0x1021, which is
  x^16 + x^12 + x^5 + 1; `TableDivides` is about the latter.

## 6. What is not modelled

* `thread_arg` of the TLV server (`tlv/server_tlv.c:289`) is a variable-length array that the
  code writes beyond when it prints a packet with an unknown tag; nothing reads it. The model
  takes the stack as large enough.
* `char` is taken as signed, as on x86.
* What `tcflush` in `closeComport` (`pro_comporttool/comport.c:303`) discards: the output that `write()` took
  and the line has not sent when the terminal ends.
* The unterminated buffers of both `datadell` (`wujinlong/server_pthread.c` 42-71,
  `epoll_server/datadell.c` 10-41): what `read()` returned is searched with `strstr` and `strlen` although
  nothing ends it. The bytes of a connection are taken as one reading, well formed.
* What SQLite does once its descriptor was closed under it, or read from, by a late thread.
* Of a message text: what exactly is sent in its place (one other text stands for all), an array
  without any zero, and the zero and two bytes that are written behind the Ctrl-Z, which the modem
  puts before the next command (it may refuse or ignore any command in the model).
* The layout of what is printed, the logging, name resolution; of a termios record what is
  not framing or flow control.
* Answers of the modem are cut between result codes, not inside one; texts of messages are
  numbers, so a message that contains "ERROR" or "OK" is not among them.
* `Comport_term`, which `sim5360` calls on a structure that is already freed: what it does then
  is not defined.
* `set_apn_call`, which only formats two strings and returns nothing, what is
  commented out behind it, and `sendchinese`, which does nothing.
* The sampling loops of `wujinlong/client.c` and `tlv/client_clv.c`. Each is one process that
  shares nothing with others: what it does to a server is modelled there. Each round opens the
  sensor's directory and file and never closes the file (`client.c:68`), so descriptors run out
  and a null pointer is read in the end; a signal just before `sleep(30)` is noticed after it; the
  period given by `-t` is not used. A model would count to the limit of descriptors and
  say no more than this sentence.
* `un_change_cn.c` (a wrapper of iconv), `socket.c` (an exercise), `test*.c` (manual tests).

## 7. Plan

In the order of importance; all of it is done but what is listed below.

1. `SmsControl` with its proofs – the program with the most threads.
2. `TempServer`, `Reading`, the refinement and its proof.
3. `EpollLoop`, `EpollServer`, `EpollStart`, and their proofs.
4. `TlvPacket`, `TlvServer` with its proofs; `CrcItuT`.
5. `AtTest`, then `SmsModem` and `SmsProcedures` on top of it, the refinement between them and
   its proof; deletion and sending, and their proof.
6. `Comport`, `ComTool` with its proofs; `PppConnect`.

What remains:

* The life cycle of the `comport` structure in `sim5360`, once `pthread.c:267` is decided.
