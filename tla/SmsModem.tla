------------------------------- MODULE SmsModem -------------------------------
(***************************************************************************)
(* The SIM5360 as the procedures of sim5360/at_msg.c see it: not part of   *)
(* the repository, modelled from what they send and what they look for in  *)
(* the answers.  It keeps messages under indices, tells of a new one with  *)
(* a +CMTI notice once AT+CNMI asked for it, and takes a message to send   *)
(* after the prompt of AT+CMGS: until the text is complete everything      *)
(* written, commands too, is part of it.  It may refuse or lose a command. *)
(* A text whose number is 0 is the message, any other is something else.   *)
(***************************************************************************)
EXTENDS AtTest, FiniteSetsExt

CONSTANTS
    Indices,        \* the places of its memory
    MaxEvents,      \* bound: messages that arrive, and reads that leave
                    \* something on its way (see SmsProcedures)
    Statuses,       \* what +CREG may say of the registration
    Strengths       \* what +CSQ may say of the signal

ASSUME IndicesAssumption == Indices \subseteq Nat \ {0} /\ MaxEvents \in Nat

Txt(kind, arg) == [kind |-> kind, arg |-> arg]
Eol     == Txt("eol", 0)
Ok      == <<Eol, Txt("OK", 0)>>
Error   == <<Eol, Txt("ERROR", 0)>>
Then(kind, arg) == <<Txt(kind, arg)>> \o Ok
Listing(places) ==          \* one line for each, in ascending order
    LET nth(k) == CHOOSE x \in places : Cardinality({y \in places : y <= x}) = k
    IN  [k \in 1..Cardinality(places) |-> Txt("+CMGL", nth(k))] \o Ok

(* Of what AtTest allows a modem, what this one answers and tells.         *)
ModemAnswers ==
    {<<>>, Ok, Error, <<Txt(">", 0)>>, Then("READY", 0), Then("+CMGS", 0)}
        \cup {Then("+CREG", s) : s \in Statuses} \cup {Then("+CSQ", r) : r \in Strengths}
        \cup {Then("+CMGR", m) : m \in 1..MaxEvents}
        \cup {Listing(places) : places \in SUBSET Indices}
ModemNotices == {Txt("+CMTI", x) : x \in Indices}

ASSUME ModemAssumption == ModemAnswers \subseteq Answers /\ ModemNotices \subseteq Notices

VARIABLES
    mem,            \* the message under each index; 0: none
    unread,         \* the indices whose message is "REC UNREAD"
    came,           \* the number of messages that came
    notify,         \* AT+CNMI=2,1 is set
    entry,          \* "no", or it takes message text: "clean", or "spoilt" by
                    \* something other than the message
    sends,          \* history: messages sent in the current job (2: or more)
    spoilt,         \* history: what was not as it should be with one of all
                    \* taken: a "command" in it, another "text"
    gone,           \* history: messages deleted
    strays          \* history: reads that left something on its way

memory    == <<mem, unread, came, gone>>
sending   == <<entry, sends, spoilt>>
modemVars == <<memory, notify, sending>>

Stored == {m \in 1..MaxEvents : \E x \in Indices : mem[x] = m}

ModemTypeOK ==
    /\ mem \in [Indices -> 0..MaxEvents] /\ unread \subseteq {x \in Indices : mem[x] # 0}
    /\ came \in 0..MaxEvents /\ Stored \cap gone = {} /\ Stored \cup gone = 1..came
    /\ notify \in BOOLEAN /\ entry \in {"no", "clean", "spoilt"}
    /\ sends \in 0..2 /\ spoilt \subseteq {"command", "text"}

ModemInit ==
    /\ mem = [x \in Indices |-> 0] /\ unread = {} /\ came = 0 /\ gone = {}
    /\ notify = FALSE /\ entry = "no" /\ sends = 0 /\ spoilt = {}

-----------------------------------------------------------------------------
(* One command after another; c is the one at hand.                        *)

Refuse == Reply(Error) /\ UNCHANGED modemVars
Lose   == Reply(<<>>) /\ UNCHANGED modemVars

Status(c) ==
    /\ \/ c.name \in {"ATE0", "AT", "AT+CMGF", "AT+CPMS"} /\ Reply(Ok)
       \/ c.name = "AT+CPIN" /\ Reply(Then("READY", 0))
       \/ c.name = "AT+CREG" /\ \E s \in Statuses : Reply(Then("+CREG", s))
       \/ c.name = "AT+CSQ"  /\ \E r \in Strengths : Reply(Then("+CSQ", r))
    /\ UNCHANGED modemVars

SetNotify(c) ==
    /\ c.name = "AT+CNMI"
    /\ notify' = TRUE
    /\ Reply(Ok) /\ UNCHANGED <<memory, sending>>

ListUnread(c) ==
    /\ c.name = "AT+CMGL"
    /\ Reply(Listing(unread))
    /\ unread' = {}
    /\ UNCHANGED <<mem, came, gone, notify, sending>>

ReadMessage(c) ==
    /\ c.name = "AT+CMGR"
    /\ IF c.arg \in Indices /\ mem[c.arg] # 0
       THEN Reply(Then("+CMGR", mem[c.arg]))
       ELSE Reply(Ok)
    /\ unread' = unread \ {c.arg}
    /\ UNCHANGED <<mem, came, gone, notify, sending>>

DeleteMessage(c) ==
    /\ c.name = "AT+CMGD" /\ c.arg \in Indices
    /\ mem' = [mem EXCEPT ![c.arg] = 0]
    /\ gone' = gone \cup ({mem[c.arg]} \ {0})
    /\ unread' = unread \ {c.arg}
    /\ Reply(Ok) /\ UNCHANGED <<came, notify, sending>>

Prompt(c) ==
    /\ c.name = "AT+CMGS"
    /\ entry' = "clean"
    /\ Reply(<<Txt(">", 0)>>) /\ UNCHANGED <<memory, notify, sends, spoilt>>

Carry(c) ==
    \/ Status(c) \/ SetNotify(c) \/ ListUnread(c)
    \/ ReadMessage(c) \/ DeleteMessage(c) \/ Prompt(c)

(* In the middle of a message.  Each line of it is answered by a prompt;   *)
(* the message text ends with a Ctrl-Z, which sends all that was written,  *)
(* unless what is not the message holds an escape, which abandons it.      *)
Wrong(c) == (IF entry = "spoilt" THEN {"command"} ELSE {})
                \cup (IF c.arg # 0 THEN {"text"} ELSE {})

Enter(c) ==
    /\ IF c.name = "text"
       THEN \/ /\ sends' = IF sends = 2 THEN 2 ELSE sends + 1
               /\ spoilt' = spoilt \cup Wrong(c)
               /\ Reply(Then("+CMGS", 0))
            \/ /\ c.arg # 0 /\ spoilt' = spoilt \cup Wrong(c) /\ sends' = sends
               /\ Reply(Ok)
            \/ Reply(Error) /\ UNCHANGED <<sends, spoilt>>
       ELSE Reply(<<Txt(">", 0)>>) /\ UNCHANGED <<sends, spoilt>>
    /\ entry' = IF c.name = "text" THEN "no" ELSE "spoilt"
    /\ UNCHANGED <<memory, notify>>

Work ==
    /\ asked # <<>>
    /\ IF entry = "no" THEN Refuse \/ Lose \/ Carry(Head(asked)) ELSE Enter(Head(asked))

(* A message comes in: the first free place takes it.                      *)
Arrive ==
    /\ came + strays < MaxEvents
    /\ \E x \in Indices :
          /\ mem[x] = 0 /\ \A y \in Indices : mem[y] = 0 => x <= y
          /\ mem' = [mem EXCEPT ![x] = came + 1]
          /\ unread' = unread \cup {x}
          /\ IF notify
             THEN Notice(Txt("+CMTI", x))
             ELSE UNCHANGED atVars
    /\ came' = came + 1
    /\ UNCHANGED <<gone, notify, sending>>
=============================================================================
