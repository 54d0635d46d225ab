------------------------------- MODULE SmsProofs -------------------------------
(* Theorems about AtTest, for any commands, any modem and any number of     *)
(* attempts: what a caller may rely on.  Then that the procedures of        *)
(* SmsProcedures are such callers, and their modem such a modem; and what   *)
(* becomes of messages as long as no answer is late or cut.  At the end, the*)
(* dialler's functions, beside the procedures in MCSms.                     *)
EXTENDS MCSms, FiniteSetTheorems, WellFoundedInduction, TLAPS

USE DEF call, serial

-----------------------------------------------------------------------------
(* Sequences of texts: what is read and what is left.                       *)

LEMMA CutTyped ==
    ASSUME NEW S, NEW s \in Seq(S), NEW k \in DOMAIN s
    PROVE  /\ SubSeq(s, 1, k) \in Seq(S)
           /\ SubSeq(s, k + 1, Len(s)) \in Seq(S)
<1>1. k \in 1..Len(s)
  OBVIOUS
<1>2. SubSeq(s, 1, k) \in Seq(S)
  BY <1>1
<1>3. SubSeq(s, k + 1, Len(s)) \in Seq(S)
  BY <1>1
<1> QED BY <1>2, <1>3

LEMMA Element ==
    ASSUME NEW S, NEW s \in Seq(S)
    PROVE  \A k \in DOMAIN s : s[k] \in S
  OBVIOUS

LEMMA FromTyped ==
    ASSUME NEW c \in Commands \cup {Nobody}, NEW a \in Seq([kind : Kinds, arg : Args])
    PROVE  /\ From(c, a) \in Seq(Texts)
           /\ \A k \in DOMAIN From(c, a) : From(c, a)[k].of = c
<1>1. \A k \in DOMAIN a : a[k] \in [kind : Kinds, arg : Args]
  BY Element
<1>2. From(c, a) = [k \in 1..Len(a) |-> [kind |-> a[k].kind, arg |-> a[k].arg, of |-> c]]
  BY DEF From
<1>3. \A k \in 1..Len(a) : [kind |-> a[k].kind, arg |-> a[k].arg, of |-> c] \in Texts
  BY <1>1 DEF Texts
<1> QED BY <1>2, <1>3

-----------------------------------------------------------------------------
(* Type correctness, with what keeps the count of attempts below its limit: *)
(* it is compared for equality, by the three places that advance it.        *)

TInv == AtTypeOK /\ (i = MaxTimes => exited)

LEMMA TypeInit == AtInit => TInv
<1> SUFFICES ASSUME AtInit PROVE TInv
  OBVIOUS
<1>1. \A S : <<>> \in Seq(S)
  OBVIOUS
<1>2. 0 \in 0..MaxTimes /\ 0 # MaxTimes /\ 0 <= MaxAsked
  BY AttemptsAssumption, AskedAssumption
<1> QED BY <1>1, <1>2 DEF AtInit, TInv, AtTypeOK

LEMMA TypeAttempt ==
    ASSUME TInv, ~exited, NEW l \in {"try", "write"}, Attempt(l)
    PROVE  /\ i' \in 0..MaxTimes /\ exited' \in BOOLEAN /\ (i' = MaxTimes => exited')
           /\ at' \in {"try", "write"} /\ cmd' \in Commands
<1>1. i' = i + 1 /\ exited' = (i + 1 = MaxTimes) /\ at' = l /\ cmd' = cmd
  BY DEF Attempt
<1>2. i \in 0..MaxTimes /\ i # MaxTimes /\ cmd \in Commands
  BY DEF TInv, AtTypeOK
<1>3. i' \in 0..MaxTimes
  BY <1>1, <1>2, AttemptsAssumption
<1>4. exited' \in BOOLEAN /\ (i' = MaxTimes => exited')
  BY <1>1, Zenon
<1> QED BY <1>1, <1>2, <1>3, <1>4

(* What writeComport and the modem do to the line.                          *)
LEMMA TypePut ==
    ASSUME TInv, NEW c \in Commands, Put(c)
    PROVE  asked' \in Seq(Commands) /\ Len(asked') <= MaxAsked /\ line' \in Seq(Texts)
  BY AskedAssumption DEF TInv, AtTypeOK, Put

LEMMA TypeReceive ==
    ASSUME TInv, Receive
    PROVE  reply' \in Seq(Texts) /\ line' \in Seq(Texts) /\ asked' = asked
<1>1. PICK e \in DOMAIN line : /\ reply' = SubSeq(line, 1, e)
                               /\ line' = SubSeq(line, e + 1, Len(line))
                               /\ asked' = asked
  BY DEF Receive
<1> QED BY <1>1, CutTyped DEF TInv, AtTypeOK

LEMMA TypeSaid ==
    ASSUME TInv, NEW c \in Commands \cup {Nobody}, NEW a \in Seq([kind : Kinds, arg : Args]),
           line' = line \o From(c, a)
    PROVE  line' \in Seq(Texts)
<1>1. From(c, a) \in Seq(Texts) /\ line \in Seq(Texts)
  BY FromTyped DEF TInv, AtTypeOK
<1> HIDE DEF Texts
<1> QED BY <1>1

LEMMA TypeAtTest == TInv /\ AT_test => TInv'
<1> SUFFICES ASSUME TInv, AT_test PROVE TInv'
  OBVIOUS
<1>1. CASE Try \/ WriteFails
  <2>1. \E l \in {"try", "write"} : Attempt(l)
    BY <1>1 DEF Try, WriteFails
  <2>2. UNCHANGED <<reply, serial, disturbed>>
    BY <1>1 DEF Try, WriteFails
  <2>3. ~exited
    BY DEF AT_test
  <2> QED BY <2>1, <2>2, <2>3, TypeAttempt DEF TInv, AtTypeOK
<1>2. CASE Write
  <2>1. asked' \in Seq(Commands) /\ Len(asked') <= MaxAsked /\ line' \in Seq(Texts)
    BY <1>2, TypePut DEF Write, TInv, AtTypeOK
  <2> QED BY <1>2, <2>1 DEF Write, TInv, AtTypeOK
<1>3. CASE ReadFails
  <2>1. disturbed' \in BOOLEAN
    BY <1>3, Zenon DEF ReadFails, TInv, AtTypeOK
  <2>2. ~exited /\ Attempt("try") /\ UNCHANGED <<reply, serial>>
    BY <1>3 DEF AT_test, ReadFails
  <2> QED BY <2>1, <2>2, TypeAttempt DEF TInv, AtTypeOK
<1>4. CASE Read
  <2>1. disturbed' \in BOOLEAN
    BY <1>4, Zenon DEF Read, TInv, AtTypeOK
  <2>2. reply' \in Seq(Texts) /\ line' \in Seq(Texts) /\ asked' = asked
    BY <1>4, TypeReceive DEF Read
  <2>3. CASE Attempt("try")
    <3>1. ~exited
      BY DEF AT_test
    <3> QED BY <2>1, <2>2, <2>3, <3>1, TypeAttempt DEF TInv, AtTypeOK
  <2>4. CASE at' \in {"try", "idle"} /\ UNCHANGED <<cmd, i, exited>>
    BY <2>1, <2>2, <2>4 DEF TInv, AtTypeOK
  <2> QED BY <1>4, <2>3, <2>4 DEF Read
<1> QED BY <1>1, <1>2, <1>3, <1>4 DEF AT_test

LEMMA TypeCaller == TInv /\ Caller => TInv'
<1> SUFFICES ASSUME TInv, Caller PROVE TInv'
  OBVIOUS
<1>1. CASE CallNext
  <2>1. PICK c \in Commands : Call(c)
    BY <1>1 DEF CallNext
  <2>2. disturbed' \in BOOLEAN
    BY <2>1, Zenon DEF Call
  <2>3. i' \in 0..MaxTimes /\ i' # MaxTimes
    BY <2>1, AttemptsAssumption DEF Call
  <2>4. reply' \in Seq(Texts)
    BY <2>1 DEF Call
  <2> QED BY <1>1, <2>1, <2>2, <2>3, <2>4 DEF CallNext, Call, TInv, AtTypeOK
<1>2. CASE Listen
  BY <1>2, TypeReceive DEF Listen, TInv, AtTypeOK
<1>3. ASSUME NEW c \in Commands, Tell(c) PROVE TInv'
  <2>1. asked' \in Seq(Commands) /\ Len(asked') <= MaxAsked /\ line' \in Seq(Texts)
    BY <1>3, TypePut DEF Tell
  <2> QED BY <1>3, <2>1 DEF Tell, TInv, AtTypeOK
<1>4. CASE Abandon
  <2>1. reply' \in Seq(Texts)
    BY <1>4 DEF Abandon
  <2> QED BY <1>4, <2>1 DEF Abandon, TInv, AtTypeOK
<1>5. CASE GiveUp
  BY <1>5 DEF GiveUp, TInv, AtTypeOK
<1> QED BY <1>1, <1>2, <1>3, <1>4, <1>5 DEF Caller

LEMMA TypeModem == TInv /\ Modem => TInv'
<1> SUFFICES ASSUME TInv, Modem PROVE TInv'
  OBVIOUS
<1>1. ASSUME asked # <<>>, NEW a \in Answers, Reply(a) PROVE TInv'
  <2>1. Head(asked) \in Commands /\ Tail(asked) \in Seq(Commands)
        /\ Len(Tail(asked)) <= MaxAsked
    BY <1>1, AskedAssumption DEF TInv, AtTypeOK
  <2>2. a \in Seq([kind : Kinds, arg : Args])
    BY AnswersAssumption
  <2>3. line' = line \o From(Head(asked), a)
    BY <1>1 DEF Reply
  <2>4. line' \in Seq(Texts)
    BY <2>1, <2>2, <2>3, TypeSaid
  <2> QED BY <1>1, <2>1, <2>4 DEF Reply, TInv, AtTypeOK
<1>2. ASSUME NEW t \in Notices, Notice(t) PROVE TInv'
  <2>1. <<t>> \in Seq([kind : Kinds, arg : Args])
    BY AnswersAssumption
  <2>2. line' = line \o From(Nobody, <<t>>)
    BY <1>2 DEF Notice
  <2>3. line' \in Seq(Texts)
    BY <2>1, <2>2, TypeSaid
  <2> QED BY <1>2, <2>3 DEF Notice, TInv, AtTypeOK
<1> QED BY <1>1, <1>2 DEF Modem

LEMMA TypeNext == TInv /\ [AtNext]_atVars => TInv'
<1>1. TInv /\ UNCHANGED atVars => TInv'
  BY DEF TInv, AtTypeOK, atVars
<1> QED BY <1>1, TypeCaller, TypeAtTest, TypeModem DEF AtNext

(* Every variable keeps its type; above all the count of attempts never     *)
(* passes its limit: the process has ended when it is reached.              *)
THEOREM TypeCorrect == AtSpec => []AtTypeOK
<1>1. TInv => AtTypeOK
  BY DEF TInv
<1> QED BY <1>1, TypeInit, TypeNext, PTL DEF AtSpec

-----------------------------------------------------------------------------
(* An undisturbed call: what is on the line is about its own command, and   *)
(* between a read and the next write there is nothing on it.                *)

OwnLine ==
    \/ asked = <<>> /\ \A k \in DOMAIN line : line[k].of = cmd
    \/ asked = <<cmd>> /\ line = <<>>

OInv ==
    /\ TInv
    /\ ~disturbed => /\ at # "read" => Quiet
                     /\ at = "read" => OwnLine
                     /\ at = "idle" => \A k \in DOMAIN reply : reply[k].of = cmd

LEMMA OwnInit == AtInit => OInv
  BY TypeInit DEF AtInit, OInv, Quiet

(* What is read is about the command, and what is left is nothing.          *)
LEMMA OwnReceive ==
    ASSUME TInv, OwnLine, Receive
    PROVE  \A k \in DOMAIN reply' : reply'[k].of = cmd
<1>1. PICK e \in DOMAIN line : reply' = SubSeq(line, 1, e)
  BY DEF Receive
<1>2. line \in Seq(Texts)
  BY DEF TInv, AtTypeOK
<1>3. e \in 1..Len(line)
  BY <1>2
<1>4. \A k \in DOMAIN reply' : k \in DOMAIN line /\ reply'[k] = line[k]
  BY <1>1, <1>2, <1>3
<1>5. \A k \in DOMAIN line : line[k].of = cmd
  BY <1>3 DEF OwnLine
<1> QED BY <1>4, <1>5

LEMMA OwnAtTest == OInv /\ TInv' /\ AT_test => OInv'
<1> SUFFICES ASSUME OInv, TInv', AT_test, ~disturbed' PROVE OInv'
  BY DEF OInv
<1> USE DEF OInv
<1>1. CASE Try \/ WriteFails
  <2>1. ~disturbed /\ at # "read" /\ at' = "write" /\ UNCHANGED serial
    BY <1>1 DEF Try, WriteFails, Attempt
  <2> QED BY <2>1 DEF Quiet
<1>2. CASE Write
  <2>1. ~disturbed /\ Quiet /\ at' = "read" /\ cmd' = cmd /\ Put(cmd)
    BY <1>2 DEF Write
  <2>2. asked' = <<cmd>> /\ line' = <<>>
    BY <2>1, AskedAssumption DEF Put, Quiet
  <2> QED BY <2>1, <2>2 DEF OwnLine
<1>3. CASE ReadFails
  <2>1. ~disturbed /\ Quiet /\ at' = "try" /\ UNCHANGED serial
    BY <1>3 DEF ReadFails, Attempt
  <2> QED BY <2>1 DEF Quiet
<1>4. CASE Read
  <2>1. ~disturbed /\ Quiet' /\ at' # "read" /\ cmd' = cmd
    BY <1>4 DEF Read, Attempt
  <2>2. \A k \in DOMAIN reply' : reply'[k].of = cmd
    BY <1>4, <2>1, OwnReceive DEF Read
  <2> QED BY <2>1, <2>2
<1> QED BY <1>1, <1>2, <1>3, <1>4 DEF AT_test

LEMMA OwnCaller == OInv /\ TInv' /\ Caller => OInv'
<1> SUFFICES ASSUME OInv, TInv', Caller, ~disturbed' PROVE OInv'
  BY DEF OInv
<1> USE DEF OInv
<1>1. CASE CallNext
  <2>1. at' = "try" /\ disturbed' = ~Quiet /\ UNCHANGED serial
    BY <1>1 DEF CallNext, Call
  <2> QED BY <2>1 DEF Quiet
<1>2. CASE Listen \/ (\E c \in Commands : Tell(c)) \/ Abandon
  BY <1>2 DEF Listen, Tell, Abandon
<1>3. CASE GiveUp
  BY <1>3 DEF GiveUp, Quiet, OwnLine
<1> QED BY <1>1, <1>2, <1>3 DEF Caller

LEMMA OwnModem == OInv /\ TInv' /\ Modem => OInv'
<1> SUFFICES ASSUME OInv, TInv', Modem, ~disturbed' PROVE OInv'
  BY DEF OInv
<1> USE DEF OInv
<1>1. ASSUME asked # <<>>, NEW a \in Answers, Reply(a) PROVE OInv'
  <2>1. UNCHANGED <<call, reply, disturbed>>
    BY <1>1 DEF Reply
  <2>2. at = "read" /\ asked = <<cmd>> /\ line = <<>>
    BY <1>1, <2>1 DEF Quiet, OwnLine
  <2>3. asked' = <<>> /\ line' = From(cmd, a)
    <3>1. cmd \in Commands \cup {Nobody} /\ a \in Seq([kind : Kinds, arg : Args])
      BY AnswersAssumption DEF TInv, AtTypeOK
    <3>2. From(cmd, a) \in Seq(Texts)
      BY <3>1, FromTyped
    <3>3. Head(asked) = cmd /\ Tail(asked) = <<>>
      BY <2>2
    <3>4. <<>> \o From(cmd, a) = From(cmd, a)
      BY <3>2
    <3> QED BY <1>1, <2>2, <3>3, <3>4 DEF Reply
  <2>4. \A k \in DOMAIN line' : line'[k].of = cmd
    <3>1. cmd \in Commands \cup {Nobody} /\ a \in Seq([kind : Kinds, arg : Args])
      BY AnswersAssumption DEF TInv, AtTypeOK
    <3> QED BY <2>3, <3>1, FromTyped
  <2> QED BY <2>1, <2>2, <2>3, <2>4 DEF OwnLine
<1>2. ASSUME NEW t \in Notices, Notice(t) PROVE FALSE
  BY <1>2 DEF Notice
<1> QED BY <1>1, <1>2 DEF Modem

LEMMA OwnNext == OInv /\ [AtNext]_atVars => OInv'
<1> SUFFICES ASSUME OInv, [AtNext]_atVars PROVE OInv'
  OBVIOUS
<1>1. TInv'
  BY TypeNext DEF OInv
<1>2. CASE UNCHANGED atVars
  BY <1>1, <1>2 DEF OInv, atVars, Quiet, OwnLine
<1> QED BY <1>1, <1>2, OwnCaller, OwnAtTest, OwnModem DEF AtNext

(* An undisturbed call of AT_test returns the answer to its own command and *)
(* leaves a quiet line, whatever the modem refuses, ignores or delays and   *)
(* whatever the calls before it met.                                        *)
THEOREM AnswerIsOwnHolds == AtSpec => []AnswerIsOwn
<1>1. OInv => AnswerIsOwn
  BY DEF OInv, AnswerIsOwn
<1> QED BY <1>1, OwnInit, OwnNext, PTL DEF AtSpec

-----------------------------------------------------------------------------
(* The variant of AT_test: what a call may still do before try_times ends   *)
(* the process.  An attempt is three steps at the most.                     *)

AttemptsLeft ==
    3 * (MaxTimes - i) + (IF at = "write" THEN 2 ELSE IF at = "read" THEN 1 ELSE 0)

LEMMA AttemptsStep ==
    ASSUME TInv, TInv', [AtNext]_atVars, at # "idle", at' # "idle"
    PROVE  /\ AttemptsLeft' \in Nat /\ AttemptsLeft' <= AttemptsLeft
           /\ AT_test => AttemptsLeft' < AttemptsLeft
<1>1. i \in 0..MaxTimes /\ i' \in 0..MaxTimes /\ MaxTimes \in Nat
  BY AttemptsAssumption DEF TInv, AtTypeOK
<1>2. CASE AT_test
  <2>1. \/ at = "try" /\ at' = "write" /\ i' = i + 1
        \/ at = "write" /\ at' = "read" /\ i' = i
        \/ at = "write" /\ at' = "write" /\ i' = i + 1
        \/ at = "read" /\ at' = "try" /\ i' = i + 1
        \/ at = "read" /\ at' = "try" /\ i' = i
    BY <1>2 DEF AT_test, Try, Write, WriteFails, ReadFails, Read, Attempt
  <2>2. AttemptsLeft \in Nat
    BY <1>1 DEF AttemptsLeft
  <2>3. AttemptsLeft' \in Nat /\ AttemptsLeft' < AttemptsLeft
    <3>1. CASE i' = i + 1
      BY <1>1, <2>1, <3>1 DEF AttemptsLeft
    <3>2. CASE i' = i
      BY <1>1, <2>1, <3>2 DEF AttemptsLeft
    <3> QED BY <2>1, <3>1, <3>2
  <2> QED BY <2>2, <2>3
<1>3. CASE ~AT_test
  <2>1. at' = at /\ i' = i
    BY <1>3 DEF AtNext, Caller, CallNext, Call, Listen, Tell, Abandon, GiveUp, Modem, Reply, Notice,
          atVars
  <2> QED BY <1>1, <1>3, <2>1 DEF AttemptsLeft
<1> QED BY <1>2, <1>3

(* However often the modem refuses, delays or cuts an answer, and the line  *)
(* takes no command: every step of a call of AT_test that does not end it   *)
(* brings a natural number down, which nobody else raises.                  *)
THEOREM AttemptsRunOut ==
    AtSpec => [][at # "idle" /\ at' # "idle" =>
                     /\ AttemptsLeft' \in Nat /\ AttemptsLeft' <= AttemptsLeft
                     /\ AT_test => AttemptsLeft' < AttemptsLeft]_atVars
<1>1. TInv /\ [AtNext]_atVars =>
          [at # "idle" /\ at' # "idle" =>
               /\ AttemptsLeft' \in Nat /\ AttemptsLeft' <= AttemptsLeft
               /\ AT_test => AttemptsLeft' < AttemptsLeft]_atVars
  <2> HIDE DEF AttemptsLeft
  <2> QED BY TypeNext, AttemptsStep
<1> QED BY <1>1, TypeInit, TypeNext, PTL DEF AtSpec

-----------------------------------------------------------------------------
(* What the procedures find in an answer.                                   *)

(* The first text of a kind that is there, and what comes behind it.        *)
LEMMA FirstPlace ==
    ASSUME NEW s \in Seq(Texts), NEW kinds, NEW k \in kinds, Shows(s, k)
    PROVE  Place(s, kinds) \in DOMAIN s /\ First(s, kinds).kind \in kinds
<1> DEFINE I == {j \in 1..Len(s) : s[j].kind \in kinds}
           Below == OpToRel(<, Nat)
<1>1. I # {} /\ I \subseteq Nat
  BY DEF Shows
<1>2. IsWellFoundedOn(Below, Nat)
  BY NatLessThanWellFounded
<1>3. PICK m \in I : \A j \in I : <<j, m>> \notin Below
  <2> HIDE DEF Below, I
  <2> QED BY <1>1, <1>2, WFMin, Zenon
<1>4. \A j \in I : m <= j
  <2> SUFFICES ASSUME NEW j \in I, j < m PROVE FALSE
    BY <1>1
  <2>1. <<j, m>> \in Below
    BY <1>1 DEF OpToRel
  <2> QED BY <1>3, <2>1
<1>5. Min(I) \in I
  BY <1>4 DEF Min
<1>6. Place(s, kinds) = Min(I)
  BY <1>1 DEF Place, SelectInSeq
<1> QED BY <1>5, <1>6 DEF First

LEMMA ListedTyped ==
    ASSUME NEW s \in Seq(Texts), Shows(s, "+CMGL")
    PROVE  Listed(s) \in Seq(Texts) /\ Listed(s) # <<>>
<1>1. PICK m \in 1..Len(s) : m = Place(s, {"+CMGL"})
  BY FirstPlace
<1>2. SubSeq(s, m, Len(s)) \in Seq(Texts)
  OBVIOUS
<1>3. Len(SubSeq(s, m, Len(s))) = Len(s) - m + 1
  OBVIOUS
<1>4. SubSeq(s, m, Len(s)) # <<>>
  <2>1. Len(s) - m + 1 # 0
    OBVIOUS
  <2>2. Len(<<>>) = 0
    OBVIOUS
  <2> QED BY <1>3, <2>1, <2>2, Zenon
<1>5. Listed(s) = SubSeq(s, m, Len(s))
  BY <1>1 DEF Listed
<1> QED BY <1>2, <1>4, <1>5, Zenon

-----------------------------------------------------------------------------
(* The procedures are callers that AtTest allows.  Of their own state this  *)
(* needs what the commands are made of: there is a message at hand while    *)
(* one is read or deleted, and its text has a number the modem may have     *)
(* sent; and that they touch the line themselves only while AT_test is idle.*)

JInv ==
    /\ todo \in Seq(Texts) /\ (proc \in {"read", "del"} => todo # <<>>)
    /\ proc \in {"notices", "noticed", "text", "confirm"} => at = "idle"
    /\ proc = "noticed" => Shows(reply, "+CMTI")
    /\ mem \in [Indices -> 0..MaxEvents] /\ unread \subseteq Indices
    /\ came \in Nat /\ strays \in Nat

DInv   == TInv /\ JInv
AtStep == AtNext \/ UNCHANGED atVars

LEMMA CommandsGiven ==
    /\ \A c \in Plain : Cmd(c, 0) \in Commands
    /\ \A other \in {0, 1} : Cmd("text", other) \in Commands
    /\ \A x \in Args : Cmd("AT+CMGR", x) \in Commands /\ Cmd("AT+CMGD", x) \in Commands
  BY CommandsAre DEF ModemCommands, Plain

LEMMA IndexTyped ==
    ASSUME NEW texts \in Seq(Texts), texts # <<>>
    PROVE  Index(texts) \in Args
<1>1. Head(texts) \in Texts
  OBVIOUS
<1>2. Head(texts).arg \in Args
  BY <1>1 DEF Texts
<1> QED BY <1>2, ArgsAssumption DEF Index, AfterColon, AfterComma

LEMMA ExitedTyped ==
    ASSUME NEW limit, Counted(limit) \/ Afresh
    PROVE  exited' \in BOOLEAN
  BY Zenon DEF Counted, Afresh

(* The rest of the list after a step that keeps it or drops it.              *)
LEMMA ListKept ==
    ASSUME DInv, todo' \in {todo, <<>>}
    PROVE  todo' \in Seq(Texts)
<1>1. <<>> \in Seq(Texts)
  OBVIOUS
<1>2. todo \in Seq(Texts)
  BY DEF DInv, JInv
<1>3. CASE todo' = todo
  BY <1>2, <1>3, Zenon
<1>4. CASE todo' = <<>>
  BY <1>1, <1>4, Zenon
<1> QED BY <1>3, <1>4

LEMMA DialogueInit == Init => AtInit /\ DInv
<1> SUFFICES ASSUME Init PROVE AtInit /\ DInv
  OBVIOUS
<1>1. TInv
  BY TypeInit DEF Init
<1>2. <<>> \in Seq(Texts)
  OBVIOUS
<1>3. mem \in [Indices -> 0..MaxEvents] /\ unread = {} /\ came = 0 /\ strays = 0
  BY IndicesAssumption DEF Init, ModemInit
<1>4. JInv
  BY <1>2, <1>3 DEF Init, JInv
<1> QED BY <1>1, <1>4 DEF Init, DInv

(* A procedure asks one of the commands without an index.                   *)
LEMMA AskPlain ==
    ASSUME DInv, ~exited, NEW c \in Plain, Call(Cmd(c, 0)), UNCHANGED <<serial, memory, strays>>,
           exited' \in BOOLEAN, todo' \in {todo, <<>>},
           proc' \in {"judge", "list", "setup", "send"}
    PROVE  AtStep /\ JInv'
<1>1. CallNext
  BY CommandsGiven DEF CallNext
<1>2. AtStep
  BY <1>1 DEF AtStep, AtNext, Caller
<1>3. todo' \in Seq(Texts)
  BY ListKept
<1>4. JInv'
  BY <1>3 DEF DInv, JInv, memory
<1> QED BY <1>2, <1>4

(* It asks to read or to delete a message.                                  *)
LEMMA AskIndex ==
    ASSUME DInv, ~exited, NEW c \in {"AT+CMGR", "AT+CMGD"},
           NEW texts \in Seq(Texts), texts # <<>>, Call(Cmd(c, Index(texts))),
           UNCHANGED <<serial, memory, strays>>, exited' \in BOOLEAN, todo' = texts,
           proc' \in {"read", "del"}
    PROVE  AtStep /\ JInv'
<1>1. Index(texts) \in Args
  BY IndexTyped
<1>2. Cmd(c, Index(texts)) \in Commands
  BY <1>1, CommandsGiven
<1>3. CallNext
  BY <1>2 DEF CallNext
<1>4. AtStep
  BY <1>3 DEF AtStep, AtNext, Caller
<1>5. JInv'
  BY DEF DInv, JInv, memory
<1> QED BY <1>4, <1>5

(* It ends, or turns to something else, without a call.                     *)
LEMMA AskNothing ==
    ASSUME DInv, UNCHANGED <<atVars, memory, strays>>, todo' \in {todo, <<>>},
           proc' \in {"none", "notices"}, proc' = "notices" => at = "idle"
    PROVE  AtStep /\ JInv'
<1>1. AtStep
  BY DEF AtStep
<1>2. todo' \in Seq(Texts)
  BY ListKept
<1>3. JInv'
  BY <1>2 DEF DInv, JInv, memory, atVars
<1> QED BY <1>1, <1>3

-----------------------------------------------------------------------------
(* The procedures, one after the other.                                     *)

LEMMA StepJudge ==
    ASSUME DInv, Start \/ JudgeNext \/ JudgeAgain
    PROVE  AtStep /\ JInv'
<1>0. exited \in BOOLEAN
  BY DEF DInv, TInv, AtTypeOK
<1>1. CASE Start
  <2>1. /\ ~exited /\ Call(Cmd("ATE0", 0)) /\ Afresh /\ todo' = <<>> /\ proc' = "judge"
        /\ UNCHANGED <<serial, memory, strays>>
    BY <1>1 DEF Start
  <2> QED BY <2>1, ExitedTyped, AskPlain DEF Plain
<1>2. CASE JudgeNext
  <2>1. PICK c \in {"AT", "AT+CPIN", "AT+CREG", "AT+CSQ"} : Ask(c, 0)
    BY <1>2 DEF JudgeNext
  <2>2. ~exited /\ proc = "judge" /\ Within /\ Uncounted
    BY <1>2 DEF JudgeNext, At
  <2> QED BY <1>0, <2>1, <2>2, AskPlain DEF Ask, Within, Uncounted, Plain, modemVars
<1>3. CASE JudgeAgain
  <2>1. /\ ~exited /\ proc = "judge" /\ Within /\ Counted(MaxTries) /\ Ask("ATE0", 0)
    BY <1>3 DEF JudgeAgain, At
  <2> QED BY <2>1, ExitedTyped, AskPlain DEF Ask, Within, Plain, modemVars
<1> QED BY <1>1, <1>2, <1>3

LEMMA StepList ==
    ASSUME DInv, List \/ ListNext \/ ListAgain \/ ReadFirst \/ NoneListed
    PROVE  AtStep /\ JInv'
<1>0. exited \in BOOLEAN /\ reply \in Seq(Texts)
  BY DEF DInv, TInv, AtTypeOK
<1>1. CASE List
  <2>1. /\ ~exited /\ proc' = "list" /\ Ask("AT+CMGF", 0) /\ UNCHANGED todo
        /\ exited' = (1 = MaxLists)
    BY <1>1 DEF List, Judged, At
  <2>2. exited' \in BOOLEAN
    BY <2>1, Zenon
  <2> QED BY <2>1, <2>2, AskPlain DEF Ask, Plain, modemVars
<1>2. CASE ListNext
  <2>1. ~exited /\ proc = "list" /\ Ask("AT+CMGL", 0) /\ Within /\ Uncounted
    BY <1>2 DEF ListNext, At
  <2> QED BY <1>0, <2>1, AskPlain DEF Ask, Within, Uncounted, Plain, modemVars
<1>3. CASE ListAgain
  <2>1. ~exited /\ proc = "list" /\ Ask("AT+CMGF", 0) /\ Within /\ Counted(MaxLists)
    BY <1>3 DEF ListAgain, At
  <2> QED BY <2>1, ExitedTyped, AskPlain DEF Ask, Within, Plain, modemVars
<1>4. CASE ReadFirst
  <2>1. /\ ~exited /\ Shows(reply, "+CMGL") /\ proc' = "read" /\ todo' = Listed(reply)
        /\ Ask("AT+CMGR", Index(todo')) /\ Uncounted
    BY <1>4 DEF ReadFirst, At
  <2>2. Listed(reply) \in Seq(Texts) /\ Listed(reply) # <<>>
    BY <1>0, <2>1, ListedTyped
  <2> QED BY <1>0, <2>1, <2>2, AskIndex DEF Ask, Uncounted, modemVars
<1>5. CASE NoneListed
  <2>1. ~exited /\ Setup
    BY <1>5 DEF NoneListed, At
  <2> QED BY <1>0, <2>1, AskPlain DEF Setup, Ask, Plain, modemVars
<1> QED BY <1>1, <1>2, <1>3, <1>4, <1>5

LEMMA StepRead ==
    ASSUME DInv, ReadAgain \/ Output \/ OutputFails
    PROVE  AtStep /\ JInv'
<1>0. exited \in BOOLEAN /\ todo \in Seq(Texts)
  BY DEF DInv, TInv, AtTypeOK, JInv
<1>1. ~exited /\ at = "idle" /\ proc = "read" /\ todo # <<>>
  BY DEF ReadAgain, Output, OutputFails, At, DInv, JInv
<1>2. CASE ReadAgain
  <2>1. Ask("AT+CMGR", Index(todo)) /\ Uncounted /\ Within
    BY <1>2 DEF ReadAgain
  <2> QED BY <1>0, <1>1, <2>1, AskIndex DEF Ask, Uncounted, Within, modemVars
<1>3. CASE Output
  <2>1. proc' = "del" /\ Ask("AT+CMGD", Index(todo)) /\ Afresh /\ todo' = todo
    BY <1>3 DEF Output
  <2> QED BY <1>0, <1>1, <2>1, ExitedTyped, AskIndex DEF Ask, modemVars
<1>4. CASE OutputFails
  <2>1. CASE Setup
    BY <1>0, <1>1, <2>1, AskPlain DEF Setup, Ask, Plain, modemVars
  <2>2. CASE End /\ UNCHANGED <<atVars, modemVars, result, strays>>
    BY <2>2, AskNothing DEF End, modemVars
  <2> QED BY <1>4, <2>1, <2>2 DEF OutputFails
<1> QED BY <1>2, <1>3, <1>4

LEMMA StepDelete ==
    ASSUME DInv, DeleteAgain \/ Deleted
    PROVE  AtStep /\ JInv'
<1>0. exited \in BOOLEAN /\ todo \in Seq(Texts)
  BY DEF DInv, TInv, AtTypeOK, JInv
<1>1. ~exited /\ at = "idle" /\ proc = "del" /\ todo # <<>>
  BY DEF DeleteAgain, Deleted, At, DInv, JInv
<1>2. CASE DeleteAgain
  <2>1. Ask("AT+CMGD", Index(todo)) /\ Counted(MaxTries) /\ Within
    BY <1>2 DEF DeleteAgain
  <2> QED BY <1>0, <1>1, <2>1, ExitedTyped, AskIndex DEF Ask, Within, modemVars
<1>3. CASE Deleted
  <2>1. CASE /\ Shows(Tail(todo), "+CMGL") /\ todo' = Listed(Tail(todo)) /\ proc' = "read"
             /\ Ask("AT+CMGR", Index(todo')) /\ UNCHANGED exited
    <3>1. Tail(todo) \in Seq(Texts)
      BY <1>0, <1>1
    <3>2. Listed(Tail(todo)) \in Seq(Texts) /\ Listed(Tail(todo)) # <<>>
      BY <2>1, <3>1, ListedTyped
    <3> QED BY <1>0, <1>1, <2>1, <3>2, AskIndex DEF Ask, modemVars
  <2>2. CASE Setup
    BY <1>0, <1>1, <2>2, AskPlain DEF Setup, Ask, Plain, modemVars
  <2>3. CASE End /\ UNCHANGED <<atVars, modemVars, result, strays>>
    BY <2>3, AskNothing DEF End, modemVars
  <2> QED BY <1>3, <2>1, <2>2, <2>3 DEF Deleted
<1> QED BY <1>2, <1>3

LEMMA StepWait ==
    ASSUME DInv, SetupNext \/ SetupAgain \/ ReadNotices \/ ReadNoticed \/ WaitInterrupted
    PROVE  AtStep /\ JInv'
<1>0. exited \in BOOLEAN /\ reply \in Seq(Texts)
  BY DEF DInv, TInv, AtTypeOK
<1>1. CASE SetupNext
  <2>0. /\ ~exited /\ at = "idle" /\ proc = "setup" /\ Uncounted /\ UNCHANGED todo
    BY <1>1 DEF SetupNext, At
  <2>1. ASSUME NEW c \in {"AT+CMGF", "AT+CNMI"}, Ask(c, 0), UNCHANGED proc
        PROVE  AtStep /\ JInv'
    BY <1>0, <2>0, <2>1, AskPlain DEF Ask, Uncounted, Plain, modemVars
  <2>2. CASE proc' = "notices" /\ UNCHANGED <<atVars, modemVars, strays>>
    BY <2>0, <2>2, AskNothing DEF modemVars
  <2> QED BY <1>1, <2>1, <2>2 DEF SetupNext
<1>2. CASE SetupAgain
  <2>1. ~exited /\ proc = "setup" /\ Ask("AT+CPMS", 0) /\ Uncounted /\ Within
    BY <1>2 DEF SetupAgain
  <2> QED BY <1>0, <2>1, AskPlain DEF Ask, Uncounted, Within, Plain, modemVars
<1>3. CASE ReadNotices
  <2>1. /\ ~exited /\ Listen /\ UNCHANGED <<memory, todo, strays>>
        /\ proc' = IF Shows(reply', "+CMTI") THEN "noticed" ELSE "notices"
    BY <1>3 DEF ReadNotices, modemVars
  <2>2. AtStep
    BY <2>1 DEF AtStep, AtNext, Caller
  <2>3. at' = "idle"
    BY <2>1 DEF Listen
  <2>4. Shows(reply, "+CMTI")' <=> Shows(reply', "+CMTI")
    BY DEF Shows
  <2> QED BY <2>1, <2>2, <2>3, <2>4 DEF DInv, JInv, memory
<1>4. CASE ReadNoticed
  <2>1. /\ ~exited /\ proc = "noticed" /\ proc' = "read" /\ Uncounted
        /\ todo' = <<First(reply, WithComma)>> /\ Ask("AT+CMGR", Index(todo'))
    BY <1>4 DEF ReadNoticed
  <2>2. Place(reply, WithComma) \in DOMAIN reply
    <3>1. Shows(reply, "+CMTI") /\ "+CMTI" \in WithComma
      BY <2>1 DEF DInv, JInv, WithComma
    <3> QED BY <1>0, <3>1, FirstPlace
  <2>3. First(reply, WithComma) \in Texts
    BY <1>0, <2>2, Element DEF First
  <2>4. todo' \in Seq(Texts) /\ todo' # <<>>
    BY <2>1, <2>3
  <2> QED BY <1>0, <2>1, <2>4, AskIndex DEF Ask, Uncounted, modemVars
<1>5. CASE WaitInterrupted
  BY <1>5, AskNothing DEF WaitInterrupted, End, modemVars
<1> QED BY <1>1, <1>2, <1>3, <1>4, <1>5

LEMMA StepSend ==
    ASSUME DInv, Send \/ SendNothing \/ SendTo \/ SendAgain
    PROVE  AtStep /\ JInv'
<1>0. exited \in BOOLEAN
  BY DEF DInv, TInv, AtTypeOK
<1>1. CASE Send
  <2>1. /\ ~exited /\ proc' = "send" /\ Ask("AT+CMGF", 0) /\ UNCHANGED <<todo, exited>>
    BY <1>1 DEF Send, Judged, At
  <2> QED BY <1>0, <2>1, AskPlain DEF Ask, Plain, modemVars
<1>2. CASE SendNothing
  BY <1>2, AskNothing DEF SendNothing, End, modemVars
<1>3. CASE SendTo \/ SendAgain
  <2>1. PICK c \in {"AT+CMGS", "AT+CMGF"} : Ask(c, 0)
    BY <1>3 DEF SendTo, SendAgain
  <2>2. ~exited /\ proc = "send" /\ Within /\ Uncounted
    BY <1>3 DEF SendTo, SendAgain, At
  <2> QED BY <1>0, <2>1, <2>2, AskPlain DEF Ask, Within, Uncounted, Plain, modemVars
<1> QED BY <1>1, <1>2, <1>3

(* The text and its OK do not go through AT_test.                           *)
LEMMA StepText ==
    ASSUME DInv, SendText \/ Confirm
    PROVE  AtStep /\ JInv'
<1>0. exited \in BOOLEAN
  BY DEF DInv, TInv, AtTypeOK
<1>1. CASE SendText
  <2>1. ~exited /\ at = "idle" /\ UNCHANGED <<memory, todo, strays>>
    BY <1>1 DEF SendText, At, DInv, JInv, modemVars
  <2>2. CASE (\E other \in {0, 1} : Tell(Cmd("text", other))) /\ proc' = "confirm"
    <3>1. AtStep
      BY <2>1, <2>2, CommandsGiven DEF AtStep, AtNext, Caller
    <3>2. at' = "idle"
      BY <2>1, <2>2 DEF Tell
    <3> QED BY <2>1, <2>2, <3>1, <3>2 DEF DInv, JInv, memory
  <2>3. CASE proc' = "text" /\ Counted(MaxLists) /\ UNCHANGED <<call, reply, serial, disturbed>>
    <3>1. exited' \in BOOLEAN
      BY <2>3, ExitedTyped
    <3>2. ASSUME exited' = TRUE PROVE AtStep
      BY <2>1, <2>3, <3>2 DEF AtStep, AtNext, Caller, GiveUp
    <3>3. ASSUME exited' = FALSE PROVE AtStep
      BY <1>0, <2>1, <2>3, <3>3 DEF AtStep, atVars
    <3>4. at' = "idle"
      BY <2>1, <2>3
    <3>5. JInv'
      BY <2>1, <2>3, <3>4 DEF DInv, JInv, memory
    <3> QED BY <3>1, <3>2, <3>3, <3>5
  <2> QED BY <1>1, <2>2, <2>3 DEF SendText
<1>2. CASE Confirm
  <2>1. ~exited /\ proc = "confirm" /\ at = "idle" /\ UNCHANGED memory
    BY <1>2 DEF Confirm, DInv, JInv, modemVars
  <2>2. Listen \/ UNCHANGED atVars
    BY <1>2 DEF Confirm
  <2>3. AtStep
    BY <2>1, <2>2 DEF AtStep, AtNext, Caller
  <2>4. at' = "idle"
    BY <2>1, <2>2 DEF Listen, atVars
  <2>5. proc' \in {"none", "confirm"} /\ todo' \in {todo, <<>>}
    BY <1>2, <2>1 DEF Confirm, End
  <2>6. strays' \in Nat
    BY <1>2 DEF Confirm, DInv, JInv
  <2>7. todo' \in Seq(Texts)
    BY <2>5, ListKept
  <2>8. JInv'
    BY <2>1, <2>4, <2>5, <2>6, <2>7 DEF DInv, JInv, memory
  <2> QED BY <2>3, <2>8
<1> QED BY <1>1, <1>2

-----------------------------------------------------------------------------
(* The others.                                                              *)

LEMMA StepDialogue ==
    ASSUME DInv, Cancel \/ Dialogue
    PROVE  AtStep /\ JInv'
<1>1. strays' \in Nat /\ UNCHANGED memory
  BY DEF Cancel, Dialogue, DInv, JInv, modemVars
<1>2. CASE Cancel
  <2>1. ~exited /\ Abandon /\ todo' = <<>> /\ proc' = "none"
    BY <1>2 DEF Cancel, End
  <2>2. AtStep
    BY <2>1 DEF AtStep, AtNext, Caller
  <2>3. todo' \in Seq(Texts)
    BY <2>1, ListKept
  <2> QED BY <1>1, <2>1, <2>2, <2>3 DEF DInv, JInv, memory
<1>3. CASE Dialogue
  <2>1. AT_test /\ UNCHANGED <<proc, todo>>
    BY <1>3 DEF Dialogue, jobVars
  <2>2. at # "idle"
    BY <2>1 DEF AT_test, Try, Write, WriteFails, ReadFails, Read
  <2>3. AtStep
    BY <2>1 DEF AtStep, AtNext
  <2> QED BY <1>1, <2>1, <2>2, <2>3 DEF DInv, JInv, memory
<1> QED BY <1>2, <1>3

(* What this modem answers is what AtTest lets a modem answer.              *)
LEMMA WorkAnswers ==
    ASSUME DInv, Work
    PROVE  asked # <<>> /\ \E a \in Answers : Reply(a)
<1>1. asked # <<>>
  BY DEF Work
<1>2. Refuse \/ Lose \/ Carry(Head(asked)) \/ Enter(Head(asked))
  BY DEF Work
<1>3. \E a \in ModemAnswers : Reply(a)
  <2>1. CASE Refuse \/ Lose \/ Status(Head(asked)) \/ SetNotify(Head(asked))
    BY <2>1 DEF Refuse, Lose, Status, SetNotify, ModemAnswers
  <2>2. CASE ListUnread(Head(asked))
    BY <2>2 DEF ListUnread, ModemAnswers, DInv, JInv
  <2>3. CASE ReadMessage(Head(asked))
    <3>1. CASE Head(asked).arg \in Indices /\ mem[Head(asked).arg] # 0
      <4>1. mem[Head(asked).arg] \in 0..MaxEvents
        BY <3>1 DEF DInv, JInv
      <4>2. mem[Head(asked).arg] \in 1..MaxEvents
        BY <3>1, <4>1, IndicesAssumption
      <4> QED BY <2>3, <3>1, <4>2 DEF ReadMessage, ModemAnswers
    <3>2. CASE ~(Head(asked).arg \in Indices /\ mem[Head(asked).arg] # 0)
      BY <2>3, <3>2 DEF ReadMessage, ModemAnswers
    <3> QED BY <3>1, <3>2
  <2>4. CASE DeleteMessage(Head(asked)) \/ Prompt(Head(asked))
    BY <2>4 DEF DeleteMessage, Prompt, ModemAnswers
  <2>5. CASE Enter(Head(asked))
    BY <2>5 DEF Enter, ModemAnswers
  <2> QED BY <1>2, <2>1, <2>2, <2>3, <2>4, <2>5 DEF Carry
<1> QED BY <1>1, <1>3, ModemAssumption

LEMMA StepModem ==
    ASSUME DInv, ModemStep
    PROVE  AtStep /\ JInv'
<1>1. ~exited /\ Work /\ UNCHANGED <<proc, todo, strays>>
  BY DEF ModemStep, jobVars
<1>2. PICK a \in Answers : asked # <<>> /\ Reply(a)
  BY <1>1, WorkAnswers
<1>3. AtStep
  BY <1>1, <1>2 DEF AtStep, AtNext, Modem
<1>4. UNCHANGED <<at, reply>>
  BY <1>2 DEF Reply
<1>5. mem' \in [Indices -> 0..MaxEvents] /\ unread' \subseteq Indices /\ came' = came
  <2>1. Refuse \/ Lose \/ Carry(Head(asked)) \/ Enter(Head(asked))
    BY <1>1 DEF Work
  <2>2. \/ mem' = mem
        \/ mem' = [mem EXCEPT ![Head(asked).arg] = 0] /\ Head(asked).arg \in Indices
    BY <2>1 DEF Refuse, Lose, Carry, Status, SetNotify, ListUnread, ReadMessage, DeleteMessage,
                Prompt, Enter, memory, modemVars
  <2>3. unread' \subseteq unread /\ came' = came
    BY <2>1 DEF Refuse, Lose, Carry, Status, SetNotify, ListUnread, ReadMessage, DeleteMessage,
                Prompt, Enter, memory, modemVars
  <2> QED BY <2>2, <2>3, IndicesAssumption DEF DInv, JInv
<1>6. Shows(reply, "+CMTI")' <=> Shows(reply, "+CMTI")
  BY <1>4 DEF Shows
<1> QED BY <1>1, <1>3, <1>4, <1>5, <1>6 DEF DInv, JInv

LEMMA StepArrive ==
    ASSUME DInv, ~exited, Arrive, UNCHANGED <<jobVars, strays>>
    PROVE  AtStep /\ JInv'
<1>1. PICK x \in Indices :
        /\ mem' = [mem EXCEPT ![x] = came + 1] /\ unread' = unread \cup {x}
        /\ IF notify THEN Notice(Txt("+CMTI", x)) ELSE UNCHANGED atVars
  BY DEF Arrive
<1>2. came + 1 \in 0..MaxEvents /\ came' = came + 1
  BY IndicesAssumption DEF Arrive, DInv, JInv
<1>3. Txt("+CMTI", x) \in Notices
  BY ModemAssumption DEF ModemNotices
<1>4. AtStep /\ UNCHANGED <<at, reply>>
  BY <1>1, <1>3 DEF AtStep, AtNext, Modem, Notice, atVars
<1>5. Shows(reply, "+CMTI")' <=> Shows(reply, "+CMTI")
  BY <1>4 DEF Shows
<1> QED BY <1>1, <1>2, <1>4, <1>5 DEF DInv, JInv, jobVars

LEMMA DialogueStep == DInv /\ [Next]_vars => AtStep /\ DInv'
<1> SUFFICES ASSUME DInv, [Next]_vars PROVE AtStep /\ DInv'
  OBVIOUS
<1>1. AtStep /\ JInv'
  <2>1. CASE UNCHANGED vars
    BY <2>1 DEF vars, AtStep, atVars, memory, modemVars, jobVars, DInv, JInv, Shows
  <2> QED BY <2>1, StepJudge, StepList, StepRead, StepDelete, StepWait, StepSend, StepText,
              StepDialogue, StepModem, StepArrive
           DEF Next, Procedure
<1>2. TInv'
  BY <1>1, TypeNext DEF AtStep, DInv
<1> QED BY <1>1, <1>2 DEF DInv

(* Every step of the procedures, of a cancelled reader and of the modem is  *)
(* one that AtTest allows, for any number of messages, places and attempts: *)
(* the procedures implement its abstract caller.                            *)
THEOREM DialogueKeptHolds == Spec => DialogueKept
<1>1. DInv /\ [Next]_vars => [AtNext]_atVars
  BY DialogueStep DEF AtStep
<1>2. DInv /\ [Next]_vars => DInv'
  BY DialogueStep
<1> QED BY <1>1, <1>2, DialogueInit, PTL DEF Spec, AtSpec, DialogueKept

(* So what AtTest promises a caller is theirs: a command that found a quiet *)
(* line gets its own answer.                                                *)
THEOREM ProceduresGetAnswers == Spec => []AnswerIsOwn
  BY DialogueKeptHolds, AnswerIsOwnHolds DEF DialogueKept
-----------------------------------------------------------------------------
(* What holds while every read takes all that is on its way (strays = 0).   *)

IsPrinted(x) == x \in Indices /\ mem[x] # 0 /\ mem[x] \in printed
IsRead(x, s) == x \in Indices /\ mem[x] # 0 /\ mem[x] \in Contents(s)
Notified(s)  == \A k \in DOMAIN s : s[k].kind = "+CMTI"
Tells(a, kind) == \E k \in DOMAIN a : a[k].kind = kind

(* The text that the modem is about to take.                                *)
Telling == \E other \in {0, 1} : asked = <<Cmd("text", other)>>

(* Between calls nothing is on its way but notices; a command is followed   *)
(* by its answer.                                                           *)
LineInv ==
    /\ at \in {"idle", "try", "write"} /\ proc # "confirm" => asked = <<>> /\ Notified(line)
    /\ at = "read" /\ asked # <<>> => asked = <<cmd>> /\ Notified(line)
    /\ proc = "confirm" /\ asked # <<>> => Telling /\ Notified(line)

(* Which procedure asks what, of which message, and on which job.           *)
AskedInv ==
    /\ proc = "read" => cmd = Cmd("AT+CMGR", Index(todo))
    /\ proc = "del" => cmd = Cmd("AT+CMGD", Index(todo))
    /\ at # "idle" /\ cmd.name = "AT+CMGR" => proc = "read"
    /\ at # "idle" /\ cmd.name = "AT+CMGD" => proc = "del"
    /\ at # "idle" /\ cmd.name = "AT+CMGS" => proc = "send"
    /\ proc \in {"text", "confirm"} => cmd.name = "AT+CMGS"
    /\ proc \in {"send", "text", "confirm"} => job = "send"
    /\ job = "none" => proc = "none"

(* What an answer to cmd, alone or among notices, says of the modem.        *)
Told(s) ==
    /\ cmd.name \in {"AT+CMGD", "AT+CMGS"} /\ Shows(s, "ERROR") => ~Shows(s, "OK") /\ ~Shows(s, ">")
    /\ cmd.name = "AT+CMGR" /\ Shows(s, "+CMGR") => IsRead(cmd.arg, s)
    /\ cmd.name = "AT+CMGD" /\ ~Shows(s, "OK") => IsPrinted(cmd.arg)
    /\ cmd.name = "AT+CMGS" => ~Shows(s, "OK") /\ (Shows(s, ">") <=> entry = "clean")

ToldInv ==
    /\ at = "read" /\ asked = <<>> => Told(line)
    /\ at = "idle" /\ proc \in {"read", "del", "send"} => Told(reply)
    /\ proc \in {"text", "confirm"} => ~Shows(reply, "OK")
    /\ at \in {"try", "write"} \/ (at = "read" /\ asked # <<>>) =>
           (cmd.name = "AT+CMGD" => IsPrinted(cmd.arg))

(* The modem takes a text when the prompt has been sent and until it came.  *)
TextDue ==
    \/ at = "read" /\ asked = <<>> /\ cmd.name = "AT+CMGS" /\ Shows(line, ">")
    \/ at = "idle" /\ proc = "send" /\ cmd.name = "AT+CMGS" /\ Shows(reply, ">")
    \/ proc = "text"
    \/ proc = "confirm" /\ asked # <<>>

Taken == sends = 1 \/ (sends = 0 /\ "text" \in spoilt)

SentInv ==
    /\ TextDue => entry = "clean"
    /\ ~TextDue => entry = "no"
    /\ job = "send" /\ ~(proc = "confirm" /\ asked = <<>>) => sends = 0
    /\ proc = "confirm" /\ asked = <<>> /\ Shows(line, "OK") => Taken
    /\ result = "sent" => job = "none" /\ Taken
    /\ "command" \notin spoilt

Order == LineInv /\ AskedInv /\ ToldInv /\ SentInv /\ gone \subseteq printed
UInv  == DInv /\ (strays = 0 => Order)

(* The kinds of texts behind what was on the line.                          *)
LEMMA Appended ==
    ASSUME NEW s \in Seq(Texts), NEW c \in Commands \cup {Nobody},
           NEW a \in Seq([kind : Kinds, arg : Args])
    PROVE  /\ \A kind : Shows(s \o From(c, a), kind) <=> Shows(s, kind) \/ Tells(a, kind)
           /\ \A k \in DOMAIN a : a[k].kind = "+CMGR" => a[k].arg \in Contents(s \o From(c, a))
           /\ Contents(s) \subseteq Contents(s \o From(c, a))
<1> DEFINE t == s \o From(c, a)
<1>1. From(c, a) \in Seq(Texts)
  BY FromTyped
<1>2. /\ Len(From(c, a)) = Len(a)
      /\ \A k \in 1..Len(a) : From(c, a)[k].kind = a[k].kind /\ From(c, a)[k].arg = a[k].arg
  BY DEF From
<1>3. /\ t \in Seq(Texts) /\ Len(t) = Len(s) + Len(a)
      /\ \A k \in 1..Len(s) : t[k] = s[k]
      /\ \A k \in 1..Len(a) : t[Len(s) + k] = From(c, a)[k]
  <2> DEFINE f == From(c, a)
  <2>1. f \in Seq(Texts) /\ Len(f) = Len(a)
    BY <1>1, <1>2
  <2> HIDE DEF f
  <2>2. \A k \in 1..Len(f) : (s \o f)[Len(s) + k] = f[k]
    BY <2>1
  <2>3. s \o f \in Seq(Texts) /\ Len(s \o f) = Len(s) + Len(f)
        /\ \A k \in 1..Len(s) : (s \o f)[k] = s[k]
    BY <2>1
  <2> QED BY <2>1, <2>2, <2>3 DEF f
<1>4. \A k \in 1..Len(a) : Len(s) + k \in 1..Len(t)
  BY <1>3
<1>5. \A k \in 1..Len(t) : k \in 1..Len(s) \/ \E j \in 1..Len(a) : k = Len(s) + j
  <2> SUFFICES ASSUME NEW k \in 1..Len(t), k \notin 1..Len(s)
               PROVE  \E j \in 1..Len(a) : k = Len(s) + j
    OBVIOUS
  <2>1. k - Len(s) \in 1..Len(a) /\ k = Len(s) + (k - Len(s))
    BY <1>3
  <2> QED BY <2>1
<1> HIDE DEF t
<1>6. ASSUME NEW kind PROVE Shows(t, kind) <=> Shows(s, kind) \/ Tells(a, kind)
  <2>1. ASSUME Shows(t, kind) PROVE Shows(s, kind) \/ Tells(a, kind)
    <3>1. PICK k \in 1..Len(t) : t[k].kind = kind
      BY <1>3, <2>1 DEF Shows
    <3>2. CASE k \in 1..Len(s)
      BY <1>3, <3>1, <3>2 DEF Shows
    <3>3. CASE \E j \in 1..Len(a) : k = Len(s) + j
      BY <1>2, <1>3, <3>1, <3>3 DEF Tells
    <3> QED BY <1>5, <3>2, <3>3
  <2>2. ASSUME Shows(s, kind) PROVE Shows(t, kind)
    <3>1. PICK k \in 1..Len(s) : s[k].kind = kind
      BY <2>2 DEF Shows
    <3>2. t[k] = s[k]
      BY <1>3, Zenon
    <3>3. k \in DOMAIN t
      BY <1>3
    <3> QED BY <3>1, <3>2, <3>3, Zenon DEF Shows
  <2>3. ASSUME Tells(a, kind) PROVE Shows(t, kind)
    BY <1>2, <1>3, <1>4, <2>3 DEF Shows, Tells
  <2> QED BY <2>1, <2>2, <2>3
<1>7. ASSUME NEW k \in DOMAIN a, a[k].kind = "+CMGR" PROVE a[k].arg \in Contents(t)
  <2>1. k \in 1..Len(a)
    OBVIOUS
  <2>2. Len(s) + k \in DOMAIN t /\ t[Len(s) + k].kind = "+CMGR" /\ t[Len(s) + k].arg = a[k].arg
    BY <1>2, <1>3, <1>4, <1>7, <2>1
  <2> QED BY <2>2, Zenon DEF Contents
<1>8. Contents(s) \subseteq Contents(t)
  BY <1>3 DEF Contents
<1> QED BY <1>6, <1>7, <1>8 DEF t

(* A notice is none of the texts that anybody looks for in an answer.       *)
LEMMA NotifiedShows ==
    ASSUME NEW s, Notified(s), NEW kind, kind # "+CMTI"
    PROVE  ~Shows(s, kind)
  BY DEF Notified, Shows

(* A read that leaves nothing behind takes the line as it is.               *)
LEMMA Whole ==
    ASSUME DInv, Receive, line' = <<>>
    PROVE  reply' = line
<1>1. line \in Seq(Texts)
  BY DEF DInv, TInv, AtTypeOK
<1>2. PICK k \in DOMAIN line :
        reply' = SubSeq(line, 1, k) /\ line' = SubSeq(line, k + 1, Len(line))
  BY DEF Receive
<1>3. k \in 1..Len(line)
  BY <1>1
<1>4. k = Len(line)
  <2> SUFFICES ASSUME k < Len(line) PROVE FALSE
    BY <1>3
  <2>1. Len(SubSeq(line, k + 1, Len(line))) = Len(line) - k
    BY <1>3, <1>1
  <2>2. Len(<<>>) = 0
    OBVIOUS
  <2>3. Len(SubSeq(line, k + 1, Len(line))) = 0
    BY <1>2, <2>2, Zenon
  <2> QED BY <1>3, <1>1, <2>1, <2>3
<1> QED BY <1>1, <1>2, <1>4

(* Nothing is read, or left on the line, that was not there.                *)
LEMMA Received ==
    ASSUME DInv, Receive
    PROVE  /\ \A kind : Shows(reply', kind) \/ Shows(line', kind) => Shows(line, kind)
           /\ Notified(line) => Notified(line')
           /\ asked' = asked
<1>1. line \in Seq(Texts)
  BY DEF DInv, TInv, AtTypeOK
<1>2. PICK k \in DOMAIN line :
        reply' = SubSeq(line, 1, k) /\ line' = SubSeq(line, k + 1, Len(line))
  BY DEF Receive
<1>3. k \in 1..Len(line)
  BY <1>1
<1>4. \A e \in DOMAIN reply' : e \in DOMAIN line /\ reply'[e] = line[e]
  BY <1>3, <1>1, <1>2
<1>5. \A e \in DOMAIN line' : k + e \in DOMAIN line /\ line'[e] = line[k + e]
  BY <1>3, <1>1, <1>2
<1>6. \A kind : Shows(reply', kind) \/ Shows(line', kind) => Shows(line, kind)
  BY <1>4, <1>5 DEF Shows
<1>7. Notified(line) => Notified(line')
  BY <1>5 DEF Notified
<1>8. asked' = asked
  BY DEF Receive
<1> QED BY <1>6, <1>7, <1>8

-----------------------------------------------------------------------------
(* The procedures' steps.                                                   *)

LEMMA OrderCall ==
    ASSUME DInv, Order, ~TextDue, at = "idle", proc # "confirm",
           NEW c, NEW x, Call(Cmd(c, x)), UNCHANGED <<serial, mem, gone, entry>>,
           printed \subseteq printed', proc' \notin {"text", "confirm"}, AskedInv',
           c = "AT+CMGD" => IsPrinted(x)',
           job' = "send" => sends' = 0, result' # "sent", "command" \notin spoilt'
    PROVE  Order'
<1>1. at' = "try" /\ cmd' = Cmd(c, x) /\ cmd'.name = c /\ cmd'.arg = x
  BY DEF Call, Cmd
<1>2. LineInv'
  BY <1>1 DEF Order, LineInv, Notified
<1>3. ToldInv'
  BY <1>1 DEF ToldInv
<1>4. SentInv'
  <2>1. ~TextDue'
    BY <1>1 DEF TextDue
  <2>2. entry' = "no"
    BY DEF Order, SentInv
  <2> QED BY <2>1, <2>2 DEF SentInv
<1>5. (gone \subseteq printed)'
  BY DEF Order
<1> QED BY <1>2, <1>3, <1>4, <1>5 DEF Order

LEMMA OrderAsk ==
    ASSUME DInv, Order, ~TextDue, at = "idle", proc # "confirm", job # "none",
           NEW c, NEW x, Ask(c, x), UNCHANGED result, printed \subseteq printed',
           job' \in {job, "wait"}, proc' \in {"judge", "list", "setup", "read", "del", "send"},
           proc' = "send" => job' = "send",
           \/ c = "AT+CMGR" /\ proc' = "read" /\ x = Index(todo)'
           \/ c = "AT+CMGD" /\ proc' = "del" /\ x = Index(todo)' /\ IsPrinted(x)'
           \/ c = "AT+CMGS" /\ proc' = "send"
           \/ c \notin {"AT+CMGR", "AT+CMGD", "AT+CMGS"} /\ proc' \notin {"read", "del"}
    PROVE  Order'
<1>1. at' = "try" /\ cmd' = Cmd(c, x) /\ cmd'.name = c
  BY DEF Ask, Call, Cmd
<1>2. AskedInv'
  BY <1>1 DEF AskedInv
<1>3. UNCHANGED <<serial, mem, gone, entry, sends, spoilt>>
  BY DEF Ask, modemVars, memory, sending
<1>4. (job' = "send" => sends' = 0) /\ result' # "sent" /\ "command" \notin spoilt'
  BY <1>3 DEF Order, SentInv
<1> QED BY <1>2, <1>3, <1>4, OrderCall DEF Ask

(* Between two calls no text is due, but in sendenglish.                    *)
LEMMA NothingDue ==
    ASSUME at = "idle", proc \notin {"send", "text", "confirm"}
    PROVE  ~TextDue
  BY DEF TextDue

LEMMA OrderStart == ASSUME DInv, Order, Start PROVE Order'
<1>1. at = "idle" /\ job = "none" /\ proc = "none"
  BY DEF Start, Order, AskedInv
<1>2. /\ job' \in {"list", "send"} /\ proc' = "judge" /\ Call(Cmd("ATE0", 0))
      /\ UNCHANGED <<serial, mem, gone, entry, printed>> /\ sends' = 0 /\ "command" \notin spoilt' /\ result' = "none"
  BY DEF Start, memory
<1>3. AskedInv'
  BY <1>2 DEF AskedInv, Call, Cmd
<1> QED BY <1>1, <1>2, <1>3, NothingDue, OrderCall

LEMMA OrderJudge == ASSUME DInv, Order, JudgeNext \/ JudgeAgain \/ List \/ Send PROVE Order'
<1>1. at = "idle" /\ proc = "judge" /\ job # "none"
  BY DEF JudgeNext, JudgeAgain, List, Send, Judged, At, Order, AskedInv
<1>2. PICK c \in {"ATE0", "AT", "AT+CPIN", "AT+CREG", "AT+CSQ", "AT+CMGF"} : Ask(c, 0)
  BY DEF JudgeNext, JudgeAgain, List, Send
<1>3. /\ UNCHANGED <<job, result, printed>> /\ proc' \in {"judge", "list", "send"}
      /\ proc' = "send" => job = "send"
  BY <1>1 DEF JudgeNext, JudgeAgain, List, Send, Judged, Within
<1> QED BY <1>1, <1>2, <1>3, NothingDue, OrderAsk

LEMMA OrderList == ASSUME DInv, Order, ListNext \/ ListAgain \/ NoneListed PROVE Order'
<1>1. at = "idle" /\ proc = "list" /\ job # "none"
  BY DEF ListNext, ListAgain, NoneListed, At, Order, AskedInv
<1>2. PICK c \in {"AT+CMGF", "AT+CMGL", "AT+CPMS"} : Ask(c, 0)
  BY DEF ListNext, ListAgain, NoneListed, Setup
<1>3. job' \in {job, "wait"} /\ UNCHANGED <<result, printed>> /\ proc' \in {"list", "setup"}
  BY <1>1 DEF ListNext, ListAgain, NoneListed, Setup, Within
<1> QED BY <1>1, <1>2, <1>3, NothingDue, OrderAsk

LEMMA OrderSetup ==
    ASSUME DInv, Order, at = "idle", proc \in {"setup", "read", "del"}, UNCHANGED printed,
           \/ SetupAgain
           \/ Setup
           \/ /\ \E c \in {"AT+CMGF", "AT+CNMI"} : Ask(c, 0)
              /\ UNCHANGED <<proc, job, result>> /\ proc = "setup"
    PROVE  Order'
<1>1. job # "none"
  BY DEF Order, AskedInv
<1>2. PICK c \in {"AT+CMGF", "AT+CNMI", "AT+CPMS"} : Ask(c, 0)
  BY DEF SetupAgain, Setup
<1>3. job' \in {job, "wait"} /\ UNCHANGED result /\ proc' = "setup"
  BY DEF SetupAgain, Setup, Within
<1> QED BY <1>1, <1>2, <1>3, NothingDue, OrderAsk

(* The number that is asked for is that of the text at hand.                *)
LEMMA OrderRead ==
    ASSUME DInv, Order, at = "idle", proc \in {"list", "read", "del", "noticed"},
           NEW x, Ask("AT+CMGR", x), x = Index(todo'), proc' = "read",
           UNCHANGED <<job, result, printed>>
    PROVE  Order'
<1>1. job # "none"
  BY DEF Order, AskedInv
<1>2. x = Index(todo)'
  BY DEF Index, AfterColon, AfterComma
<1> QED BY <1>1, <1>2, NothingDue, OrderAsk

LEMMA OrderDelete ==
    ASSUME DInv, Order, Output \/ DeleteAgain
    PROVE  Order'
<1>1. at = "idle" /\ proc \in {"read", "del"} /\ job # "none"
  BY DEF Output, DeleteAgain, At, Order, AskedInv
<1>2. PICK x : x = Index(todo)
  OBVIOUS
<1>3. x = Index(todo)'
  BY <1>2 DEF Output, DeleteAgain, Within, Index, AfterColon, AfterComma
<1>4. Ask("AT+CMGD", x) /\ proc' = "del" /\ UNCHANGED <<job, result>> /\ mem' = mem
  <2>1. Ask("AT+CMGD", Index(todo)) /\ proc' = "del" /\ UNCHANGED <<job, result>>
    BY <1>1 DEF Output, DeleteAgain, Within, At
  <2>2. Ask("AT+CMGD", x)
    BY <1>2, <2>1, Zenon
  <2>3. mem' = mem
    BY <2>2 DEF Ask, modemVars, memory
  <2> QED BY <2>1, <2>2, <2>3
<1>5. printed \subseteq printed' /\ IsPrinted(x)'
  <2>1. CASE Output
    <3>1. proc = "read" /\ Shows(reply, "+CMGR") /\ printed' = printed \cup Contents(reply)
      BY <2>1 DEF Output, At
    <3>2. cmd.name = "AT+CMGR" /\ cmd.arg = x /\ Told(reply)
      BY <1>1, <1>2, <3>1 DEF Order, AskedInv, ToldInv, Cmd
    <3>3. IsRead(x, reply)
      BY <3>1, <3>2 DEF Told
    <3> QED BY <1>4, <3>1, <3>3 DEF IsRead, IsPrinted
  <2>2. CASE DeleteAgain
    <3>1. proc = "del" /\ ~Shows(reply, "OK") /\ printed' = printed
      BY <2>2 DEF DeleteAgain, At, Within
    <3>2. cmd.name = "AT+CMGD" /\ cmd.arg = x /\ Told(reply)
      BY <1>1, <1>2, <3>1 DEF Order, AskedInv, ToldInv, Cmd
    <3>3. IsPrinted(x)
      BY <3>1, <3>2 DEF Told
    <3> QED BY <1>4, <3>1, <3>3 DEF IsPrinted
  <2> QED BY <2>1, <2>2
<1> QED BY <1>1, <1>3, <1>4, <1>5, NothingDue, OrderAsk

(* A job ends: nothing is left on its way and no text is due.               *)
LEMMA OrderEnd ==
    ASSUME DInv, Order, ~TextDue, at' = "idle", job' = "none", proc' = "none",
           UNCHANGED <<cmd, mem, gone, entry, sends, spoilt, printed>>,
           asked' = <<>>, Notified(line'), result' = "sent" => Taken
    PROVE  Order'
<1>1. LineInv'
  BY DEF LineInv, Notified
<1>2. AskedInv'
  BY DEF AskedInv
<1>3. ToldInv'
  BY DEF ToldInv
<1>4. SentInv'
  <2>1. ~TextDue' /\ entry' = "no"
    BY DEF TextDue, Order, SentInv
  <2>2. "command" \notin spoilt'
    BY DEF Order, SentInv
  <2> QED BY <2>1, <2>2 DEF SentInv, Taken
<1> QED BY <1>1, <1>2, <1>3, <1>4 DEF Order

LEMMA OrderQuit ==
    ASSUME DInv, Order, at = "idle", proc # "confirm", job # "none", ~TextDue, End,
           UNCHANGED <<atVars, modemVars, printed>>, result' \in {result, "failed"}
    PROVE  Order'
<1>1. asked = <<>> /\ Notified(line) /\ result # "sent"
  BY DEF Order, LineInv, SentInv
<1>2. UNCHANGED <<at, cmd, asked, line, mem, gone, entry, sends, spoilt>>
  BY DEF atVars, modemVars, memory, sending
<1> QED BY <1>1, <1>2, OrderEnd DEF End

LEMMA OrderReading ==
    ASSUME DInv, Order, ReadFirst \/ ReadAgain \/ ReadNoticed
    PROVE  Order'
<1>1. at = "idle" /\ proc \in {"list", "read", "noticed"}
  BY DEF ReadFirst, ReadAgain, ReadNoticed, At, DInv, JInv
<1>2. PICK x : x = Index(todo')
  OBVIOUS
<1>3. Ask("AT+CMGR", Index(todo'))
  <2>1. CASE ReadFirst \/ ReadNoticed
    BY <2>1 DEF ReadFirst, ReadNoticed
  <2>2. CASE ReadAgain
    <3>1. Ask("AT+CMGR", Index(todo)) /\ todo' = todo
      BY <2>2 DEF ReadAgain, Within
    <3> QED BY <3>1, Zenon
  <2> QED BY <2>1, <2>2
<1>4. Ask("AT+CMGR", x)
  BY <1>2, <1>3, Zenon
<1>5. proc' = "read" /\ UNCHANGED <<job, result, printed>>
  BY <1>1 DEF ReadFirst, ReadAgain, ReadNoticed, Within, At
<1> QED BY <1>1, <1>2, <1>4, <1>5, OrderRead

LEMMA OrderDeleted ==
    ASSUME DInv, Order, Deleted \/ OutputFails
    PROVE  Order'
<1>1. at = "idle" /\ proc \in {"read", "del"} /\ job # "none" /\ printed' = printed /\ ~TextDue
  BY NothingDue DEF Deleted, OutputFails, At, Order, AskedInv
<1>2. CASE Setup
  BY <1>1, <1>2, OrderSetup
<1>3. CASE End /\ UNCHANGED <<atVars, modemVars, result>>
  BY <1>1, <1>3, OrderQuit
<1>4. CASE ~Setup /\ ~(End /\ UNCHANGED <<atVars, modemVars, result>>)
  <2>1. Ask("AT+CMGR", Index(todo')) /\ proc' = "read" /\ UNCHANGED <<job, result>>
    BY <1>4 DEF Deleted, OutputFails
  <2>2. PICK x : x = Index(todo')
    OBVIOUS
  <2>3. Ask("AT+CMGR", x)
    BY <2>1, <2>2, Zenon
  <2> QED BY <1>1, <2>1, <2>2, <2>3, OrderRead
<1> QED BY <1>2, <1>3, <1>4

(* wait_newmsg_txt is about to read notices, or reads some.                 *)
LEMMA OrderListen ==
    ASSUME DInv, Order, at = "idle", proc \in {"setup", "notices"},
           UNCHANGED atVars \/ Listen, UNCHANGED <<modemVars, job, todo, printed, result>>,
           proc' \in {"notices", "noticed"}
    PROVE  Order'
<1>1. at' = "idle" /\ asked' = <<>> /\ Notified(line')
  BY Received DEF Listen, atVars, Order, LineInv
<1>2. UNCHANGED <<cmd, mem, gone, entry, sends, spoilt>>
  BY DEF Listen, atVars, modemVars, memory, sending
<1>3. LineInv' /\ AskedInv' /\ ToldInv'
  BY <1>1, <1>2 DEF LineInv, Notified, AskedInv, ToldInv, Order
<1>4. SentInv'
  <2>1. ~TextDue /\ ~TextDue'
    BY <1>1 DEF TextDue
  <2> QED BY <1>2, <2>1 DEF SentInv, Order, Taken
<1> QED BY <1>2, <1>3, <1>4 DEF Order

LEMMA OrderWait ==
    ASSUME DInv, Order, SetupNext \/ SetupAgain \/ ReadNotices \/ WaitInterrupted
    PROVE  Order'
<1>1. at = "idle" /\ proc \in {"setup", "notices"} /\ job # "none"
  BY DEF SetupNext, SetupAgain, ReadNotices, WaitInterrupted, At, DInv, JInv, Order, AskedInv
<1>2. CASE SetupAgain
  BY <1>1, <1>2, OrderSetup DEF SetupAgain, Within
<1>3. CASE SetupNext
  <2>1. proc = "setup" /\ UNCHANGED <<job, todo, printed, result>>
    BY <1>3 DEF SetupNext, At
  <2>2. CASE \E c \in {"AT+CMGF", "AT+CNMI"} : Ask(c, 0) /\ UNCHANGED proc
    BY <1>1, <2>1, <2>2, OrderSetup
  <2>3. CASE proc' = "notices" /\ UNCHANGED <<atVars, modemVars>>
    BY <1>1, <2>1, <2>3, OrderListen
  <2> QED BY <1>3, <2>2, <2>3 DEF SetupNext
<1>4. CASE ReadNotices
  BY <1>1, <1>4, OrderListen DEF ReadNotices
<1>5. CASE WaitInterrupted
  BY <1>1, <1>5, OrderQuit, NothingDue DEF WaitInterrupted
<1> QED BY <1>2, <1>3, <1>4, <1>5

LEMMA OrderSend ==
    ASSUME DInv, Order, SendTo \/ SendAgain \/ SendNothing
    PROVE  Order'
<1>1. at = "idle" /\ proc \in {"judge", "send"} /\ job = "send" /\ ~TextDue
  BY DEF SendTo, SendAgain, SendNothing, Judged, At, Order, AskedInv, TextDue
<1>2. CASE SendNothing
  BY <1>1, <1>2, OrderQuit DEF SendNothing
<1>3. CASE SendTo \/ SendAgain
  <2>1. PICK c \in {"AT+CMGS", "AT+CMGF"} : Ask(c, 0)
    BY <1>3 DEF SendTo, SendAgain
  <2>2. proc' = "send" /\ UNCHANGED <<job, result, printed>>
    BY <1>3 DEF SendTo, SendAgain, At, Within
  <2> QED BY <1>1, <2>1, <2>2, OrderAsk
<1> QED BY <1>2, <1>3

LEMMA OrderText == ASSUME DInv, Order, SendText PROVE Order'
<1>1. /\ at = "idle" /\ proc \in {"send", "text"} /\ TextDue /\ ~Shows(reply, "OK")
      /\ cmd.name = "AT+CMGS"
  BY DEF SendText, At, DInv, JInv, TextDue, Order, AskedInv, ToldInv, Told
<1>2. asked = <<>> /\ Notified(line) /\ entry = "clean" /\ job = "send" /\ sends = 0 /\ "command" \notin spoilt
  BY <1>1 DEF Order, LineInv, AskedInv, SentInv
<1>3. UNCHANGED <<at, cmd, reply, line, mem, gone, entry, sends, spoilt, job, todo, printed, result>>
  BY DEF SendText, Tell, Put, modemVars, memory, sending
<1>4. \/ proc' = "confirm" /\ Telling' /\ asked' # <<>>
      \/ proc' = "text" /\ asked' = <<>>
  <2>1. ASSUME NEW other \in {0, 1}, Put(Cmd("text", other)) PROVE Telling' /\ asked' # <<>>
    BY <1>2, <2>1, AskedAssumption DEF Put, Telling
  <2> QED BY <1>2, <2>1 DEF SendText, Tell
<1>5. LineInv' /\ AskedInv' /\ ToldInv'
  BY <1>1, <1>2, <1>3, <1>4 DEF LineInv, Notified, AskedInv, ToldInv, Order, Shows
<1>6. SentInv'
  <2>1. TextDue'
    BY <1>4 DEF TextDue
  <2>2. ~(proc = "confirm" /\ asked = <<>>)' /\ result # "sent"
    BY <1>2, <1>4 DEF Order, SentInv
  <2> QED BY <1>2, <1>3, <2>1, <2>2 DEF SentInv
<1> QED BY <1>3, <1>5, <1>6 DEF Order

LEMMA OrderConfirm ==
    ASSUME DInv, Order, Confirm, strays' = strays
    PROVE  Order'
<1>1. at = "idle" /\ proc = "confirm" /\ job = "send" /\ cmd.name = "AT+CMGS" /\ ~Shows(reply, "OK")
  BY DEF Confirm, DInv, JInv, Order, AskedInv, ToldInv
<1>2. /\ UNCHANGED <<at, cmd, asked>> /\ (Notified(line) => Notified(line'))
      /\ \A kind : Shows(line', kind) => Shows(line, kind)
      /\ Shows(reply', "OK") => Shows(line, "OK")
  <2>1. CASE Listen
    BY <2>1, Received DEF Listen
  <2>2. CASE UNCHANGED atVars
    BY <1>1, <2>2 DEF atVars
  <2> QED BY <2>1, <2>2 DEF Confirm
<1>3. UNCHANGED <<mem, gone, entry, sends, spoilt, printed>>
  BY DEF Confirm, modemVars, memory, sending
<1>4. asked = <<>> /\ Shows(reply', "OK") => Taken
  BY <1>1, <1>2 DEF Order, SentInv
<1>5. CASE End
  <2>1. job' = "none" /\ proc' = "none"
    BY <1>5 DEF End
  <2>2. Quiet'
    BY <2>1 DEF Confirm, DInv, JInv
  <2>3. asked = <<>> /\ asked' = <<>> /\ line' = <<>>
    BY <1>2, <2>2 DEF Quiet
  <2>4. ~TextDue /\ Notified(line')
    BY <1>1, <2>3 DEF TextDue, Notified
  <2>5. result' = "sent" => Taken
    <3>1. result' = "sent" => Shows(reply', "OK")
      BY <1>1, <2>1 DEF Confirm
    <3> QED BY <1>4, <2>3, <3>1
  <2> QED BY <1>1, <1>2, <1>3, <2>1, <2>3, <2>4, <2>5, OrderEnd
<1>6. CASE ~End
  <2>1. UNCHANGED <<job, proc, todo, result>> /\ ~Shows(reply', "OK")
    BY <1>6 DEF Confirm
  <2>2. LineInv' /\ AskedInv' /\ ToldInv'
    BY <1>1, <1>2, <1>3, <2>1 DEF LineInv, Notified, AskedInv, ToldInv, Order, Telling
  <2>3. SentInv'
    <3>1. TextDue' <=> TextDue
      BY <1>1, <1>2, <2>1 DEF TextDue
    <3> QED BY <1>1, <1>2, <1>3, <2>1, <3>1 DEF SentInv, Order, Taken
  <2> QED BY <1>3, <2>2, <2>3 DEF Order
<1> QED BY <1>5, <1>6

LEMMA OrderCancel ==
    ASSUME DInv, Order, Cancel, strays' = strays
    PROVE  Order'
<1>1. Quiet /\ job \in {"list", "wait"} /\ Abandon /\ End
  BY DEF Cancel, DInv, JInv
<1>2. line = <<>> /\ asked = <<>> /\ line' = <<>> /\ asked' = <<>> /\ at' = "idle" /\ cmd' = cmd
  BY <1>1 DEF Quiet, Abandon
<1>3. proc \notin {"send", "text", "confirm"} /\ result # "sent"
  BY <1>1 DEF Order, AskedInv, SentInv
<1>4. ~TextDue /\ Notified(line')
  BY <1>2, <1>3 DEF TextDue, Shows, Notified
<1>5. UNCHANGED <<mem, gone, entry, sends, spoilt, printed, result>>
  BY DEF Cancel, modemVars, memory, sending
<1> QED BY <1>1, <1>2, <1>3, <1>4, <1>5, OrderEnd DEF End

-----------------------------------------------------------------------------
(* AT_test and the modem.                                                   *)

LEMMA OrderDialogue ==
    ASSUME DInv, Order, Dialogue, strays' = strays
    PROVE  Order'
<1>1. /\ AT_test /\ ~Stray /\ UNCHANGED <<job, proc, todo, printed, result>>
      /\ UNCHANGED <<mem, gone, entry, sends, spoilt>>
  BY DEF Dialogue, DInv, JInv, jobVars, modemVars, memory, sending
<1>2. at # "idle" /\ cmd' = cmd /\ proc \notin {"text", "confirm"}
  BY <1>1 DEF AT_test, Try, Write, WriteFails, ReadFails, Read, Attempt, DInv, JInv
<1>3. AskedInv'
  BY <1>1, <1>2 DEF Order, AskedInv, Index
<1>4. CASE Try \/ WriteFails
  <2>1. at \in {"try", "write"} /\ at' \in {"try", "write"} /\ UNCHANGED <<asked, line>>
    BY <1>4 DEF Try, WriteFails, Attempt
  <2>2. LineInv' /\ ToldInv'
    BY <1>1, <1>2, <2>1 DEF Order, LineInv, ToldInv, IsPrinted, Notified
  <2>3. ~TextDue /\ ~TextDue'
    BY <1>1, <1>2, <2>1 DEF TextDue
  <2> QED BY <1>1, <1>2, <1>3, <2>2, <2>3 DEF Order, SentInv, Taken
<1>5. CASE Write
  <2>1. at = "write" /\ at' = "read" /\ line' = line /\ asked = <<>> /\ Notified(line)
    BY <1>2, <1>5 DEF Write, Put, Order, LineInv
  <2>2. asked' = <<cmd>>
    BY <1>5, <2>1, AskedAssumption DEF Write, Put
  <2>3. LineInv' /\ ToldInv'
    BY <1>1, <1>2, <2>1, <2>2 DEF Order, LineInv, ToldInv, IsPrinted, Notified
  <2>4. ~TextDue /\ ~TextDue'
    BY <1>1, <1>2, <2>1, <2>2 DEF TextDue
  <2> QED BY <1>1, <1>2, <1>3, <2>3, <2>4 DEF Order, SentInv, Taken
<1>6. CASE ReadFails \/ Read
  <2>1. at = "read" /\ line' = <<>> /\ asked' = <<>> /\ asked = <<>> /\ Told(line)
    BY <1>1, <1>6 DEF ReadFails, Read, Receive, Stray, Quiet, Order, ToldInv
  <2>2. CASE at' = "try" /\ (cmd.name \in {"AT+CMGD", "AT+CMGS"} => ~Shows(line, "OK") /\ ~Shows(line, ">"))
    <3>1. LineInv' /\ ToldInv'
      BY <1>1, <1>2, <2>1, <2>2 DEF LineInv, Notified, ToldInv, Told, IsPrinted
    <3>2. ~TextDue /\ ~TextDue'
      BY <1>1, <1>2, <2>1, <2>2 DEF TextDue
    <3> QED BY <1>1, <1>2, <1>3, <3>1, <3>2 DEF Order, SentInv, Taken
  <2>3. CASE at' = "idle" /\ reply' = line
    <3>1. LineInv'
      BY <1>1, <1>2, <2>1, <2>3 DEF LineInv, Notified
    <3>2. ToldInv'
      BY <1>1, <1>2, <2>1, <2>3 DEF ToldInv, Told, IsPrinted, IsRead, Shows, Contents
    <3>3. TextDue' <=> TextDue
      BY <1>1, <1>2, <2>1, <2>3 DEF TextDue, Shows, Order, AskedInv
    <3> QED BY <1>1, <1>2, <1>3, <3>1, <3>2, <3>3 DEF Order, SentInv, Taken
  <2>4. CASE ReadFails
    <3>1. line = <<>> /\ at' = "try"
      BY <2>1, <2>4 DEF ReadFails, Attempt
    <3>2. \A kind : ~Shows(line, kind)
      BY <3>1 DEF Shows
    <3> QED BY <2>2, <3>1, <3>2
  <2>5. CASE Read
    <3>1. reply' = line
      BY <2>1, <2>5, Whole DEF Read
    <3>2. CASE at' = "idle"
      BY <2>3, <3>1, <3>2
    <3>3. CASE at' = "try" /\ TooShort(reply')
      <4>1. \A kind : kind # "eol" => ~Shows(line, kind)
        BY <3>1, <3>3 DEF TooShort, Shows, DInv, TInv, AtTypeOK
      <4> QED BY <2>2, <3>3, <4>1
    <3>4. CASE at' = "try" /\ Shows(reply', "ERROR")
      BY <2>1, <2>2, <3>1, <3>4 DEF Told
    <3> QED BY <2>5, <3>2, <3>3, <3>4 DEF Read, Attempt
  <2> QED BY <1>6, <2>4, <2>5
<1> QED BY <1>1, <1>4, <1>5, <1>6 DEF AT_test

(* The modem answers the command that AT_test waits for.                    *)
LEMMA AnswerTells ==
    ASSUME DInv, asked = <<cmd>>, Notified(line), NEW a \in ModemAnswers, Reply(a)
    PROVE  /\ UNCHANGED <<at, cmd, reply>> /\ asked' = <<>>
           /\ \A kind : kind # "+CMTI" => (Shows(line', kind) <=> Tells(a, kind))
           /\ \A k \in DOMAIN a : a[k].kind = "+CMGR" => a[k].arg \in Contents(line')
<1>1. a \in Seq([kind : Kinds, arg : Args])
  BY ModemAssumption, AnswersAssumption
<1>2. line \in Seq(Texts) /\ cmd \in Commands
  BY DEF DInv, TInv, AtTypeOK
<1>3. line' = line \o From(cmd, a) /\ asked' = <<>> /\ UNCHANGED <<at, cmd, reply>>
  BY DEF Reply
<1>4. /\ \A kind : Shows(line \o From(cmd, a), kind) <=> Shows(line, kind) \/ Tells(a, kind)
      /\ \A k \in DOMAIN a : a[k].kind = "+CMGR" => a[k].arg \in Contents(line \o From(cmd, a))
  BY <1>1, <1>2, Appended
<1>5. \A kind : kind # "+CMTI" => ~Shows(line, kind)
  BY NotifiedShows
<1> QED BY <1>3, <1>4, <1>5

LEMMA OrderAnswer ==
    ASSUME DInv, Order, at = "read", asked = <<cmd>>, Notified(line), Work,
           UNCHANGED <<job, proc, todo, printed, result>>
    PROVE  Order'
<1> DEFINE Answered(a) ==
             /\ UNCHANGED <<at, cmd, reply>> /\ asked' = <<>>
             /\ \A kind : kind # "+CMTI" => (Shows(line', kind) <=> Tells(a, kind))
             /\ \A k \in DOMAIN a : a[k].kind = "+CMGR" => a[k].arg \in Contents(line')
<1>1. proc \notin {"text", "confirm"} /\ Head(asked) = cmd
  BY DEF DInv, JInv
<1>2. ~TextDue /\ entry = "no" /\ (cmd.name = "AT+CMGD" => IsPrinted(cmd.arg))
  BY <1>1 DEF TextDue, Order, SentInv, ToldInv
<1>3. \A a \in ModemAnswers : Reply(a) => Answered(a)
  BY AnswerTells
<1>4. Refuse \/ Lose \/ Carry(cmd)
  BY <1>1, <1>2 DEF Work
<1>5. ASSUME UNCHANGED <<at, cmd, reply, sends, spoilt>>, asked' = <<>>, Told(line)',
             entry' \in {"no", "clean"}, cmd.name # "AT+CMGS" => entry' = "no",
             gone' \subseteq printed
      PROVE  Order'
  <2>1. LineInv' /\ AskedInv'
    BY <1>1, <1>5 DEF LineInv, Notified, AskedInv, Order, Index
  <2>2. ToldInv'
    BY <1>1, <1>5 DEF ToldInv
  <2>3. TextDue' <=> cmd.name = "AT+CMGS" /\ Shows(line', ">")
    BY <1>1, <1>5 DEF TextDue
  <2>4. cmd.name = "AT+CMGS" => (Shows(line', ">") <=> entry' = "clean")
    BY <1>5 DEF Told
  <2>5. SentInv'
    BY <1>1, <1>5, <2>3, <2>4 DEF SentInv, Order, Taken
  <2> QED BY <1>5, <2>1, <2>2, <2>5 DEF Order
<1>6. CASE Refuse \/ Lose
  <2>1. PICK a \in {Error, <<>>} : Reply(a) /\ UNCHANGED modemVars
    BY <1>6 DEF Refuse, Lose
  <2>2. Answered(a)
    BY <1>3, <2>1 DEF ModemAnswers
  <2>3. ~Tells(a, "OK") /\ ~Tells(a, ">") /\ ~Tells(a, "+CMGR")
    BY <2>1 DEF Tells, Error, Eol, Txt
  <2>4. Told(line)'
    BY <1>2, <2>1, <2>2, <2>3 DEF Told, IsPrinted, modemVars, memory, sending
  <2> QED BY <1>2, <1>5, <2>1, <2>2, <2>4 DEF modemVars, memory, sending, Order
<1>7. CASE Status(cmd) \/ SetNotify(cmd) \/ ListUnread(cmd)
  <2>1. cmd.name \notin {"AT+CMGR", "AT+CMGD", "AT+CMGS"} /\ UNCHANGED <<gone, sending>>
    BY <1>7 DEF Status, SetNotify, ListUnread, modemVars, memory
  <2>2. PICK a : Reply(a)
    BY <1>7 DEF Status, SetNotify, ListUnread
  <2>3. UNCHANGED <<at, cmd, reply>> /\ asked' = <<>>
    BY <2>2 DEF Reply
  <2>4. Told(line)'
    BY <2>1, <2>3 DEF Told
  <2> QED BY <1>2, <1>5, <2>1, <2>3, <2>4 DEF sending, Order
<1>8. CASE ReadMessage(cmd)
  <2>1. cmd.name = "AT+CMGR" /\ UNCHANGED <<mem, gone, sending>>
    BY <1>8 DEF ReadMessage
  <2>2. CASE cmd.arg \in Indices /\ mem[cmd.arg] # 0
    <3>1. PICK m \in 1..MaxEvents : m = mem[cmd.arg] /\ Reply(Then("+CMGR", m))
      <4>1. mem[cmd.arg] \in 0..MaxEvents
        BY <2>2 DEF DInv, JInv
      <4>2. mem[cmd.arg] \in 1..MaxEvents
        BY <2>2, <4>1, IndicesAssumption
      <4> QED BY <1>8, <2>2, <4>2 DEF ReadMessage
    <3>2. Answered(Then("+CMGR", m))
      BY <1>3, <3>1 DEF ModemAnswers
    <3>3. 1 \in DOMAIN Then("+CMGR", m) /\ Then("+CMGR", m)[1] = Txt("+CMGR", m)
      BY DEF Then, Ok, Eol
    <3>4. m \in Contents(line')
      BY <3>2, <3>3 DEF Txt
    <3>5. Told(line)'
      BY <2>1, <2>2, <3>1, <3>2, <3>4 DEF Told, IsRead
    <3> QED BY <1>2, <1>5, <2>1, <3>2, <3>5 DEF sending, Order
  <2>3. CASE ~(cmd.arg \in Indices /\ mem[cmd.arg] # 0)
    <3>1. Reply(Ok)
      BY <1>8, <2>3 DEF ReadMessage
    <3>2. Answered(Ok)
      BY <1>3, <3>1 DEF ModemAnswers
    <3>3. ~Tells(Ok, "+CMGR")
      BY DEF Tells, Ok, Eol, Txt
    <3>4. Told(line)'
      BY <2>1, <3>2, <3>3 DEF Told
    <3> QED BY <1>2, <1>5, <2>1, <3>2, <3>4 DEF sending, Order
  <2> QED BY <2>2, <2>3
<1>9. CASE DeleteMessage(cmd)
  <2>1. cmd.name = "AT+CMGD" /\ Reply(Ok) /\ UNCHANGED sending
        /\ gone' = gone \cup ({mem[cmd.arg]} \ {0})
    BY <1>9 DEF DeleteMessage
  <2>2. Answered(Ok)
    BY <1>3, <2>1 DEF ModemAnswers
  <2>3. Tells(Ok, "OK") /\ ~Tells(Ok, "ERROR")
    <3>1. Len(Ok) = 2 /\ Ok[1].kind = "eol" /\ Ok[2].kind = "OK"
      BY DEF Ok, Eol, Txt
    <3> QED BY <3>1 DEF Tells, Ok
  <2>4. Told(line)'
    BY <2>1, <2>2, <2>3 DEF Told
  <2>5. gone' \subseteq printed
    BY <1>2, <2>1 DEF IsPrinted, Order
  <2> QED BY <1>2, <1>5, <2>1, <2>2, <2>4, <2>5 DEF sending
<1>10. CASE Prompt(cmd)
  <2>1. cmd.name = "AT+CMGS" /\ Reply(<<Txt(">", 0)>>) /\ entry' = "clean"
        /\ UNCHANGED <<gone, sends, spoilt>>
    BY <1>10 DEF Prompt, memory
  <2>2. Answered(<<Txt(">", 0)>>)
    BY <1>3, <2>1 DEF ModemAnswers
  <2>3. Tells(<<Txt(">", 0)>>, ">") /\ ~Tells(<<Txt(">", 0)>>, "OK") /\ ~Tells(<<Txt(">", 0)>>, "ERROR")
    BY DEF Tells, Txt
  <2>4. Told(line)'
    BY <2>1, <2>2, <2>3 DEF Told
  <2> QED BY <1>5, <2>1, <2>2, <2>4 DEF Order
<1> QED BY <1>4, <1>6, <1>7, <1>8, <1>9, <1>10 DEF Carry

(* It takes the text that was announced.                                    *)
LEMMA OrderEntered ==
    ASSUME DInv, Order, proc = "confirm", Telling, Notified(line), Work,
           UNCHANGED <<job, proc, todo, printed, result>>
    PROVE  Order'
<1>1. /\ at = "idle" /\ TextDue /\ entry = "clean" /\ job = "send" /\ sends = 0
      /\ "command" \notin spoilt
  BY DEF DInv, JInv, TextDue, Order, SentInv, AskedInv, Telling
<1>2. PICK c : /\ c \in {Cmd("text", 0), Cmd("text", 1)} /\ Head(asked) = c /\ asked = <<c>>
               /\ Enter(c) /\ c.name = "text"
  <2>1. PICK c \in {Cmd("text", 0), Cmd("text", 1)} : asked = <<c>>
    BY DEF Telling
  <2> QED BY <1>1, <2>1 DEF Work, Cmd
<1>3. entry' = "no" /\ UNCHANGED <<mem, gone>>
  BY <1>2 DEF Enter, memory
<1>4. PICK a : Reply(a) /\ "command" \notin spoilt' /\ (a = Error \/ Taken')
  <2>1. Wrong(c) = IF c.arg # 0 THEN {"text"} ELSE {}
    BY <1>1 DEF Wrong
  <2>2. CASE Reply(Error) /\ UNCHANGED <<sends, spoilt>>
    BY <1>1, <2>2
  <2>3. CASE sends' = 1 /\ spoilt' = spoilt \cup Wrong(c) /\ Reply(Then("+CMGS", 0))
    BY <1>1, <2>1, <2>3 DEF Taken
  <2>4. CASE c.arg # 0 /\ sends' = 0 /\ spoilt' = spoilt \cup Wrong(c) /\ Reply(Ok)
    BY <1>1, <2>1, <2>4 DEF Taken
  <2> QED BY <1>1, <1>2, <2>2, <2>3, <2>4 DEF Enter
<1>5. UNCHANGED <<at, cmd, reply>> /\ asked' = <<>>
  BY <1>2, <1>4 DEF Reply
<1>6. ~Taken' => ~Shows(line', "OK")
  <2> SUFFICES ASSUME ~Taken' PROVE ~Shows(line', "OK")
    OBVIOUS
  <2>1. Reply(Error) /\ Error \in Seq([kind : Kinds, arg : Args])
    BY <1>4, ModemAssumption, AnswersAssumption DEF ModemAnswers
  <2>2. line \in Seq(Texts) /\ c \in Commands
    BY <1>2, CommandsGiven DEF DInv, TInv, AtTypeOK
  <2>3. line' = line \o From(c, Error)
    BY <1>2, <2>1 DEF Reply
  <2>4. Shows(line', "OK") => Shows(line, "OK") \/ Tells(Error, "OK")
    BY <2>1, <2>2, <2>3, Appended
  <2>5. ~Tells(Error, "OK")
    BY DEF Tells, Error, Eol, Txt
  <2> QED BY <2>4, <2>5, NotifiedShows
<1>7. LineInv' /\ AskedInv' /\ ToldInv'
  BY <1>1, <1>3, <1>5 DEF LineInv, AskedInv, ToldInv, Order
<1>8. SentInv'
  <2>1. ~TextDue'
    BY <1>1, <1>5 DEF TextDue
  <2>2. result # "sent"
    BY <1>1 DEF Order, SentInv
  <2> QED BY <1>3, <1>4, <1>5, <1>6, <2>1, <2>2 DEF SentInv, Taken
<1> QED BY <1>3, <1>7, <1>8 DEF Order

LEMMA OrderModem == ASSUME DInv, Order, ModemStep PROVE Order'
<1>1. Work /\ UNCHANGED <<job, proc, todo, printed, result>> /\ asked # <<>>
  BY DEF ModemStep, jobVars, Work
<1>2. CASE proc = "confirm"
  BY <1>1, <1>2, OrderEntered DEF Order, LineInv
<1>3. CASE proc # "confirm"
  <2>1. at = "read"
    BY <1>1, <1>3 DEF Order, LineInv, DInv, TInv, AtTypeOK
  <2> QED BY <1>1, <2>1, OrderAnswer DEF Order, LineInv
<1> QED BY <1>2, <1>3

(* A message that comes in takes a free place, which none is that was read. *)
LEMMA OrderArrive ==
    ASSUME DInv, Order, Arrive, UNCHANGED jobVars
    PROVE  Order'
<1>1. PICK x \in Indices :
        /\ mem[x] = 0 /\ mem' = [mem EXCEPT ![x] = came + 1]
        /\ IF notify THEN Notice(Txt("+CMTI", x)) ELSE UNCHANGED atVars
  BY DEF Arrive
<1>2. UNCHANGED <<at, cmd, reply, asked, gone, entry, sends, spoilt, job, proc, todo, printed, result>>
  BY <1>1 DEF Arrive, Notice, atVars, jobVars, sending
<1>3. /\ \A kind : kind # "+CMTI" => (Shows(line', kind) <=> Shows(line, kind))
      /\ Contents(line) \subseteq Contents(line')
      /\ Notified(line) => Notified(line')
  <2>1. CASE UNCHANGED atVars
    BY <2>1 DEF atVars
  <2>2. CASE Notice(Txt("+CMTI", x))
    <3> DEFINE a == <<Txt("+CMTI", x)>>
    <3>1. line' = line \o From(Nobody, a) /\ line \in Seq(Texts)
      BY <2>2 DEF Notice, DInv, TInv, AtTypeOK
    <3>2. a \in Seq([kind : Kinds, arg : Args])
      BY ModemAssumption, AnswersAssumption DEF ModemNotices
    <3>3. \A kind : Tells(a, kind) <=> kind = "+CMTI"
      BY DEF Tells, Txt
    <3> HIDE DEF a
    <3>4. /\ \A kind : Shows(line', kind) <=> Shows(line, kind) \/ Tells(a, kind)
          /\ Contents(line) \subseteq Contents(line')
      BY <3>1, <3>2, Appended
    <3>5. \A k \in DOMAIN line' : Shows(line', line'[k].kind)
      BY DEF Shows
    <3>6. Notified(line) => Notified(line')
      BY <3>3, <3>4, <3>5, NotifiedShows DEF Notified
    <3> QED BY <3>3, <3>4, <3>6
  <2> QED BY <1>1, <2>1, <2>2
<1>4. \A y \in Indices : mem[y] # 0 => mem'[y] = mem[y]
  BY <1>1 DEF DInv, JInv
<1>5. LineInv' /\ AskedInv'
  BY <1>2, <1>3 DEF LineInv, AskedInv, Order, Notified, Index, Telling
<1>6. ToldInv'
  <2>1. Told(line) => Told(line)'
    BY <1>2, <1>3, <1>4 DEF Told, IsPrinted, IsRead
  <2>2. Told(reply) => Told(reply)'
    BY <1>2, <1>4 DEF Told, IsPrinted, IsRead, Shows, Contents
  <2>3. IsPrinted(cmd.arg) => IsPrinted(cmd.arg)'
    BY <1>2, <1>4 DEF IsPrinted
  <2> QED BY <1>2, <2>1, <2>2, <2>3 DEF ToldInv, Order, Shows
<1>7. SentInv'
  <2>1. TextDue' <=> TextDue
    BY <1>2, <1>3 DEF TextDue, Shows
  <2> QED BY <1>2, <1>3, <2>1 DEF SentInv, Order, Taken
<1> QED BY <1>2, <1>5, <1>6, <1>7 DEF Order

-----------------------------------------------------------------------------

LEMMA UndisturbedStep == UInv /\ [Next]_vars => UInv'
<1> SUFFICES ASSUME UInv, [Next]_vars PROVE UInv'
  OBVIOUS
<1>1. DInv /\ DInv'
  BY DialogueStep DEF UInv
<1>2. ASSUME strays' = 0 PROVE Order'
  <2>1. strays = 0 \/ UNCHANGED vars
    <3>1. CASE Cancel \/ Confirm \/ Dialogue
      <4>1. strays \in Nat /\ strays' \in {strays, strays + 1}
        BY <1>1, <3>1 DEF Cancel, Confirm, Dialogue, DInv, JInv
      <4> QED BY <1>2, <4>1
    <3>2. CASE ~(Cancel \/ Confirm \/ Dialogue)
      BY <1>2, <3>2 DEF Next, Procedure, ModemStep, Start, JudgeNext, JudgeAgain, Ask, List, ListNext,
            ListAgain, ReadFirst, NoneListed, Setup, ReadAgain, Output, OutputFails, DeleteAgain,
            Deleted, SetupNext, SetupAgain, ReadNotices, ReadNoticed, Send, SendNothing, SendTo,
            SendAgain, SendText, WaitInterrupted
    <3> QED BY <3>1, <3>2
  <2>2. CASE UNCHANGED vars
    <3>1. strays = 0 /\ Order
      BY <1>2, <2>2 DEF vars, UInv
    <3> QED BY <2>2, <3>1 DEF vars, atVars, modemVars, memory, sending, jobVars, Order, LineInv, AskedInv,
            ToldInv, SentInv, TextDue, Told, Shows, Notified, IsPrinted, IsRead, Contents, Index, Taken, Telling
  <2>3. CASE strays = 0 /\ Next
    <3>1. Order /\ strays' = strays
      BY <1>2, <2>3 DEF UInv
    <3> QED BY <1>1, <2>3, <3>1, OrderStart, OrderJudge, OrderList, OrderReading, OrderDelete,
            OrderDeleted, OrderWait, OrderSend, OrderText, OrderConfirm, OrderCancel,
            OrderDialogue, OrderModem, OrderArrive
         DEF Next, Procedure
  <2> QED BY <2>1, <2>2, <2>3
<1> QED BY <1>1, <1>2 DEF UInv

LEMMA UndisturbedInit == Init => UInv
<1> SUFFICES ASSUME Init PROVE UInv
  OBVIOUS
<1>1. DInv
  BY DialogueInit
<1>2. at = "idle" /\ line = <<>> /\ asked = <<>> /\ reply = <<>> /\ proc = "none" /\ job = "none"
  BY DEF Init, AtInit
<1>3. entry = "no" /\ sends = 0 /\ spoilt = {} /\ gone = {} /\ result = "none"
  BY DEF Init, ModemInit
<1>4. LineInv /\ AskedInv /\ ToldInv
  BY <1>2 DEF LineInv, AskedInv, ToldInv, Notified
<1>5. SentInv
  BY <1>2, <1>3 DEF SentInv, TextDue
<1> QED BY <1>1, <1>3, <1>4, <1>5 DEF UInv, Order

(* As long as every answer comes whole and in time, a message is deleted    *)
(* only if its content was printed, and the one under the index at hand is  *)
(* the one that was read: for any number of messages and places, any        *)
(* refusals, lost commands, limits of attempts and moments of arrival.      *)
THEOREM DeletedWasPrintedHolds == Spec => []DeletedWasPrinted
<1>1. UInv => DeletedWasPrinted
  BY DEF UInv, Order, DeletedWasPrinted
<1> QED BY <1>1, UndisturbedInit, UndisturbedStep, PTL DEF Spec

(* As long as every answer comes whole and in time, of a message reported as*)
(* sent the modem took one text, in which no command is, whatever was       *)
(* refused or lost on the way to the prompt.  That it is the message is not *)
(* said: the array it is sent from has no terminator (at_msg.c:260, 278).   *)
THEOREM SentMeansSentHolds == Spec => []SentMeansSent
<1>1. UInv => SentMeansSent
  BY DEF UInv, Order, SentInv, SentMeansSent, Taken
<1> QED BY <1>1, UndisturbedInit, UndisturbedStep, PTL DEF Spec

-----------------------------------------------------------------------------
(* Type correctness of the procedures and their modem.  The count that      *)
(* try_times compares for equality does not get past its limit, although    *)
(* sendenglish counts with one variable to two limits; each message is in   *)
(* one place or deleted, never both; and what is printed came.              *)

CountInv ==
    /\ n \in 0..MaxTries /\ (~exited => n # MaxTries)
    /\ ~exited /\ proc \in {"list", "send", "text"} => n < MaxLists

StoreInv ==
    /\ mem \in [Indices -> 0..came] /\ unread \subseteq {x \in Indices : mem[x] # 0}
    /\ \A x, y \in Indices : mem[x] = mem[y] => x = y \/ mem[x] = 0
    /\ came + strays <= MaxEvents
    /\ gone \subseteq 1..came /\ \A x \in Indices : mem[x] \notin gone
    /\ \A m \in 1..came : m \in gone \/ \E x \in Indices : mem[x] = m

KnownInv ==
    printed \subseteq 1..came /\ Contents(line) \subseteq 1..came /\ Contents(reply) \subseteq 1..came

ValuesInv ==
    /\ job \in {"none", "list", "wait", "send"}
    /\ proc \in {"none", "judge", "list", "read", "del", "setup", "notices",
                 "noticed", "send", "text", "confirm"}
    /\ result \in {"none", "sent", "failed"}
    /\ notify \in BOOLEAN /\ entry \in {"no", "clean", "spoilt"}
    /\ sends \in 0..2 /\ spoilt \subseteq {"command", "text"}

ProcInv == DInv /\ CountInv /\ StoreInv /\ KnownInv /\ ValuesInv

LEMMA ProcInit == Init => ProcInv
<1> SUFFICES ASSUME Init PROVE ProcInv
  OBVIOUS
<1>1. DInv
  BY DialogueInit
<1>2. CountInv
  BY TriesAssumption DEF Init, CountInv
<1>3. came = 0 /\ gone = {} /\ unread = {} /\ strays = 0 /\ mem = [x \in Indices |-> 0]
  BY DEF Init, ModemInit
<1>4. StoreInv
  BY <1>3, IndicesAssumption DEF StoreInv
<1>5. KnownInv
  BY DEF Init, AtInit, KnownInv, Contents
<1>6. ValuesInv
  <2>1. notify = FALSE /\ spoilt = {} /\ entry = "no" /\ sends = 0
    BY DEF Init, ModemInit
  <2>2. notify \in BOOLEAN /\ spoilt \subseteq {"command", "text"}
    BY <2>1, Zenon
  <2>3. entry \in {"no", "clean", "spoilt"} /\ sends \in 0..2
    BY <2>1
  <2>4. job = "none" /\ proc = "none" /\ result = "none"
    BY DEF Init
  <2> QED BY <2>2, <2>3, <2>4 DEF ValuesInv
<1> QED BY <1>1, <1>2, <1>4, <1>5, <1>6 DEF ProcInv

LEMMA ProcCorrect == ProcInv => TypeOK
<1> SUFFICES ASSUME ProcInv PROVE TypeOK
  OBVIOUS
<1>1. AtTypeOK /\ todo \in Seq(Texts) /\ came \in Nat /\ strays \in Nat
  BY DEF ProcInv, DInv, TInv, JInv
<1>2. came \in 0..MaxEvents /\ strays \in 0..MaxEvents - came
  BY <1>1, IndicesAssumption DEF ProcInv, StoreInv
<1>3. mem \in [Indices -> 0..MaxEvents] /\ Stored \cap gone = {} /\ Stored \cup gone = 1..came
  <2>1. \A x \in Indices : mem[x] \in 0..came
    BY DEF ProcInv, StoreInv
  <2>2. \A m \in Stored : m \in 1..came /\ m \notin gone
    BY <2>1, <1>2 DEF Stored, ProcInv, StoreInv
  <2>3. \A m \in 1..came : m \in 1..MaxEvents /\ (m \in gone \/ m \in Stored)
    BY <1>2, IndicesAssumption DEF Stored, ProcInv, StoreInv
  <2> QED BY <2>2, <2>3 DEF ProcInv, StoreInv, DInv, JInv
<1>4. ModemTypeOK
  BY <1>2, <1>3 DEF ModemTypeOK, ProcInv, StoreInv, ValuesInv
<1> QED BY <1>1, <1>2, <1>4 DEF TypeOK, ProcInv, CountInv, KnownInv, ValuesInv

(* What the modem keeps, only the modem changes; and the line is only read, *)
(* by AT_test or past it.                                                   *)
LEMMA ModemKept ==
    ASSUME Procedure \/ WaitInterrupted \/ Cancel \/ Dialogue
    PROVE  UNCHANGED modemVars
  BY DEF Procedure, WaitInterrupted, Cancel, Dialogue, JudgeNext, JudgeAgain, Ask, List, ListNext,
         ListAgain, ReadFirst, NoneListed, Setup, ReadAgain, Output, OutputFails, DeleteAgain,
         Deleted, SetupNext, SetupAgain, ReadNotices, ReadNoticed, Send, SendNothing, SendTo,
         SendAgain, SendText, Confirm

OnlyRead == (reply' \in {reply, <<>>} /\ line' = line) \/ Receive

LEMMA LineOnlyRead ==
    ASSUME Start \/ Procedure \/ WaitInterrupted \/ Cancel \/ Dialogue
    PROVE  OnlyRead
<1>1. ASSUME NEW c, NEW x, Ask(c, x) PROVE OnlyRead
  BY <1>1 DEF Ask, Call, OnlyRead
<1>2. Setup => OnlyRead
  BY <1>1 DEF Setup
<1>3. CASE Start \/ Cancel \/ WaitInterrupted
  BY <1>3 DEF Start, Cancel, WaitInterrupted, Call, Abandon, atVars, OnlyRead
<1>4. CASE Dialogue
  BY <1>4 DEF Dialogue, AT_test, Try, Write, WriteFails, ReadFails, Read, Put, OnlyRead
<1>5. CASE JudgeNext \/ JudgeAgain \/ List \/ ListNext \/ ListAgain \/ ReadFirst \/ NoneListed
  BY <1>1, <1>2, <1>5 DEF JudgeNext, JudgeAgain, List, ListNext, ListAgain, ReadFirst, NoneListed
<1>6. CASE ReadAgain \/ Output \/ OutputFails \/ DeleteAgain \/ Deleted
  <2>1. (\E c, x : Ask(c, x)) \/ Setup \/ UNCHANGED atVars
    BY <1>6 DEF ReadAgain, Output, OutputFails, DeleteAgain, Deleted
  <2> QED BY <1>1, <1>2, <2>1 DEF atVars, OnlyRead
<1>7. CASE SetupNext \/ SetupAgain \/ ReadNotices \/ ReadNoticed
  <2>1. (\E c, x : Ask(c, x)) \/ UNCHANGED atVars \/ Listen
    BY <1>7 DEF SetupNext, SetupAgain, ReadNotices, ReadNoticed
  <2> QED BY <1>1, <2>1 DEF atVars, OnlyRead, Listen
<1>8. CASE Send \/ SendNothing \/ SendTo \/ SendAgain \/ SendText \/ Confirm
  <2>1. \/ \E c, x : Ask(c, x)
        \/ UNCHANGED atVars \/ Listen \/ (\E other \in {0, 1} : Tell(Cmd("text", other))) \/ UNCHANGED <<reply, serial>>
    BY <1>8 DEF Send, SendNothing, SendTo, SendAgain, SendText, Confirm
  <2> QED BY <1>1, <2>1 DEF atVars, OnlyRead, Listen, Tell, Put
<1> QED BY <1>3, <1>4, <1>5, <1>6, <1>7, <1>8 DEF Procedure

LEMMA ContentsRead ==
    ASSUME DInv, OnlyRead
    PROVE  Contents(line') \subseteq Contents(line) /\ Contents(reply') \subseteq Contents(reply) \cup Contents(line)
<1>1. CASE reply' \in {reply, <<>>} /\ line' = line
  BY <1>1 DEF Contents
<1>2. CASE Receive
  <2>1. line \in Seq(Texts)
    BY DEF DInv, TInv, AtTypeOK
  <2>2. PICK k \in DOMAIN line :
          reply' = SubSeq(line, 1, k) /\ line' = SubSeq(line, k + 1, Len(line))
    BY <1>2 DEF Receive
  <2>3. k \in 1..Len(line)
    BY <2>1
  <2>4. \A e \in DOMAIN reply' : e \in DOMAIN line /\ reply'[e] = line[e]
    BY <2>1, <2>2, <2>3
  <2>5. \A e \in DOMAIN line' : k + e \in DOMAIN line /\ line'[e] = line[k + e]
    BY <2>1, <2>2, <2>3
  <2>6. Contents(line') \subseteq Contents(line)
    BY <2>5 DEF Contents
  <2>7. Contents(reply') \subseteq Contents(line)
    BY <2>4 DEF Contents
  <2> QED BY <2>6, <2>7
<1> QED BY <1>1, <1>2 DEF OnlyRead

LEMMA CountedLimit ==
    /\ \A limit : Counted(limit) => n' = n + 1 /\ (~exited' => n + 1 # limit)
    /\ Afresh => n' = 1 /\ (~exited' => 1 # MaxTries)
  BY Zenon DEF Counted, Afresh

LEMMA CountStep ==
    ASSUME ProcInv, Next
    PROVE  CountInv'
<1> USE TriesAssumption
<1>1. /\ n \in 0..MaxTries /\ (~exited => n < MaxTries) /\ exited \in BOOLEAN
      /\ ~exited /\ proc \in {"list", "send", "text"} => n < MaxLists
  BY DEF ProcInv, CountInv, DInv, TInv, AtTypeOK
<1>2. CASE Start \/ JudgeNext \/ JudgeAgain
  <2>1. /\ proc' = "judge" /\ ~exited
        /\ Afresh \/ Counted(MaxTries) \/ Uncounted
    BY <1>2 DEF Start, JudgeNext, JudgeAgain, Within, At
  <2> QED BY <1>1, <2>1, CountedLimit DEF Uncounted, CountInv
<1>3. CASE List \/ ListNext \/ ListAgain \/ ReadFirst \/ NoneListed
  <2>1. CASE List
    <3>1. n' = 1 /\ (~exited' => 1 # MaxLists) /\ proc' = "list"
      BY <2>1, Zenon DEF List
    <3> QED BY <1>1, <3>1 DEF CountInv
  <2>2. CASE ListNext \/ ListAgain \/ ReadFirst
    <3>1. /\ ~exited /\ proc = "list" /\ proc' \in {"list", "read"}
          /\ Counted(MaxLists) \/ Uncounted
      BY <2>2 DEF ListNext, ListAgain, ReadFirst, Within, At
    <3> QED BY <1>1, <3>1, CountedLimit DEF Uncounted, CountInv
  <2>3. CASE NoneListed
    BY <1>1, <2>3 DEF NoneListed, Setup, At, CountInv
  <2> QED BY <1>3, <2>1, <2>2, <2>3
<1>4. CASE ReadAgain \/ Output \/ OutputFails \/ DeleteAgain \/ Deleted
  <2>1. CASE ReadAgain \/ Output \/ DeleteAgain
    <3>1. /\ ~exited /\ proc' \in {"read", "del"}
          /\ Afresh \/ Counted(MaxTries) \/ Uncounted
      BY <2>1 DEF ReadAgain, Output, DeleteAgain, Within, At
    <3> QED BY <1>1, <3>1, CountedLimit DEF Uncounted, CountInv
  <2>2. CASE OutputFails \/ Deleted
    <3>1. ~exited /\ n' = 0 /\ proc' \in {"setup", "none", "read"}
      BY <2>2 DEF OutputFails, Deleted, Setup, End, At
    <3> QED BY <1>1, <3>1 DEF CountInv
  <2> QED BY <1>4, <2>1, <2>2
<1>5. CASE SetupNext \/ SetupAgain \/ ReadNotices \/ ReadNoticed \/ WaitInterrupted
  BY <1>1, <1>5 DEF SetupNext, SetupAgain, ReadNotices, ReadNoticed, WaitInterrupted, Listen, End, Within,
        Uncounted, At, atVars, CountInv
<1>6. CASE Send \/ SendNothing \/ SendTo \/ SendAgain
  BY <1>1, <1>6 DEF Send, Judged, SendNothing, SendTo, SendAgain, End, Within, Uncounted, At, atVars,
        CountInv
<1>7. CASE SendText
  <2>1. ~exited /\ proc \in {"send", "text"}
    BY <1>7 DEF SendText, At
  <2>2. \/ proc' = "confirm" /\ Uncounted
        \/ proc' = "text" /\ Counted(MaxLists)
    BY <1>7 DEF SendText
  <2> QED BY <1>1, <2>1, <2>2, CountedLimit DEF Uncounted, CountInv
<1>8. CASE Confirm
  <2>1. ~exited /\ exited' = exited
    BY <1>8 DEF Confirm, Listen, atVars
  <2>2. \/ n' = 0 /\ proc' = "none"
        \/ n' = n + 1 /\ n + 1 # MaxTries /\ proc' = "confirm"
    BY <1>8 DEF Confirm, End
  <2> QED BY <1>1, <2>1, <2>2 DEF CountInv
<1>9. CASE Cancel
  BY <1>1, <1>9 DEF Cancel, Abandon, End, CountInv
<1>10. CASE Dialogue
  <2>1. ~exited /\ UNCHANGED <<n, proc>>
    BY <1>10 DEF Dialogue, AT_test, jobVars
  <2> QED BY <1>1, <2>1 DEF CountInv
<1>11. CASE ModemStep
  <2>1. ~exited /\ UNCHANGED <<n, proc>>
    BY <1>11 DEF ModemStep, jobVars
  <2> QED BY <1>1, <2>1 DEF CountInv
<1>12. CASE ~exited /\ Arrive /\ UNCHANGED <<jobVars, strays>>
  <2>1. ~exited /\ UNCHANGED <<n, proc>>
    BY <1>12 DEF jobVars
  <2> QED BY <1>1, <2>1 DEF CountInv
<1> QED BY <1>2, <1>3, <1>4, <1>5, <1>6, <1>7, <1>8, <1>9, <1>10, <1>11, <1>12 DEF Next, Procedure

LEMMA ValuesStep ==
    ASSUME ProcInv, Next
    PROVE  ValuesInv'
<1>1. job' \in {"none", "list", "wait", "send"} /\ result' \in {"none", "sent", "failed"}
  <2>1. job \in {"none", "list", "wait", "send"} /\ result \in {"none", "sent", "failed"}
    BY DEF ProcInv, ValuesInv
  <2> QED BY <2>1 DEF Next, Procedure, Start, WaitInterrupted, Cancel, Dialogue, ModemStep, jobVars,
           JudgeNext, JudgeAgain, List, ListNext, ListAgain, ReadFirst, NoneListed, Setup, ReadAgain,
           Output, OutputFails, DeleteAgain, Deleted, SetupNext, SetupAgain, ReadNotices, ReadNoticed,
           Send, SendNothing, SendTo, SendAgain, SendText, Confirm, End, Within
<1>2. proc' \in {"none", "judge", "list", "read", "del", "setup", "notices",
                 "noticed", "send", "text", "confirm"}
  <2>1. proc \in {"none", "judge", "list", "read", "del", "setup", "notices",
                  "noticed", "send", "text", "confirm"}
    BY DEF ProcInv, ValuesInv
  <2> QED BY <2>1 DEF Next, Procedure, Start, WaitInterrupted, Cancel, Dialogue, ModemStep, jobVars,
           JudgeNext, JudgeAgain, List, ListNext, ListAgain, ReadFirst, NoneListed, Setup, ReadAgain,
           Output, OutputFails, DeleteAgain, Deleted, SetupNext, SetupAgain, ReadNotices, ReadNoticed,
           Send, SendNothing, SendTo, SendAgain, SendText, Confirm, End, Within
<1>3. notify' \in BOOLEAN /\ spoilt' \subseteq {"command", "text"}
  <2>1. notify \in BOOLEAN /\ spoilt \subseteq {"command", "text"}
    BY DEF ProcInv, ValuesInv
  <2>2. CASE Procedure \/ WaitInterrupted \/ Cancel \/ Dialogue
    BY <2>1, <2>2, ModemKept DEF modemVars, sending
  <2>3. CASE Start
    BY <2>1, <2>3, Zenon DEF Start
  <2>4. CASE ModemStep
    <3>1. Refuse \/ Lose \/ Carry(Head(asked)) \/ Enter(Head(asked))
      BY <2>4 DEF ModemStep, Work
    <3>2. /\ notify' = notify \/ notify' = TRUE
          /\ spoilt' = spoilt \/ spoilt' = spoilt \cup Wrong(Head(asked))
      BY <3>1 DEF Refuse, Lose, Carry, Status, SetNotify, ListUnread, ReadMessage, DeleteMessage,
                  Prompt, Enter, modemVars, sending
    <3>3. Wrong(Head(asked)) \subseteq {"command", "text"}
      BY DEF Wrong
    <3>4. notify' \in BOOLEAN
      BY <2>1, <3>2, Zenon
    <3> QED BY <2>1, <3>2, <3>3, <3>4
  <2>5. CASE Arrive
    BY <2>1, <2>5 DEF Arrive, sending
  <2> QED BY <2>2, <2>3, <2>4, <2>5 DEF Next
<1>4. entry' \in {"no", "clean", "spoilt"} /\ sends' \in 0..2
  <2>1. entry \in {"no", "clean", "spoilt"} /\ sends \in 0..2
    BY DEF ProcInv, ValuesInv
  <2>2. CASE Procedure \/ WaitInterrupted \/ Cancel \/ Dialogue
    BY <2>1, <2>2, ModemKept DEF modemVars, sending
  <2>3. CASE Start
    BY <2>1, <2>3 DEF Start
  <2>4. CASE ModemStep
    <3>1. Refuse \/ Lose \/ Carry(Head(asked)) \/ Enter(Head(asked))
      BY <2>4 DEF ModemStep, Work
    <3> QED BY <2>1, <3>1 DEF Refuse, Lose, Carry, Status, SetNotify, ListUnread, ReadMessage,
                  DeleteMessage, Prompt, Enter, modemVars, sending
  <2>5. CASE Arrive
    BY <2>1, <2>5 DEF Arrive, sending
  <2> QED BY <2>2, <2>3, <2>4, <2>5 DEF Next
<1> QED BY <1>1, <1>2, <1>3, <1>4 DEF ValuesInv

(* What else a text makes of the contents of the line.                      *)
LEMMA ContentsAppended ==
    ASSUME NEW s \in Seq(Texts), NEW c \in Commands \cup {Nobody},
           NEW a \in Seq([kind : Kinds, arg : Args])
    PROVE  Contents(s \o From(c, a)) \subseteq Contents(s) \cup Contents(a)
<1>1. From(c, a) \in Seq(Texts) /\ Len(From(c, a)) = Len(a)
      /\ \A k \in 1..Len(a) : From(c, a)[k].kind = a[k].kind /\ From(c, a)[k].arg = a[k].arg
  <2>1. From(c, a) = [k \in 1..Len(a) |-> [kind |-> a[k].kind, arg |-> a[k].arg, of |-> c]]
    BY DEF From
  <2>2. From(c, a) \in Seq(Texts)
    BY FromTyped
  <2> QED BY <2>1, <2>2
<1>2. PICK f \in Seq(Texts) : f = From(c, a)
  BY <1>1
<1>3. ASSUME NEW k \in DOMAIN (s \o f)
      PROVE  \/ k \in DOMAIN s /\ (s \o f)[k] = s[k]
             \/ k - Len(s) \in DOMAIN f /\ (s \o f)[k] = f[k - Len(s)]
  OBVIOUS
<1>4. Contents(s \o f) \subseteq Contents(s) \cup Contents(f)
  BY <1>3 DEF Contents
<1>5. DOMAIN f = 1..Len(a) /\ DOMAIN a = 1..Len(a)
  BY <1>1, <1>2
<1>6. Contents(f) \subseteq Contents(a)
  BY <1>1, <1>2, <1>5 DEF Contents
<1> QED BY <1>2, <1>4, <1>6

(* Of the modem's answers only the one to AT+CMGR shows a message.          *)
LEMMA NoContents ==
    /\ Contents(<<>>) = {} /\ Contents(Ok) = {} /\ Contents(Error) = {}
    /\ \A kind, arg : kind # "+CMGR" => /\ Contents(<<Txt(kind, arg)>>) = {}
                                        /\ Contents(Then(kind, arg)) = {}
    /\ \A arg : Contents(Then("+CMGR", arg)) = {arg}
<1>1. Contents(<<>>) = {} /\ Contents(Ok) = {} /\ Contents(Error) = {}
  BY DEF Contents, Ok, Error, Eol, Txt
<1>2. ASSUME NEW kind, NEW arg, kind # "+CMGR" PROVE Contents(<<Txt(kind, arg)>>) = {}
  BY <1>2 DEF Contents, Txt
<1>3. ASSUME NEW kind, NEW arg
      PROVE  /\ DOMAIN Then(kind, arg) = 1..3 /\ Then(kind, arg)[1] = Txt(kind, arg)
             /\ Then(kind, arg)[2] = Eol /\ Then(kind, arg)[3] = Txt("OK", 0)
  BY DEF Then, Ok
<1>4. ASSUME NEW kind, NEW arg
      PROVE  /\ Then(kind, arg)[1].kind = kind /\ Then(kind, arg)[1].arg = arg
             /\ Then(kind, arg)[2].kind = "eol" /\ Then(kind, arg)[3].kind = "OK"
  <2>1. Txt(kind, arg).kind = kind /\ Txt(kind, arg).arg = arg /\ Eol.kind = "eol" /\ Txt("OK", 0).kind = "OK"
    BY DEF Eol, Txt
  <2> QED BY <1>3, <2>1, Zenon
<1>5. ASSUME NEW kind, NEW arg, kind # "+CMGR" PROVE Contents(Then(kind, arg)) = {}
  <2>1. \A k \in 1..3 : k = 1 \/ k = 2 \/ k = 3
    OBVIOUS
  <2>2. \A k \in DOMAIN Then(kind, arg) : Then(kind, arg)[k].kind # "+CMGR"
    BY <1>3, <1>4, <1>5, <2>1
  <2> QED BY <2>2 DEF Contents
<1>6. ASSUME NEW arg PROVE Contents(Then("+CMGR", arg)) = {arg}
  <2>1. \A k \in 1..3 : k = 1 \/ k = 2 \/ k = 3
    OBVIOUS
  <2>2. \A k \in DOMAIN Then("+CMGR", arg) : Then("+CMGR", arg)[k].kind = "+CMGR" <=> k = 1
    BY <1>3, <1>4, <2>1
  <2>3. 1 \in DOMAIN Then("+CMGR", arg) /\ Then("+CMGR", arg)[1].arg = arg
    BY <1>3, <1>4
  <2> QED BY <2>2, <2>3 DEF Contents
<1> QED BY <1>1, <1>2, <1>5, <1>6

(* The places with a message are no more than messages came.                *)
LEMMA UnreadFinite ==
    ASSUME ProcInv
    PROVE  Cardinality(unread) \in Nat
<1>1. came \in Nat /\ IsFiniteSet(1..came)
  BY FS_Interval DEF ProcInv, DInv, JInv
<1> DEFINE f == [x \in unread |-> mem[x]]
<1>2. ASSUME NEW x \in unread PROVE x \in Indices /\ mem[x] \in 1..came
  <2>1. x \in Indices /\ mem[x] # 0 /\ mem[x] \in 0..came
    BY <1>2 DEF ProcInv, StoreInv
  <2> QED BY <1>1, <2>1
<1>3. f \in Injection(unread, 1..came)
  <2>1. f \in [unread -> 1..came]
    BY <1>2
  <2>2. \A x, y \in unread : mem[x] = mem[y] => x = y
    BY DEF ProcInv, StoreInv
  <2> QED BY <2>1, <2>2 DEF Injection, IsInjective
<1>4. IsFiniteSet(unread)
  BY <1>1, <1>3, FS_Injection
<1> QED BY <1>4, FS_CardinalityType

LEMMA ListingShows ==
    ASSUME NEW places, Cardinality(places) \in Nat
    PROVE  Contents(Listing(places)) = {}
<1> DEFINE nth(k) == CHOOSE x \in places : Cardinality({y \in places : y <= x}) = k
           shown == [k \in 1..Cardinality(places) |-> Txt("+CMGL", nth(k))]
<1>1. Listing(places) = shown \o Ok
  BY DEF Listing
<1>2. DOMAIN shown = 1..Cardinality(places) /\ \A k \in DOMAIN shown : shown[k].kind = "+CMGL"
  BY DEF Txt
<1> HIDE DEF shown
<1>3. PICK S : shown \in Seq(S) /\ Ok \in Seq(S)
  <2> DEFINE S == {shown[k] : k \in DOMAIN shown} \cup {Eol, Txt("OK", 0)}
  <2>1. shown \in [1..Cardinality(places) -> S]
    BY <1>2, Zenon DEF shown
  <2>2. shown \in Seq(S)
    BY <2>1
  <2>3. Ok \in Seq(S)
    BY DEF Ok
  <2> QED BY <2>2, <2>3
<1>4. \A k \in DOMAIN Ok : Ok[k].kind # "+CMGR"
  BY DEF Ok, Eol, Txt
<1>5. ASSUME NEW k \in DOMAIN (shown \o Ok)
      PROVE  \/ k \in DOMAIN shown /\ (shown \o Ok)[k] = shown[k]
             \/ k - Len(shown) \in DOMAIN Ok /\ (shown \o Ok)[k] = Ok[k - Len(shown)]
  BY <1>3, <1>5
<1>6. \A k \in DOMAIN (shown \o Ok) : (shown \o Ok)[k].kind # "+CMGR"
  BY <1>2, <1>4, <1>5
<1> QED BY <1>1, <1>6 DEF Contents

LEMMA StoreStep ==
    ASSUME ProcInv, Next
    PROVE  StoreInv'
<1>1. /\ came \in Nat /\ strays \in Nat /\ mem \in [Indices -> 0..came]
      /\ unread \subseteq {x \in Indices : mem[x] # 0}
      /\ \A x, y \in Indices : mem[x] = mem[y] => x = y \/ mem[x] = 0
      /\ came + strays <= MaxEvents
      /\ gone \subseteq 1..came /\ \A x \in Indices : mem[x] \notin gone
      /\ \A m \in 1..came : m \in gone \/ \E x \in Indices : mem[x] = m
  BY DEF ProcInv, DInv, JInv, StoreInv
<1>2. CASE Start \/ Procedure \/ WaitInterrupted \/ Cancel \/ Dialogue
  <2>1. UNCHANGED memory
    BY <1>2, ModemKept DEF Start, modemVars
  <2>2. came + strays' <= MaxEvents
    <3>1. CASE Cancel \/ Confirm \/ Dialogue
      BY <2>1, <3>1 DEF Cancel, Confirm, Dialogue, memory
    <3>2. CASE ~(Cancel \/ Confirm \/ Dialogue)
      <4>1. strays' = strays
        BY <1>2, <3>2 DEF Procedure, Start, JudgeNext, JudgeAgain, Ask, List, ListNext,
              ListAgain, ReadFirst, NoneListed, Setup, ReadAgain, Output, OutputFails, DeleteAgain,
              Deleted, SetupNext, SetupAgain, ReadNotices, ReadNoticed, Send, SendNothing, SendTo,
              SendAgain, SendText, WaitInterrupted
      <4> QED BY <1>1, <4>1
    <3> QED BY <3>1, <3>2
  <2> QED BY <1>1, <2>1, <2>2 DEF memory, StoreInv
<1>3. CASE ModemStep
  <2>1. Refuse \/ Lose \/ Carry(Head(asked)) \/ Enter(Head(asked))
    BY <1>3 DEF ModemStep, Work
  <2>2. strays' = strays /\ came' = came
    BY <1>3, <2>1 DEF ModemStep, Refuse, Lose, Carry, Status, SetNotify, ListUnread, ReadMessage,
          DeleteMessage, Prompt, Enter, memory, modemVars
  <2>3. CASE DeleteMessage(Head(asked))
    <3>1. PICK x \in Indices :
            /\ mem' = [mem EXCEPT ![x] = 0] /\ gone' = gone \cup ({mem[x]} \ {0})
            /\ unread' = unread \ {x}
      BY <2>3 DEF DeleteMessage
    <3>2. mem' \in [Indices -> 0..came] /\ \A y \in Indices : mem'[y] = IF y = x THEN 0 ELSE mem[y]
      BY <1>1, <3>1
    <3>3. unread' \subseteq {y \in Indices : mem'[y] # 0}
      BY <1>1, <3>1, <3>2
    <3>4. \A y, z \in Indices : mem'[y] = mem'[z] => y = z \/ mem'[y] = 0
      BY <1>1, <3>2
    <3>5. gone' \subseteq 1..came
      <4>1. mem[x] \in 0..came
        BY <1>1
      <4>2. {mem[x]} \ {0} \subseteq 1..came
        BY <1>1, <4>1
      <4>3. gone \subseteq 1..came
        BY <1>1
      <4> QED BY <3>1, <4>2, <4>3, Zenon
    <3>6. \A y \in Indices : mem'[y] \notin gone'
      BY <1>1, <3>1, <3>2, <3>5
    <3>7. \A m \in 1..came : m \in gone' \/ \E y \in Indices : mem'[y] = m
      <4> SUFFICES ASSUME NEW m \in 1..came, m \notin gone' PROVE \E y \in Indices : mem'[y] = m
        OBVIOUS
      <4>1. PICK y \in Indices : mem[y] = m
        BY <1>1, <3>1
      <4>2. y # x
        BY <3>1, <4>1
      <4> QED BY <3>2, <4>1, <4>2
    <3> QED BY <1>1, <2>2, <3>2, <3>3, <3>4, <3>5, <3>6, <3>7 DEF StoreInv
  <2>4. CASE ~DeleteMessage(Head(asked))
    <3>1. UNCHANGED <<mem, gone>> /\ unread' \subseteq unread
      BY <2>1, <2>4 DEF Refuse, Lose, Carry, Status, SetNotify, ListUnread, ReadMessage,
            Prompt, Enter, memory, modemVars
    <3> QED BY <1>1, <2>2, <3>1 DEF StoreInv
  <2> QED BY <2>3, <2>4
<1>4. CASE Arrive /\ UNCHANGED strays
  <2>1. PICK x \in Indices :
          /\ mem[x] = 0 /\ mem' = [mem EXCEPT ![x] = came + 1] /\ unread' = unread \cup {x}
    BY <1>4 DEF Arrive
  <2>2. came' = came + 1 /\ gone' = gone /\ came + strays < MaxEvents
    BY <1>4 DEF Arrive
  <2>3. mem' \in [Indices -> 0..came + 1] /\ \A y \in Indices : mem'[y] = IF y = x THEN came + 1 ELSE mem[y]
    BY <1>1, <2>1
  <2>4. \A y \in Indices : mem[y] \in 0..came
    BY <1>1
  <2>5. unread' \subseteq {y \in Indices : mem'[y] # 0}
    BY <1>1, <2>1, <2>3
  <2>6. \A y, z \in Indices : mem'[y] = mem'[z] => y = z \/ mem'[y] = 0
    BY <1>1, <2>3, <2>4
  <2>7. gone \subseteq 1..came + 1 /\ came + 1 \notin gone /\ \A y \in Indices : mem'[y] \notin gone
    BY <1>1, <2>3
  <2>8. \A m \in 1..came + 1 : m \in gone \/ \E y \in Indices : mem'[y] = m
    <3> SUFFICES ASSUME NEW m \in 1..came + 1, m \notin gone PROVE \E y \in Indices : mem'[y] = m
      OBVIOUS
    <3>1. CASE m = came + 1
      BY <2>3, <3>1
    <3>2. CASE m # came + 1
      <4>1. m \in 1..came
        BY <1>1, <3>2
      <4>2. PICK y \in Indices : mem[y] = m
        BY <1>1, <4>1
      <4>3. y # x
        BY <2>1, <4>1, <4>2
      <4> QED BY <2>3, <4>2, <4>3
    <3> QED BY <3>1, <3>2
  <2>9. came + 1 + strays' <= MaxEvents
    BY <1>1, <1>4, <2>2, IndicesAssumption
  <2> QED BY <2>2, <2>3, <2>5, <2>6, <2>7, <2>8, <2>9 DEF StoreInv
<1> QED BY <1>2, <1>3, <1>4 DEF Next

LEMMA KnownStep ==
    ASSUME ProcInv, Next
    PROVE  KnownInv'
<1>1. /\ printed \subseteq 1..came /\ Contents(line) \subseteq 1..came /\ Contents(reply) \subseteq 1..came
      /\ came \in Nat /\ line \in Seq(Texts) /\ asked \in Seq(Commands)
  BY DEF ProcInv, KnownInv, DInv, JInv, TInv, AtTypeOK
<1>2. CASE Start \/ Procedure \/ WaitInterrupted \/ Cancel \/ Dialogue
  <2>1. came' = came
    BY <1>2, ModemKept DEF Start, modemVars, memory
  <2>2. Contents(line') \subseteq Contents(line) /\ Contents(reply') \subseteq Contents(reply) \cup Contents(line)
    BY <1>2, LineOnlyRead, ContentsRead DEF ProcInv
  <2>3. printed' = printed \/ printed' = printed \cup Contents(reply)
    BY <1>2 DEF Procedure, Start, WaitInterrupted, Cancel, Dialogue, jobVars, Within, Judged,
          JudgeNext, JudgeAgain, List, ListNext, ListAgain, ReadFirst, NoneListed, ReadAgain, Output,
          OutputFails, DeleteAgain, Deleted, SetupNext, SetupAgain, ReadNotices, ReadNoticed, Send,
          SendNothing, SendTo, SendAgain, SendText, Confirm
  <2>4. printed' \subseteq 1..came /\ Contents(line') \subseteq 1..came /\ Contents(reply') \subseteq 1..came
    BY <1>1, <2>2, <2>3
  <2> QED BY <2>1, <2>4 DEF KnownInv, Contents
<1>3. CASE ModemStep
  <2>1. Refuse \/ Lose \/ Carry(Head(asked)) \/ Enter(Head(asked))
    BY <1>3 DEF ModemStep, Work
  <2>2. asked # <<>> /\ printed' = printed
    BY <1>3 DEF ModemStep, Work, jobVars
  <2>3. came' = came
    BY <2>1 DEF Refuse, Lose, Carry, Status, SetNotify, ListUnread, ReadMessage,
          DeleteMessage, Prompt, Enter, memory, modemVars
  <2>4. \E a \in ModemAnswers : Reply(a) /\ Contents(a) \subseteq 1..came
    <3>1. CASE Refuse \/ Lose
      BY <3>1, NoContents DEF Refuse, Lose, ModemAnswers
    <3>2. CASE Status(Head(asked)) \/ SetNotify(Head(asked)) \/ DeleteMessage(Head(asked))
      BY <3>2, NoContents DEF Status, SetNotify, DeleteMessage, ModemAnswers
    <3>3. CASE Prompt(Head(asked)) \/ Enter(Head(asked))
      BY <3>3, NoContents DEF Prompt, Enter, ModemAnswers
    <3>4. CASE ListUnread(Head(asked))
      <4>1. Reply(Listing(unread)) /\ Listing(unread) \in ModemAnswers
        BY <3>4 DEF ListUnread, ModemAnswers, ProcInv, DInv, JInv
      <4> QED BY <4>1, UnreadFinite, ListingShows
    <3>5. CASE ReadMessage(Head(asked))
      <4>1. CASE Head(asked).arg \in Indices /\ mem[Head(asked).arg] # 0
        <5>1. PICK m : m = mem[Head(asked).arg] /\ Reply(Then("+CMGR", m))
          BY <3>5, <4>1 DEF ReadMessage
        <5>2. m \in 0..came /\ m \in 0..MaxEvents /\ m # 0
          BY <4>1, <5>1 DEF ProcInv, StoreInv, DInv, JInv
        <5>3. m \in 1..came /\ m \in 1..MaxEvents
          BY <1>1, <5>2, IndicesAssumption
        <5>4. Contents(Then("+CMGR", m)) \subseteq 1..came
          BY <5>3, NoContents
        <5> QED BY <5>1, <5>3, <5>4 DEF ModemAnswers
      <4>2. CASE ~(Head(asked).arg \in Indices /\ mem[Head(asked).arg] # 0)
        BY <3>5, <4>2, NoContents DEF ReadMessage, ModemAnswers
      <4> QED BY <4>1, <4>2
    <3> QED BY <2>1, <3>1, <3>2, <3>3, <3>4, <3>5 DEF Carry
  <2>5. PICK a \in ModemAnswers : Reply(a) /\ Contents(a) \subseteq 1..came
    BY <2>4
  <2>6. line' = line \o From(Head(asked), a) /\ reply' = reply
    BY <2>5 DEF Reply
  <2>7. Head(asked) \in Commands /\ a \in Seq([kind : Kinds, arg : Args])
    <3>1. Head(asked) \in Commands
      BY <1>1, <2>2
    <3>2. a \in Seq([kind : Kinds, arg : Args])
      BY ModemAssumption, AnswersAssumption, Zenon
    <3> QED BY <3>1, <3>2
  <2>8. Contents(line \o From(Head(asked), a)) \subseteq Contents(line) \cup Contents(a)
    BY <1>1, <2>7, ContentsAppended
  <2>9. Contents(line') \subseteq 1..came /\ Contents(reply') \subseteq 1..came
    BY <1>1, <2>5, <2>6, <2>8
  <2> QED BY <1>1, <2>2, <2>3, <2>9 DEF KnownInv, Contents
<1>4. CASE Arrive /\ UNCHANGED <<jobVars, strays>>
  <2>1. PICK x \in Indices : IF notify THEN Notice(Txt("+CMTI", x)) ELSE UNCHANGED atVars
    BY <1>4 DEF Arrive
  <2>2. came' = came + 1 /\ printed' = printed
    BY <1>4 DEF Arrive, jobVars
  <2>3. Contents(line') \subseteq 1..came /\ reply' = reply
    <3>1. CASE UNCHANGED atVars
      BY <1>1, <3>1 DEF atVars, Contents
    <3>2. CASE Notice(Txt("+CMTI", x))
      <4>1. line' = line \o From(Nobody, <<Txt("+CMTI", x)>>) /\ reply' = reply
        BY <3>2 DEF Notice
      <4>2. <<Txt("+CMTI", x)>> \in Seq([kind : Kinds, arg : Args])
        BY ModemAssumption, AnswersAssumption DEF ModemNotices
      <4>3. Contents(line \o From(Nobody, <<Txt("+CMTI", x)>>)) \subseteq Contents(line)
        BY <1>1, <4>2, ContentsAppended, NoContents
      <4> QED BY <1>1, <4>1, <4>3
    <3> QED BY <2>1, <3>1, <3>2
  <2>4. 1..came \subseteq 1..came + 1
    BY <1>1
  <2> QED BY <1>1, <2>2, <2>3, <2>4 DEF KnownInv, Contents
<1> QED BY <1>2, <1>3, <1>4 DEF Next

LEMMA ProcStep == ProcInv /\ [Next]_vars => ProcInv'
<1> SUFFICES ASSUME ProcInv, [Next]_vars PROVE ProcInv'
  OBVIOUS
<1>1. DInv'
  BY DialogueStep DEF ProcInv
<1>2. CASE Next
  BY <1>1, <1>2, CountStep, ValuesStep, StoreStep, KnownStep DEF ProcInv
<1>3. CASE UNCHANGED vars
  <2>1. UNCHANGED <<line, reply, exited>>
    BY <1>3 DEF vars, atVars
  <2>2. UNCHANGED <<memory, notify, sending, jobVars, strays>>
    BY <1>3 DEF vars, modemVars
  <2>3. CountInv' /\ ValuesInv'
    BY <2>1, <2>2 DEF ProcInv, CountInv, ValuesInv, sending, jobVars
  <2>4. StoreInv' /\ KnownInv'
    BY <2>1, <2>2 DEF ProcInv, StoreInv, KnownInv, memory, jobVars, Contents
  <2> QED BY <1>1, <2>3, <2>4 DEF ProcInv
<1> QED BY <1>2, <1>3

(* For any number of messages, places and attempts: a message is in one     *)
(* place or was deleted, whatever is printed or on the line came, and no    *)
(* count gets past the limit that it is compared with.                      *)
THEOREM ProceduresTypeCorrect == Spec => []TypeOK
<1> QED BY ProcInit, ProcStep, ProcCorrect, PTL DEF Spec

-----------------------------------------------------------------------------
(* The variant of the loops that count with try_times.  Judging and listing *)
(* are chains of commands that start over; each turn costs an attempt.      *)

Loops == {"judge", "list", "del", "text", "confirm"}

Ahead ==
    IF cmd.name = "ATE0" THEN 4 ELSE IF cmd.name = "AT" THEN 3
    ELSE IF cmd.name = "AT+CPIN" THEN 2 ELSE IF cmd.name \in {"AT+CREG", "AT+CMGF"} THEN 1
    ELSE 0

TurnsLeft == 5 * (MaxTries - n) + Ahead

LEMMA TurnsStep ==
    ASSUME ProcInv, ProcInv', [Next]_vars, job # "none", proc \in Loops, proc' = proc
    PROVE  /\ TurnsLeft' \in Nat /\ TurnsLeft' <= TurnsLeft
           /\ Procedure => TurnsLeft' < TurnsLeft
<1>1. n \in 0..MaxTries /\ n' \in 0..MaxTries /\ MaxTries \in Nat
  BY TriesAssumption DEF ProcInv, CountInv
<1>2. Ahead \in 0..4 /\ Ahead' \in 0..4
  BY DEF Ahead
<1>3. CASE Procedure
  <2>1. \/ n' = n + 1
        \/ n' = n /\ Ahead' < Ahead
    <3>1. CASE JudgeNext
      BY <3>1 DEF JudgeNext, At, Ask, Call, Cmd, Uncounted, Ahead
    <3>2. CASE ListNext
      BY <3>2 DEF ListNext, At, Ask, Call, Cmd, Uncounted, Ahead
    <3>3. CASE JudgeAgain \/ ListAgain \/ DeleteAgain
      BY <3>3, CountedLimit DEF JudgeAgain, ListAgain, DeleteAgain
    <3>4. CASE SendText
      BY <3>4, CountedLimit DEF SendText, At, Loops
    <3>5. CASE Confirm
      BY <3>5 DEF Confirm, End
    <3>6. ASSUME List \/ ReadFirst \/ NoneListed PROVE FALSE
      BY <3>6 DEF List, Judged, ReadFirst, NoneListed, Setup, At
    <3>7. ASSUME ReadAgain \/ Output \/ OutputFails \/ Deleted PROVE FALSE
      BY <3>7 DEF ReadAgain, Output, OutputFails, Deleted, Setup, At, End, Within, Loops
    <3>8. ASSUME SetupNext \/ SetupAgain \/ ReadNotices \/ ReadNoticed PROVE FALSE
      BY <3>8 DEF SetupNext, SetupAgain, ReadNotices, ReadNoticed, At, Loops
    <3>9. ASSUME Send \/ SendNothing \/ SendTo \/ SendAgain PROVE FALSE
      <4>1. CASE Send \/ SendNothing
        BY <4>1 DEF Send, Judged, SendNothing, At, End, Loops
      <4>2. CASE SendTo \/ SendAgain
        BY <4>2 DEF SendTo, SendAgain, At, Loops
      <4> QED BY <3>9, <4>1, <4>2
    <3> QED BY <1>3, <3>1, <3>2, <3>3, <3>4, <3>5, <3>6, <3>7, <3>8, <3>9 DEF Procedure
  <2>2. TurnsLeft' \in Nat /\ TurnsLeft' < TurnsLeft
    <3>1. ASSUME NEW m \in Nat, NEW a \in 0..4, NEW b \in 0..4, NEW j \in 0..m, NEW k \in 0..m,
                 k = j + 1 \/ (k = j /\ b < a)
          PROVE  5 * (m - k) + b \in Nat /\ 5 * (m - k) + b < 5 * (m - j) + a
      BY <3>1
    <3> QED BY <1>1, <1>2, <2>1, <3>1 DEF TurnsLeft
  <2>3. TurnsLeft \in Nat
    BY <1>1, <1>2 DEF TurnsLeft
  <2> QED BY <2>2, <2>3
<1>4. CASE ~Procedure
  <2>1. n' = n /\ cmd' = cmd
    <3>1. CASE Dialogue
      BY <3>1 DEF Dialogue, AT_test, Try, Write, WriteFails, ReadFails, Read, Attempt, jobVars
    <3>2. CASE ModemStep
      <4>1. \E a \in Answers : Reply(a)
        BY <3>2, WorkAnswers DEF ModemStep, ProcInv
      <4> QED BY <3>2, <4>1 DEF ModemStep, Reply, jobVars
    <3>3. CASE Arrive /\ UNCHANGED jobVars
      <4>1. \E x \in Indices : IF notify THEN Notice(Txt("+CMTI", x)) ELSE UNCHANGED atVars
        BY <3>3 DEF Arrive
      <4> QED BY <3>3, <4>1 DEF Notice, atVars, jobVars
    <3>4. ASSUME Start \/ WaitInterrupted \/ Cancel PROVE FALSE
      BY <3>4 DEF Start, WaitInterrupted, Cancel, End, Loops
    <3>5. CASE UNCHANGED vars
      BY <3>5 DEF vars, atVars, jobVars
    <3> QED BY <1>4, <3>1, <3>2, <3>3, <3>4, <3>5 DEF Next
  <2>2. Ahead' = Ahead
    BY <2>1 DEF Ahead
  <2> QED BY <1>1, <1>2, <1>4, <2>1, <2>2 DEF TurnsLeft
<1> QED BY <1>3, <1>4

(* However the modem answers, judging, listing, deleting and sending do not *)
(* go on for ever: every step of theirs that stays in the loop brings a     *)
(* natural number down, which no call, modem or message raises meanwhile.   *)
THEOREM LoopsRunOut ==
    Spec => [][job # "none" /\ proc \in Loops /\ proc' = proc =>
                   /\ TurnsLeft' \in Nat /\ TurnsLeft' <= TurnsLeft
                   /\ Procedure => TurnsLeft' < TurnsLeft]_vars
<1>1. ProcInv /\ [Next]_vars =>
          [job # "none" /\ proc \in Loops /\ proc' = proc =>
               /\ TurnsLeft' \in Nat /\ TurnsLeft' <= TurnsLeft
               /\ Procedure => TurnsLeft' < TurnsLeft]_vars
  <2> HIDE DEF TurnsLeft, Loops
  <2> QED BY ProcStep, TurnsStep
<1> QED BY <1>1, ProcInit, ProcStep, PTL DEF Spec

-----------------------------------------------------------------------------
(* The jobs of the procedures are those of ModemJobs.                       *)

Running == IF job = "none" THEN {} ELSE {<<"worker", job>>}

ListsToList == proc = "list" => job = "list"

LEMMA JobStep ==
    ASSUME ProcInv, ListsToList, [Next]_vars
    PROVE  /\ ListsToList'
           /\ \/ job' = job
              \/ job = "none" /\ job' \in {"list", "send"}
              \/ job = "list" /\ job' = "wait"
              \/ job' = "none"
<1> USE DEF ListsToList
<1>1. CASE Start \/ WaitInterrupted \/ Cancel
  BY <1>1 DEF Start, WaitInterrupted, Cancel, End
<1>2. CASE Dialogue \/ ModemStep \/ (Arrive /\ UNCHANGED <<jobVars, strays>>) \/ UNCHANGED vars
  BY <1>2 DEF Dialogue, ModemStep, jobVars, vars
<1>3. CASE JudgeNext \/ JudgeAgain \/ List \/ ListNext \/ ListAgain \/ ReadFirst
  BY <1>3 DEF JudgeNext, JudgeAgain, List, Judged, ListNext, ListAgain, ReadFirst, At, Within
<1>4. CASE NoneListed \/ OutputFails \/ Deleted
  BY <1>4 DEF NoneListed, OutputFails, Deleted, Setup, End, At
<1>5. CASE ReadAgain \/ Output \/ DeleteAgain
  BY <1>5 DEF ReadAgain, Output, DeleteAgain, At, Within
<1>6. CASE SetupNext \/ SetupAgain \/ ReadNotices \/ ReadNoticed
  BY <1>6 DEF SetupNext, SetupAgain, ReadNotices, ReadNoticed, At, Within
<1>7. CASE Send \/ SendNothing \/ SendTo \/ SendAgain
  BY <1>7 DEF Send, Judged, SendNothing, SendTo, SendAgain, At, End, Within
<1>8. CASE SendText \/ Confirm
  BY <1>8 DEF SendText, Confirm, End
<1> QED BY <1>1, <1>2, <1>3, <1>4, <1>5, <1>6, <1>7, <1>8 DEF Next, Procedure

(* Whatever happens to a job, the next begins when it is over, and only a   *)
(* listing goes on to wait: refinement.                                     *)
THEOREM JobsInOrderHolds == Spec => JobsInOrder
<1>1. Init => ListsToList /\ J!Init
  BY DEF Init, ListsToList, J!Init
<1>2. ProcInv /\ ListsToList /\ [Next]_vars => ListsToList' /\ [J!Next]_Running
  <2> SUFFICES ASSUME ProcInv, ListsToList, [Next]_vars PROVE ListsToList' /\ [J!Next]_Running
    OBVIOUS
  <2>1. ListsToList'
    BY JobStep
  <2>2. CASE job' = job
    BY <2>1, <2>2 DEF Running
  <2>3. CASE job = "none" /\ job' \in {"list", "send"}
    BY <2>1, <2>3 DEF J!Next, J!Begin, Running
  <2>4. CASE job = "list" /\ job' = "wait"
    BY <2>1, <2>4 DEF J!Next, J!Wait, Running
  <2>5. CASE job' = "none"
    BY <2>1, <2>5 DEF J!Next, J!Over, Running
  <2> QED BY <2>2, <2>3, <2>4, <2>5, JobStep
<1> QED BY <1>1, <1>2, ProcInit, ProcStep, PTL DEF Spec, JobsInOrder, J!Spec, Running

-----------------------------------------------------------------------------
(* The dialler: what modify_file makes of a file, character by character,   *)
(* and what id_isp answers, for all files, strings and rooms.               *)

(* A set of numbers has a smallest: it is what the searches of the code find.*)
LEMMA Smallest ==
    ASSUME NEW I \in SUBSET Nat, I # {}
    PROVE  \E m \in I : \A j \in I : m <= j
<1> DEFINE Below == OpToRel(<, Nat)
<1>1. IsWellFoundedOn(Below, Nat)
  BY NatLessThanWellFounded
<1>2. PICK m \in I : \A j \in I : <<j, m>> \notin Below
  <2> HIDE DEF Below
  <2> QED BY <1>1, WFMin, Zenon
<1>3. ASSUME NEW j \in I, j < m PROVE FALSE
  <2>1. <<j, m>> \in Below
    BY <1>3 DEF OpToRel
  <2> QED BY <1>2, <2>1
<1>4. \A j \in I : m <= j
  BY <1>3
<1> QED BY <1>4

(* What a write leaves of a file, and where the line of a character ends.   *)
LEMMA Written ==
    ASSUME NEW S, NEW file \in Seq(S), NEW s \in Seq(S), NEW pos \in 0..Len(file)
    PROVE  LET r == P!WriteAt(file, pos, s)
           IN  /\ r \in Seq(S)
               /\ Len(r) = IF pos + Len(s) > Len(file) THEN pos + Len(s) ELSE Len(file)
               /\ \A j \in 1..Len(r) : r[j] = IF j \in pos + 1..pos + Len(s) THEN s[j - pos] ELSE file[j]
<1> DEFINE len == IF pos + Len(s) > Len(file) THEN pos + Len(s) ELSE Len(file)
           f == [j \in 1..len |-> IF j \in pos + 1..pos + Len(s) THEN s[j - pos] ELSE file[j]]
<1>1. len \in Nat
  OBVIOUS
<1>2. ASSUME NEW j \in 1..len
      PROVE  (IF j \in pos + 1..pos + Len(s) THEN s[j - pos] ELSE file[j]) \in S
  <2>1. CASE j \in pos + 1..pos + Len(s)
    <3>1. j - pos \in 1..Len(s)
      BY <2>1
    <3> QED BY <2>1, <3>1
  <2>2. CASE j \notin pos + 1..pos + Len(s)
    <3>1. j \in 1..Len(file)
      BY <2>2
    <3> QED BY <2>2, <3>1
  <2> QED BY <2>1, <2>2
<1>3. f \in [1..len -> S]
  BY <1>2
<1>4. f \in Seq(S) /\ Len(f) = len
  BY <1>1, <1>3
<1>5. P!WriteAt(file, pos, s) = f
  BY DEF P!WriteAt
<1> QED BY <1>4, <1>5

LEMMA EndOfPiece ==
    ASSUME NEW S, NEW file \in Seq(S), NEW k \in DOMAIN file
    PROVE  P!PieceEnd(file, k) \in k..Len(file)
<1> DEFINE E == {e \in k..Len(file) : P!Ends(file, k, e)}
<1>1. k \in 1..Len(file)
  OBVIOUS
<1>2. E \in SUBSET Nat /\ Len(file) \in E
  BY <1>1 DEF P!Ends
<1>3. PICK e \in E : \A m \in E : e <= m
  <2> HIDE DEF E
  <2>1. E # {}
    BY <1>2
  <2> QED BY <1>2, <2>1, Smallest
<1>4. \A m \in k..e - 1 : ~P!Ends(file, k, m)
  BY <1>1, <1>3
<1> QED BY <1>3, <1>4 DEF P!PieceEnd

LEMMA Joined ==
    ASSUME NEW S, NEW s \in Seq(S), NEW t \in Seq(S)
    PROVE  /\ s \o t \in Seq(S) /\ Len(s \o t) = Len(s) + Len(t)
           /\ \A j \in 1..Len(s) : (s \o t)[j] = s[j]
           /\ \A j \in 1..Len(t) : (s \o t)[Len(s) + j] = t[j]
  OBVIOUS

Rewrite(file, start, newstr, e) ==
    LET rest    == SubSeq(file, e + 1, Len(file)) \o P!Zeros(2)
        back    == P!WriteAt(P!WriteAt(file, start, newstr), start + Len(newstr), rest)
        written == start + Len(newstr) + Len(rest)
    IN  IF written < Len(file)
        THEN P!WriteAt(back, written, P!Zeros(Len(file) - written))
        ELSE back

LEMMA Rewritten ==
    ASSUME NEW S, P!Nul \in S, NEW file \in Seq(S), NEW newstr \in Seq(S),
           NEW e \in 1..Len(file), NEW start \in 0..e
    PROVE  LET made == Rewrite(file, start, newstr, e)
               want   == SubSeq(file, 1, start) \o newstr \o SubSeq(file, e + 1, Len(file))
           IN  /\ P!IsPrefix(want, made)
               /\ \A m \in Len(want) + 1..Len(made) : made[m] = P!Nul
               /\ Len(made) >= Len(file)
<1> DEFINE L == Len(file)
           len == Len(newstr)
           a == SubSeq(file, 1, start)
           b == SubSeq(file, e + 1, L)
           rest == b \o P!Zeros(2)
           new == P!WriteAt(file, start, newstr)
           back == P!WriteAt(new, start + len, rest)
           written == start + len + Len(rest)
           made == Rewrite(file, start, newstr, e)
           want == a \o newstr \o b
<1> DEFINE Ends(f, s) == /\ f \o s \in Seq(S) /\ Len(f \o s) = Len(f) + Len(s)
                         /\ \A j \in 1..Len(f) : (f \o s)[j] = f[j]
                         /\ \A j \in 1..Len(s) : (f \o s)[Len(f) + j] = s[j]
<1>0. \A f, s \in Seq(S) : Ends(f, s)
  BY Joined
<1>1. L \in Nat /\ len \in Nat /\ start \in 0..L /\ e \in 1..L
  OBVIOUS
<1>2. a \in Seq(S) /\ Len(a) = start /\ \A j \in 1..start : a[j] = file[j]
  BY <1>1
<1>3. b \in Seq(S) /\ Len(b) = L - e /\ \A j \in 1..L - e : b[j] = file[e + j]
  BY <1>1
<1>4. ASSUME NEW z \in Nat
      PROVE  P!Zeros(z) \in Seq(S) /\ Len(P!Zeros(z)) = z /\ \A j \in 1..z : P!Zeros(z)[j] = P!Nul
  <2>1. P!Zeros(z) = [j \in 1..z |-> P!Nul]
    BY DEF P!Zeros
  <2> QED BY <2>1
<1> HIDE DEF a, b
<1>5. /\ want \in Seq(S) /\ Len(want) = start + len + (L - e)
      /\ \A j \in 1..start : want[j] = file[j]
      /\ \A j \in 1..len : want[start + j] = newstr[j]
      /\ \A j \in 1..L - e : want[start + len + j] = b[j]
  <2>1. PICK c \in Seq(S) :
          /\ c = a \o newstr /\ Len(c) = Len(a) + Len(newstr)
          /\ \A j \in 1..Len(a) : c[j] = a[j]
          /\ \A j \in 1..Len(newstr) : c[Len(a) + j] = newstr[j]
    <3>1. Ends(a, newstr)
      BY <1>0, <1>2
    <3> QED BY <3>1
  <2>2. Len(c) = start + len /\ (\A j \in 1..start : c[j] = file[j]) /\ (\A j \in 1..len : c[start + j] = newstr[j])
    BY <1>1, <1>2, <2>1
  <2>3. /\ c \o b \in Seq(S) /\ Len(c \o b) = Len(c) + Len(b)
        /\ \A j \in 1..Len(c) : (c \o b)[j] = c[j]
        /\ \A j \in 1..Len(b) : (c \o b)[Len(c) + j] = b[j]
    <3>1. Ends(c, b)
      BY <1>0, <1>3
    <3> QED BY <3>1
  <2>4. (\A j \in 1..start : j \in 1..start + len) /\ (\A j \in 1..len : start + j \in 1..start + len)
    BY <1>1
  <2>5. want = c \o b
    BY <2>1
  <2> HIDE DEF want
  <2>6. want \in Seq(S) /\ Len(want) = start + len + (L - e)
    BY <1>3, <2>2, <2>3, <2>5
  <2>7. (\A j \in 1..start : want[j] = file[j]) /\ (\A j \in 1..len : want[start + j] = newstr[j])
    BY <2>2, <2>3, <2>4, <2>5
  <2>8. \A j \in 1..L - e : want[start + len + j] = b[j]
    BY <1>3, <2>2, <2>3, <2>5
  <2> QED BY <2>6, <2>7, <2>8
<1>6. /\ rest \in Seq(S) /\ Len(rest) = L - e + 2
      /\ \A j \in 1..L - e : rest[j] = b[j]
      /\ rest[L - e + 1] = P!Nul /\ rest[L - e + 2] = P!Nul
  <2>1. PICK z \in Seq(S) : z = P!Zeros(2) /\ Len(z) = 2 /\ \A j \in 1..2 : z[j] = P!Nul
    <3>1. 2 \in Nat
      OBVIOUS
    <3> QED BY <1>4, <3>1, Zenon
  <2>2. /\ b \o z \in Seq(S) /\ Len(b \o z) = Len(b) + Len(z)
        /\ \A j \in 1..Len(b) : (b \o z)[j] = b[j]
        /\ \A j \in 1..Len(z) : (b \o z)[Len(b) + j] = z[j]
    <3>1. Ends(b, z)
      BY <1>0, <1>3, <2>1
    <3> QED BY <3>1
  <2>3. (b \o z)[L - e + 1] = z[1] /\ (b \o z)[L - e + 2] = z[2]
    <3>1. 1 \in 1..Len(z) /\ 2 \in 1..Len(z)
      BY <2>1
    <3>2. (b \o z)[Len(b) + 1] = z[1] /\ (b \o z)[Len(b) + 2] = z[2]
      BY <2>2, <3>1, Zenon
    <3> QED BY <1>3, <3>2, Zenon
  <2>4. z[1] = P!Nul /\ z[2] = P!Nul
    BY <2>1
  <2>5. Len(b \o z) = L - e + 2
    BY <1>1, <1>3, <2>1, <2>2
  <2> QED BY <1>3, <2>1, <2>2, <2>3, <2>4, <2>5
<1> HIDE DEF want, rest
<1>7. /\ new \in Seq(S) /\ Len(new) = IF start + len > L THEN start + len ELSE L
      /\ \A j \in 1..Len(new) : new[j] = IF j \in start + 1..start + len THEN newstr[j - start] ELSE file[j]
  BY <1>1, Written
<1> HIDE DEF new
<1>8. written = start + len + (L - e) + 2 /\ written \in Nat /\ start + len \in 0..Len(new)
      /\ Len(new) <= IF written < L THEN L ELSE written
  BY <1>1, <1>6, <1>7
<1>9. /\ back \in Seq(S) /\ Len(back) = IF written < L THEN L ELSE written
      /\ \A j \in 1..start + len : back[j] = new[j]
      /\ \A j \in 1..L - e + 2 : back[start + len + j] = rest[j]
  <2>1. /\ back \in Seq(S)
        /\ Len(back) = IF start + len + Len(rest) > Len(new) THEN start + len + Len(rest) ELSE Len(new)
        /\ \A j \in 1..Len(back) : back[j] = IF j \in start + len + 1..start + len + Len(rest)
                                             THEN rest[j - (start + len)] ELSE new[j]
    <3>1. PICK t \in Seq(S) : t = new
      BY <1>7
    <3>2. PICK u \in Seq(S) : u = rest
      BY <1>6
    <3>3. PICK pos \in 0..Len(t) : pos = start + len
      BY <1>8, <3>1
    <3>4. LET r == P!WriteAt(t, pos, u)
          IN  /\ r \in Seq(S)
              /\ Len(r) = IF pos + Len(u) > Len(t) THEN pos + Len(u) ELSE Len(t)
              /\ \A j \in 1..Len(r) : r[j] = IF j \in pos + 1..pos + Len(u) THEN u[j - pos] ELSE t[j]
      BY Written
    <3> QED BY <3>1, <3>2, <3>3, <3>4
  <2> HIDE DEF back
  <2>2. Len(back) = IF written < L THEN L ELSE written
    <3>1. start + len + Len(rest) = written
      BY <1>6, <1>8
    <3>2. Len(back) = IF written > Len(new) THEN written ELSE Len(new)
      BY <2>1, <3>1
    <3> HIDE DEF written
    <3>3. written \in Nat /\ L \in Nat /\ start + len \in Nat /\ start + len <= written
      BY <1>1, <1>8
    <3>4. CASE start + len > L
      <4>1. Len(new) = start + len
        BY <1>7, <3>4
      <4> QED BY <3>2, <3>3, <3>4, <4>1
    <3>5. CASE ~(start + len > L)
      <4>1. Len(new) = L
        BY <1>7, <3>5
      <4> QED BY <3>2, <3>3, <4>1
    <3> QED BY <3>4, <3>5
  <2>3. ASSUME NEW j \in 1..start + len PROVE back[j] = new[j]
    <3>1. j \in 1..Len(back) /\ j \notin start + len + 1..start + len + Len(rest)
      <4> HIDE DEF written
      <4> QED BY <1>1, <1>8, <2>2
    <3> QED BY <2>1, <3>1, Zenon
  <2>4. ASSUME NEW j \in 1..L - e + 2 PROVE back[start + len + j] = rest[j]
    <3>1. start + len + j \in 1..Len(back) /\ start + len + j \in start + len + 1..start + len + Len(rest)
      <4>1. start + len + Len(rest) = written /\ Len(rest) = L - e + 2
        BY <1>6, <1>8
      <4> HIDE DEF written
      <4>2. Len(back) \in Nat /\ written <= Len(back)
        BY <1>1, <1>8, <2>2
      <4>3. PICK m \in Nat : m = start + len
        BY <1>1
      <4>4. m + j \in m + 1..m + Len(rest)
        BY <4>1
      <4>5. m + j \in 1..Len(back)
        BY <4>1, <4>2, <4>3, <4>4
      <4> QED BY <4>3, <4>4, <4>5, Zenon
    <3>2. start + len + j - (start + len) = j
      BY <1>1
    <3>3. PICK q : q = start + len + j
      OBVIOUS
    <3>4. back[q] = rest[q - (start + len)]
      BY <2>1, <3>1, <3>3
    <3> QED BY <3>2, <3>3, <3>4
  <2> QED BY <2>1, <2>2, <2>3, <2>4
<1> HIDE DEF back
<1>10. made = IF written < L THEN P!WriteAt(back, written, P!Zeros(L - written)) ELSE back
  BY DEF Rewrite, back, new, rest, b
<1> HIDE DEF made
<1>11. /\ made \in Seq(S) /\ Len(made) = IF written < L THEN L ELSE written
       /\ \A j \in 1..written : made[j] = back[j]
       /\ \A j \in written + 1..Len(made) : made[j] = P!Nul
  <2>1. CASE written < L
    <3>1. L - written \in Nat /\ written \in 0..Len(back) /\ Len(back) = L
      BY <1>1, <1>8, <1>9, <2>1
    <3>2. PICK z \in Seq(S) : z = P!Zeros(L - written) /\ Len(z) = L - written
                              /\ \A j \in 1..L - written : z[j] = P!Nul
      BY <1>4, <3>1
    <3>3. made = P!WriteAt(back, written, z)
      BY <1>10, <2>1, <3>2
    <3>4. /\ made \in Seq(S)
          /\ Len(made) = IF written + Len(z) > Len(back) THEN written + Len(z) ELSE Len(back)
          /\ \A j \in 1..Len(made) : made[j] = IF j \in written + 1..written + Len(z)
                                                   THEN z[j - written] ELSE back[j]
      BY <1>9, <3>1, <3>3, Written
    <3> HIDE DEF written
    <3>5. Len(made) = L
      <4>1. written + Len(z) = L /\ Len(back) = L
        BY <1>1, <1>8, <3>1, <3>2
      <4>2. Len(made) = IF L > L THEN L ELSE L
        BY <3>4, <4>1, Zenon
      <4> QED BY <4>2
    <3>6. \A j \in 1..written : made[j] = back[j]
      <4>1. ASSUME NEW j \in 1..written PROVE j \in 1..Len(made) /\ j \notin written + 1..written + Len(z)
        BY <1>1, <1>8, <2>1, <3>5
      <4> QED BY <3>4, <4>1, Zenon
    <3>7. ASSUME NEW j \in written + 1..L PROVE made[j] = P!Nul
      <4>1. j \in 1..L /\ j \in written + 1..written + Len(z) /\ j - written \in 1..L - written
        BY <1>1, <1>8, <3>2
      <4> QED BY <3>2, <3>4, <3>5, <4>1
    <3> QED BY <2>1, <3>4, <3>5, <3>6, <3>7
  <2>2. CASE ~(written < L)
    <3> HIDE DEF written
    <3>1. \A j \in written + 1..written : FALSE
      BY <1>8
    <3> QED BY <1>9, <1>10, <2>2, <3>1
  <2> QED BY <2>1, <2>2
<1>12. Len(want) <= Len(made) /\ Len(made) >= L /\ Len(want) + 2 = written
  BY <1>1, <1>5, <1>8, <1>11
<1>13. ASSUME NEW j \in 1..Len(want) PROVE made[j] = want[j]
  <2>0. j \in 1..written /\ made[j] = back[j]
    BY <1>5, <1>11, <1>12
  <2>1. CASE j \in 1..start
    <3>1. j \in 1..start + len /\ j \in 1..Len(new) /\ j \notin start + 1..start + len
      BY <1>1, <1>7, <2>1
    <3> QED BY <1>5, <1>7, <1>9, <2>0, <2>1, <3>1
  <2>2. CASE j \in start + 1..start + len
    <3>1. j \in 1..start + len /\ j \in 1..Len(new) /\ j - start \in 1..len /\ start + (j - start) = j
      BY <1>1, <1>7, <2>2
    <3>2. want[j] = newstr[j - start]
      BY <1>5, <3>1
    <3> QED BY <1>7, <1>9, <2>0, <2>2, <3>1, <3>2
  <2>3. CASE j \in start + len + 1..start + len + (L - e)
    <3>1. PICK q \in 1..L - e : j = start + len + q
      <4>1. j - (start + len) \in 1..L - e /\ j = start + len + (j - (start + len))
        BY <1>1, <2>3
      <4> QED BY <4>1
    <3>2. q \in 1..L - e + 2
      BY <1>1
    <3> QED BY <1>5, <1>6, <1>9, <2>0, <3>1, <3>2
  <2> QED BY <1>1, <1>5, <2>1, <2>2, <2>3
<1>14. ASSUME NEW j \in Len(want) + 1..Len(made) PROVE made[j] = P!Nul
  <2>1. CASE j \in written + 1..Len(made)
    BY <1>11, <2>1
  <2>2. CASE j = start + len + (L - e + 1) \/ j = start + len + (L - e + 2)
    <3>1. j \in 1..written /\ L - e + 1 \in 1..L - e + 2 /\ L - e + 2 \in 1..L - e + 2
      BY <1>1, <1>8, <2>2
    <3>2. made[j] = back[j]
      BY <1>11, <3>1, Zenon
    <3>3. L - e + 2 \in 1..L - e + 2
      BY <1>1
    <3>4. back[j] = rest[L - e + 1] \/ back[j] = rest[L - e + 2]
      BY <1>9, <2>2, <3>1, <3>3, Zenon
    <3> QED BY <1>6, <3>2, <3>4, Zenon
  <2>3. j \in written + 1..Len(made) \/ j = start + len + (L - e + 1) \/ j = start + len + (L - e + 2)
    <3>1. Len(want) \in Nat /\ Len(made) \in Nat /\ written = Len(want) + 2
      <4> HIDE DEF want, written
      <4>1. Len(want) \in Nat
        BY <1>5
      <4>2. Len(made) \in Nat
        BY <1>11
      <4> QED BY <1>12, <4>1, <4>2, Zenon
    <3>2. j \in Int /\ j >= Len(want) + 1 /\ j <= Len(made)
      BY <1>14, <3>1
    <3>3. start + len + (L - e + 1) = Len(want) + 1 /\ start + len + (L - e + 2) = Len(want) + 2
      BY <1>1, <1>5
    <3> HIDE DEF written
    <3>4. j = Len(want) + 1 \/ j = Len(want) + 2 \/ j \in written + 1..Len(made)
      BY <3>1, <3>2
    <3> QED BY <3>3, <3>4, Zenon
  <2> QED BY <2>1, <2>2, <2>3
<1>15. P!IsPrefix(want, made)
  <2>1. Len(want) \in 0..Len(want) /\ Len(want) \in 0..Len(made)
    BY <1>5, <1>11, <1>12
  <2>2. SubSeq(want, 1, Len(want)) = SubSeq(made, 1, Len(want))
    BY <1>5, <1>11, <1>12, <1>13, <2>1
  <2> QED BY <1>12, <2>2 DEF P!IsPrefix
<1> QED BY <1>12, <1>14, <1>15 DEF want, made, a, b

LEMMA ModifyRewrites ==
    ASSUME NEW file, NEW seekstr, NEW newstr, P!Places(file, seekstr) # {},
           NEW relay_loca \in {"RELAY_CUR", "RELAY_END"}
    PROVE  LET k    == CHOOSE p \in P!Places(file, seekstr) : \A q \in P!Places(file, seekstr) : p <= q
               seek == P!PieceEnd(file, k) - P!Strlen(file, k)
           IN  P!modify_file(file, seekstr, newstr, relay_loca) =
                   Rewrite(file, IF relay_loca = "RELAY_CUR" THEN seek ELSE seek + Len(seekstr),
                           newstr, P!PieceEnd(file, k))
  BY DEF P!modify_file, Rewrite, P!Rest

(* The script is changed in the piece of a line where the string is found   *)
(* and nowhere else, whatever the file, the room for a piece, the string and*)
(* the new text, longer or shorter.                                         *)
THEOREM OnlyThatLineHolds ==
    ASSUME NEW S, NEW file \in Seq(S), NEW seekstr \in Seq(S), NEW newstr \in Seq(S),
           NEW relay_loca
    PROVE  P!OnlyThatLine(file, seekstr, newstr, relay_loca)
<1> DEFINE found == P!Places(file, seekstr)
           Kept(k) == IF relay_loca = "RELAY_CUR" THEN k - 1 ELSE k - 1 + Len(seekstr)
           Want(k) == SubSeq(file, 1, Kept(k)) \o newstr
                          \o SubSeq(file, P!PieceEnd(file, k) + 1, Len(file))
           made == P!modify_file(file, seekstr, newstr, relay_loca)
           Right(k) == /\ \A q \in found : k <= q
                       /\ P!IsPrefix(Want(k), made)
                       /\ \A m \in Len(Want(k)) + 1..Len(made) : made[m] = P!Nul
                       /\ Len(made) >= Len(file)
<1>0. CASE found = {} \/ relay_loca \notin {"RELAY_CUR", "RELAY_END"}
  BY <1>0 DEF P!OnlyThatLine, P!modify_file
<1> SUFFICES ASSUME found # {}, relay_loca \in {"RELAY_CUR", "RELAY_END"},
                    \A m \in DOMAIN file : file[m] # P!Nul
             PROVE  \E k \in found : Right(k)
  BY <1>0 DEF P!OnlyThatLine
<1>1. PICK k \in found : /\ k = CHOOSE p \in found : \A q \in found : p <= q
                         /\ \A q \in found : k <= q
  <2>1. found \in SUBSET Nat
    BY DEF P!Places
  <2>2. \E p \in found : \A q \in found : p <= q
    <3> HIDE DEF found
    <3> QED BY <2>1, Smallest
  <2> HIDE DEF found
  <2> QED BY <2>2
<1> DEFINE e == P!PieceEnd(file, k)
<1>2. k \in 1..Len(file) /\ k + Len(seekstr) - 1 <= e
  BY DEF P!Places
<1>3. e \in k..Len(file)
  BY <1>2, EndOfPiece
<1>4. P!Strlen(file, k) = e - k + 1
  <2>1. \A m \in k..P!PieceEnd(file, k) : file[m] # P!Nul
    BY <1>2, <1>3
  <2> QED BY <2>1 DEF P!Strlen
<1>5. Kept(k) \in 0..e /\ e \in 1..Len(file)
  BY <1>2, <1>3
<1>6. e - P!Strlen(file, k) = k - 1
  BY <1>2, <1>3, <1>4
<1>7. made = Rewrite(file, Kept(k), newstr, e)
  <2> DEFINE seek == P!PieceEnd(file, k) - P!Strlen(file, k)
  <2>1. made = Rewrite(file, IF relay_loca = "RELAY_CUR" THEN seek ELSE seek + Len(seekstr),
                         newstr, P!PieceEnd(file, k))
    <3>1. P!Places(file, seekstr) # {} /\ relay_loca \in {"RELAY_CUR", "RELAY_END"}
      OBVIOUS
    <3>2. k = CHOOSE p \in found : \A q \in found : p <= q
      BY <1>1, Zenon
    <3> QED BY <3>1, <3>2, ModifyRewrites, Zenon
  <2> QED BY <1>6, <2>1
<1>8. PICK T : P!Nul \in T /\ file \in Seq(T) /\ newstr \in Seq(T)
  <2>1. file \in Seq(S \cup {P!Nul}) /\ newstr \in Seq(S \cup {P!Nul})
    OBVIOUS
  <2> QED BY <2>1
<1> HIDE DEF made
<1>9. LET r == Rewrite(file, Kept(k), newstr, e)
          w == SubSeq(file, 1, Kept(k)) \o newstr \o SubSeq(file, e + 1, Len(file))
      IN  /\ P!IsPrefix(w, r)
          /\ \A m \in Len(w) + 1..Len(r) : r[m] = P!Nul
          /\ Len(r) >= Len(file)
  <2> HIDE DEF Kept, e
  <2> QED BY <1>5, <1>8, Rewritten
<1>10. Right(k)
  <2>1. \A q \in found : k <= q
    BY <1>1, Zenon
  <2> QED BY <1>7, <1>9, <2>1, Zenon
<1> QED BY <1>10, Zenon

(* The characters of the cards that OperatorFound asks about.               *)
Cards == P!White \cup {"0", "1", "2", "3", "4", "5", "6", "7"}

(* id_isp skips the blanks and looks at what comes next.                    *)
LEMMA BlanksBefore ==
    ASSUME NEW b \in Seq(Cards), \A k \in DOMAIN b : b[k] \in P!White,
           NEW t \in Seq(Cards), 1 \in DOMAIN t, t[1] \notin P!White
    PROVE  /\ P!Blanks(b \o t) = Len(b)
           /\ \A k \in 1..Len(t) : P!At(b \o t, Len(b) + k) = t[k]
<1> DEFINE s == b \o t
           len == Len(b)
           I == {q \in 1..Len(s) : s[q] \notin P!White}
<1>1. len \in Nat /\ \A k \in 1..len : b[k] \in P!White
  OBVIOUS
<1>2. /\ s \in Seq(Cards) /\ Len(s) = len + Len(t)
      /\ \A k \in 1..len : s[k] = b[k]
      /\ \A k \in 1..Len(t) : s[len + k] = t[k]
  BY Joined
<1>3. 1 \in 1..Len(t)
  OBVIOUS
<1> HIDE DEF s, len
<1>4. len + 1 \in I
  BY <1>1, <1>2, <1>3
<1>5. ASSUME NEW j \in I PROVE len + 1 <= j
  <2>1. j \in 1..Len(s) /\ s[j] \notin P!White /\ ~(j \in 1..len)
    BY <1>1, <1>2
  <2> QED BY <1>1, <1>2, <2>1
<1>6. P!Min(I) = len + 1
  <2>1. I \subseteq Nat /\ len + 1 \in Nat
    BY <1>1
  <2> HIDE DEF I
  <2>2. \A x \in I : (\A y \in I : x <= y) => x = len + 1
    BY <1>4, <1>5, <2>1
  <2> QED BY <1>4, <1>5, <2>2 DEF P!Min
<1>7. P!Blanks(s) = len
  <2>1. ~\A k \in DOMAIN s : s[k] \in P!White
    BY <1>1, <1>2, <1>4
  <2>2. P!SelectInSeq(s, LAMBDA c : c \notin P!White) = len + 1
    BY <1>4, <1>6 DEF P!SelectInSeq
  <2>3. P!Blanks(s) = P!SelectInSeq(s, LAMBDA c : c \notin P!White) - 1
    BY <2>1, Zenon DEF P!Blanks
  <2> QED BY <1>1, <2>2, <2>3
<1>8. ASSUME NEW k \in 1..Len(t) PROVE P!At(s, len + k) = t[k]
  <2>1. len + k \in DOMAIN s
    BY <1>1, <1>2
  <2> QED BY <1>2, <2>1 DEF P!At
<1> QED BY <1>7, <1>8 DEF s, len

LEMMA CharOfCard == \A s \in Seq(Cards) : \A k \in 1..Len(s) : s[k] \in Cards
  OBVIOUS

LEMMA JoinedCards ==
    ASSUME NEW s \in Seq(Cards), NEW t \in Seq(Cards)
    PROVE  /\ s \o t \in Seq(Cards) /\ Len(s \o t) = Len(s) + Len(t)
           /\ \A j \in 1..Len(s) : (s \o t)[j] = s[j]
           /\ \A j \in 1..Len(t) : (s \o t)[Len(s) + j] = t[j]
  OBVIOUS

LEMMA SixChars ==
    ASSUME NEW s \in Seq(Cards), Len(s) = 3, NEW t \in Seq(Cards), Len(t) = 3
    PROVE  /\ s \o t \in Seq(Cards) /\ Len(s \o t) = 6
           /\ (s \o t)[1] = s[1] /\ (s \o t)[2] = s[2] /\ (s \o t)[3] = s[3]
           /\ (s \o t)[4] = t[1] /\ (s \o t)[5] = t[2]
<1>1. /\ s \o t \in Seq(Cards) /\ Len(s \o t) = Len(s) + Len(t)
      /\ \A j \in 1..Len(s) : (s \o t)[j] = s[j]
      /\ \A j \in 1..Len(t) : (s \o t)[Len(s) + j] = t[j]
  BY JoinedCards, Zenon
<1>2. 1 \in 1..Len(s) /\ 2 \in 1..Len(s) /\ 3 \in 1..Len(s) /\ 1 \in 1..Len(t) /\ 2 \in 1..Len(t)
  OBVIOUS
<1>3. Len(s) + 1 = 4 /\ Len(s) + 2 = 5
  OBVIOUS
<1> DEFINE z == s \o t
<1>4. /\ z \in Seq(Cards) /\ Len(z) = Len(s) + Len(t)
      /\ \A j \in 1..Len(s) : z[j] = s[j]
      /\ \A j \in 1..Len(t) : z[Len(s) + j] = t[j]
  BY <1>1
<1> HIDE DEF z
<1>5. z \in Seq(Cards) /\ Len(z) = 6 /\ z[1] = s[1] /\ z[2] = s[2] /\ z[3] = s[3] /\ z[4] = t[1] /\ z[5] = t[2]
  BY <1>2, <1>3, <1>4
<1> QED BY <1>5 DEF z

LEMMA CutShort ==
    ASSUME NEW d \in Seq(Cards), NEW len \in 0..Len(d)
    PROVE  SubSeq(d, 1, len) \in Seq(Cards) /\ Len(SubSeq(d, 1, len)) = len
           /\ \A k \in 1..len : SubSeq(d, 1, len)[k] = d[k]
  OBVIOUS

LEMMA Beginnings ==
    ASSUME NEW d \in Seq(Cards), Len(d) = 5
    PROVE  SubSeq(d, 1, 3) = <<d[1], d[2], d[3]>> /\ SubSeq(d, 1, 4) = <<d[1], d[2], d[3], d[4]>>
<1>1. ASSUME NEW len \in 0..Len(d)
      PROVE  SubSeq(d, 1, len) \in Seq(Cards) /\ Len(SubSeq(d, 1, len)) = len
             /\ \A k \in 1..len : SubSeq(d, 1, len)[k] = d[k]
  BY CutShort
<1>2. \A u \in Seq(Cards) : Len(u) = 3 => u = <<u[1], u[2], u[3]>>
  OBVIOUS
<1>3. \A u \in Seq(Cards) : Len(u) = 4 => u = <<u[1], u[2], u[3], u[4]>>
  OBVIOUS
<1>4. 3 \in 0..Len(d) /\ 4 \in 0..Len(d) /\ {1, 2, 3} \subseteq 1..3 /\ {1, 2, 3, 4} \subseteq 1..4
  OBVIOUS
<1>5. PICK u \in Seq(Cards) : u = SubSeq(d, 1, 3) /\ Len(u) = 3 /\ \A k \in 1..3 : u[k] = d[k]
  BY <1>1, <1>4
<1>6. PICK v \in Seq(Cards) : v = SubSeq(d, 1, 4) /\ Len(v) = 4 /\ \A k \in 1..4 : v[k] = d[k]
  BY <1>1, <1>4
<1>7. u = <<u[1], u[2], u[3]>> /\ v = <<v[1], v[2], v[3], v[4]>>
  BY <1>2, <1>3, <1>5, <1>6
<1>8. u[1] = d[1] /\ u[2] = d[2] /\ u[3] = d[3] /\ v[1] = d[1] /\ v[2] = d[2] /\ v[3] = d[3] /\ v[4] = d[4]
  BY <1>4, <1>5, <1>6
<1> QED BY <1>5, <1>6, <1>7, <1>8, Zenon

(* id_isp by the characters that it looks at, the blanks b of them skipped. *)
LEMMA Judged5 ==
    ASSUME NEW b \in Seq(Cards), \A k \in DOMAIN b : b[k] \in P!White, NEW strsize \in Int,
           NEW t \in Seq(Cards), Len(t) = 6, t[1] \notin P!White
    PROVE  P!id_isp(b \o t, strsize) =
             IF strsize \in 1..Len(b) \/ ~(t[1] = "4" /\ t[2] = "6" /\ t[3] = "0") THEN -1
             ELSE IF t[4] = "2" THEN 4
             ELSE IF t[5] \in {"0", "2", "7"} THEN 1
             ELSE IF t[5] \in {"1", "6"} THEN 2
             ELSE IF t[5] \in {"3", "5"} THEN 3 ELSE -1
<1> DEFINE c == b \o t
           d == [k \in 1..5 |-> P!At(c, P!Blanks(c) + k)]
<1>1. Len(b) \in Nat /\ P!Blanks(c) = Len(b) /\ \A k \in 1..6 : P!At(c, Len(b) + k) = t[k]
  <2>1. 1 \in DOMAIN t
    OBVIOUS
  <2>2. /\ P!Blanks(b \o t) = Len(b)
        /\ \A k \in 1..Len(t) : P!At(b \o t, Len(b) + k) = t[k]
    BY <2>1, BlanksBefore
  <2> QED BY <2>2
<1> HIDE DEF c
<1>2. d[1] = t[1] /\ d[2] = t[2] /\ d[3] = t[3] /\ d[4] = t[4] /\ d[5] = t[5]
  BY <1>1
<1>3. d \in Seq(Cards) /\ Len(d) = 5
  <2>1. \A k \in 1..6 : t[k] \in Cards
    BY CharOfCard
  <2>2. \A k \in 1..5 : P!At(c, P!Blanks(c) + k) \in Cards
    BY <1>1, <2>1
  <2> QED BY <2>2
<1> HIDE DEF d
<1>4. SubSeq(d, 1, 3) = <<d[1], d[2], d[3]>> /\ SubSeq(d, 1, 4) = <<d[1], d[2], d[3], d[4]>>
  BY <1>3, Beginnings
<1>5. SubSeq(d, 1, 3) = <<"4", "6", "0">> <=> t[1] = "4" /\ t[2] = "6" /\ t[3] = "0"
  BY <1>2, <1>4
<1>6. SubSeq(d, 1, 4) = <<"4", "6", "0", "2">> <=> t[1] = "4" /\ t[2] = "6" /\ t[3] = "0" /\ t[4] = "2"
  BY <1>2, <1>4
<1>7. P!id_isp(c, strsize) =
          CASE strsize \in 1..Len(b) -> -1
            [] strsize \notin 1..Len(b) /\ SubSeq(d, 1, 3) # <<"4", "6", "0">> -> -1
            [] strsize \notin 1..Len(b) /\ SubSeq(d, 1, 4) = <<"4", "6", "0", "2">> -> 4
            [] OTHER -> CASE d[5] \in {"0", "2", "7"} -> 1
                          [] d[5] \in {"1", "6"}      -> 2
                          [] d[5] \in {"3", "5"}      -> 3
                          [] OTHER                    -> -1
  BY <1>1 DEF P!id_isp, d
<1> QED BY <1>1, <1>2, <1>5, <1>6, <1>7 DEF c

(* Every operator of the list is found by its IMSI behind any blanks, unless*)
(* the size given is one of the counts on the way, and for a size of nothing*)
(* always; a card of another country is found to have none.                 *)
THEOREM OperatorFoundHolds ==
    ASSUME NEW len \in Nat, NEW strsize \in Int
    PROVE  P!OperatorFound(len, strsize)
<1> DEFINE Card(m, mcc) == [k \in 1..len |-> " "] \o mcc \o <<m[1], m[2], "5">>
<1> SUFFICES ASSUME NEW m \in P!Operators,
                    NEW mcc \in {<<"4", "6", "0">>, <<"4", "6", "1">>}
             PROVE  P!id_isp(Card(m, mcc), strsize) =
                        IF strsize \notin 1..len /\ mcc[3] = "0" THEN m[3] ELSE -1
  BY DEF P!OperatorFound
<1> DEFINE b == [k \in 1..len |-> " "]
           t == mcc \o <<m[1], m[2], "5">>
<1>1. b \in Seq(Cards) /\ Len(b) = len /\ \A k \in DOMAIN b : b[k] \in P!White
  <2> DEFINE sp == " "
  <2>1. sp \in P!White
    BY Zenon DEF P!White
  <2>2. sp \in Cards
    BY <2>1, Zenon DEF Cards
  <2>3. b = [k \in 1..len |-> sp]
    OBVIOUS
  <2> HIDE DEF sp, b
  <2> QED BY <2>1, <2>2, <2>3
<1>2. m[1] \in Cards /\ m[2] \in Cards
  BY DEF P!Operators, Cards
<1>3. \A x, y, z \in Cards : <<x, y, z>> \in Seq(Cards)
  OBVIOUS
<1>4. /\ mcc \in Seq(Cards) /\ Len(mcc) = 3 /\ mcc[1] = "4" /\ mcc[2] = "6" /\ mcc[3] \in {"0", "1"}
      /\ "5" \in Cards
  <2>1. "0" \in Cards /\ "1" \in Cards /\ "4" \in Cards /\ "5" \in Cards /\ "6" \in Cards
    BY DEF Cards
  <2>2. CASE mcc = <<"4", "6", "0">>
    <3>1. <<"4", "6", "0">> \in Seq(Cards)
      BY <1>3, <2>1
    <3> QED BY <2>1, <2>2, <3>1
  <2>3. CASE mcc = <<"4", "6", "1">>
    <3>1. <<"4", "6", "1">> \in Seq(Cards)
      BY <1>3, <2>1
    <3> QED BY <2>1, <2>3, <3>1
  <2> QED BY <2>2, <2>3
<1>5. t \in Seq(Cards) /\ Len(t) = 6 /\ t[1] = "4" /\ t[2] = "6" /\ t[3] = mcc[3] /\ t[4] = m[1] /\ t[5] = m[2]
  <2> DEFINE u == <<m[1], m[2], "5">>
  <2>1. u \in Seq(Cards)
    BY <1>2, <1>3, <1>4
  <2>2. Len(u) = 3 /\ u[1] = m[1] /\ u[2] = m[2]
    OBVIOUS
  <2>3. t = mcc \o u
    OBVIOUS
  <2> HIDE DEF u, t
  <2> QED BY <1>4, <2>1, <2>2, <2>3, SixChars
<1>6. "4" \notin P!White
  BY DEF P!White, P!NL
<1> HIDE DEF b, t
<1>7. P!id_isp(b \o t, strsize) =
             IF strsize \in 1..Len(b) \/ ~(t[1] = "4" /\ t[2] = "6" /\ t[3] = "0") THEN -1
             ELSE IF t[4] = "2" THEN 4
             ELSE IF t[5] \in {"0", "2", "7"} THEN 1
             ELSE IF t[5] \in {"1", "6"} THEN 2
             ELSE IF t[5] \in {"3", "5"} THEN 3 ELSE -1
  <2>1. /\ b \in Seq(Cards) /\ \A k \in DOMAIN b : b[k] \in P!White
        /\ t \in Seq(Cards) /\ Len(t) = 6 /\ t[1] \notin P!White
    BY <1>1, <1>5, <1>6
  <2> QED BY <2>1, Judged5, Zenon
<1>8. Card(m, mcc) = b \o t
  <2> DEFINE u == <<m[1], m[2], "5">>
  <2>1. u \in Seq(Cards)
    BY <1>2, <1>3, <1>4
  <2>2. Card(m, mcc) = (b \o mcc) \o u
    BY DEF b
  <2>3. t = mcc \o u
    BY DEF t
  <2> HIDE DEF u
  <2>4. (b \o mcc) \o u = b \o (mcc \o u)
    BY <1>1, <1>4, <2>1
  <2> QED BY <2>2, <2>3, <2>4
<1>9. (strsize \notin 1..len /\ mcc[3] = "0") <=> ~(strsize \in 1..Len(b) \/ ~(t[1] = "4" /\ t[2] = "6" /\ t[3] = "0"))
  BY <1>1, <1>5
<1>10. m[3] = IF m[1] = "2" THEN 4 ELSE IF m[2] \in {"0", "2", "7"} THEN 1
             ELSE IF m[2] \in {"1", "6"} THEN 2 ELSE IF m[2] \in {"3", "5"} THEN 3 ELSE -1
  BY DEF P!Operators
<1> QED BY <1>5, <1>7, <1>8, <1>9, <1>10

LEMMA FewChars ==
    ASSUME NEW S
    PROVE  /\ <<>> \in Seq(S)
           /\ \A a \in S : <<a>> \in Seq(S)
           /\ \A a, b \in S : <<a, b>> \in Seq(S)
           /\ \A a, b, c \in S : <<a, b, c>> \in Seq(S)
<1>1. \A a, b, c \in S : <<a, b, c>> \in Seq(S)
  OBVIOUS
<1>2. \A a, b \in S : <<a, b>> \in Seq(S)
  OBVIOUS
<1>3. <<>> \in Seq(S) /\ \A a \in S : <<a>> \in Seq(S)
  OBVIOUS
<1> QED BY <1>1, <1>2, <1>3

(* So the dialler is right in the instance that is checked, as in any other.*)
THEOREM DialScriptHolds == Spec => []DialScript
<1>1. \A blanks \in 0..4, strsize \in {0, 3} : P!OperatorFound(blanks, strsize)
  <2>1. 0..4 \subseteq Nat /\ {0, 3} \subseteq Int
    OBVIOUS
  <2> QED BY <2>1, OperatorFoundHolds
<1> DEFINE Chosen == {"a", "b", "nl", "x", "y", "z"}
<1>2. ASSUME NEW file \in Files, NEW seekstr \in Wanted, NEW newstr \in NewTexts,
             NEW relay_loca \in {"RELAY_CUR", "RELAY_END", "other"}
      PROVE  P!OnlyThatLine(file, seekstr, newstr, relay_loca)
  <2>1. file \in Seq(Chosen)
    <3>1. PICK k \in 1..5 : file \in [1..k -> {"a", "b", "nl"}]
      BY DEF Files
    <3>2. file \in [1..k -> Chosen]
      BY <3>1
    <3> HIDE DEF Chosen
    <3> QED BY <3>2
  <2>2. seekstr \in Seq(Chosen)
    <3>1. "a" \in Chosen /\ "b" \in Chosen
      OBVIOUS
    <3>2. seekstr = <<"a">> \/ seekstr = <<"a", "b">>
      BY DEF Wanted
    <3> HIDE DEF Chosen
    <3>3. <<"a">> \in Seq(Chosen) /\ <<"a", "b">> \in Seq(Chosen)
      BY <3>1, FewChars
    <3> QED BY <3>2, <3>3
  <2>3. newstr \in Seq(Chosen)
    <3>1. "b" \in Chosen /\ "x" \in Chosen /\ "y" \in Chosen /\ "z" \in Chosen
      OBVIOUS
    <3>2. newstr = <<>> \/ newstr = <<"b">> \/ newstr = <<"x", "y", "z">>
      BY DEF NewTexts
    <3> HIDE DEF Chosen
    <3>3. <<>> \in Seq(Chosen) /\ <<"b">> \in Seq(Chosen) /\ <<"x", "y", "z">> \in Seq(Chosen)
      BY <3>1, FewChars
    <3> QED BY <3>2, <3>3
  <2> HIDE DEF Chosen
  <2> QED BY <2>1, <2>2, <2>3, OnlyThatLineHolds
<1>3. DialScript
  BY <1>1, <1>2 DEF DialScript, DiallerRight
<1> QED BY <1>3, PTL
================================================================================
