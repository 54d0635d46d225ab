----------------------------- MODULE ComToolProofs -----------------------------
(* Theorems about Comport and ComTool: for every command line and whatever  *)
(* settings the port is found with, the framing is the one asked for while  *)
(* the terminal runs, and the settings are put back when it ends; what      *)
(* becomes of the flow control that the modem's programs ask for; and that  *)
(* select() does not wait beside a line it cannot see.                      *)
EXTENDS ComTool, SequenceTheorems, WellFoundedInduction, TLAPS

USE TermsAssumption
USE DEF Goto

(* Each of the four functions leaves a termios record, and sets its own     *)
(* part of it to the same whatever the record held.                         *)
LEMMA EachSetting ==
    ASSUME NEW t \in Termios, NEW u \in Termios, NEW x
    PROVE  /\ set_baudrate(x, t) \in Termios
           /\ set_baudrate(x, t).speed = set_baudrate(x, u).speed
           /\ set_data_bit(x, t) \in Termios
           /\ set_data_bit(x, t).csize = set_data_bit(x, u).csize
           /\ set_parity(x, t) \in Termios
           /\ set_parity(x, t).parenb = set_parity(x, u).parenb
           /\ set_parity(x, t).parenb => set_parity(x, t).parodd = set_parity(x, u).parodd
           /\ set_stopbit(x, t) \in Termios
           /\ set_stopbit(x, t).cstopb = set_stopbit(x, u).cstopb
<1>1. set_baudrate(x, t) \in Termios /\ set_baudrate(x, t).speed = set_baudrate(x, u).speed
  BY DEF set_baudrate, Termios, Baudrates
<1>2. set_data_bit(x, t) \in Termios /\ set_data_bit(x, t).csize = set_data_bit(x, u).csize
  BY DEF set_data_bit, Termios
<1>3. set_parity(x, t) \in Termios
  BY DEF set_parity, Termios
<1>4. /\ set_parity(x, t).parenb = set_parity(x, u).parenb
      /\ set_parity(x, t).parenb => set_parity(x, t).parodd = set_parity(x, u).parodd
  BY DEF set_parity, Termios
<1>5. set_stopbit(x, t) \in Termios /\ set_stopbit(x, t).cstopb = set_stopbit(x, u).cstopb
  BY DEF set_stopbit, Termios
<1> QED BY <1>1, <1>2, <1>3, <1>4, <1>5

(* What a function does not set it leaves alone.                            *)
LEMMA OthersKept ==
    ASSUME NEW t \in Termios, NEW x
    PROVE  /\ \A f \in {"csize", "parenb", "parodd", "cstopb"} : set_baudrate(x, t)[f] = t[f]
           /\ \A f \in {"parenb", "parodd", "cstopb"} : set_data_bit(x, t)[f] = t[f]
           /\ set_parity(x, t).cstopb = t.cstopb
  BY DEF set_baudrate, set_data_bit, set_parity, Termios

(* The record as a whole; the flow control is not this function's.          *)
LEMMA SettingsTyped ==
    ASSUME NEW o, NEW t \in Termios
    PROVE  /\ Settings(o, t) \in Termios
           /\ Settings(o, t).crtscts = t.crtscts /\ Settings(o, t).ixon = t.ixon
           /\ o.baudrate \in Baudrates => Settings(o, t).speed = o.baudrate
<1> DEFINE Raw  == [t EXCEPT !.raw = TRUE]
           Stop == set_stopbit(o.stopbit, Raw)
           Par  == set_parity(o.paritybit, Stop)
           Data == set_data_bit(o.databit, Par)
           Baud == set_baudrate(o.baudrate, Data)
           Flow(r) == r \in Termios /\ r.crtscts = t.crtscts /\ r.ixon = t.ixon
<1>1. Flow(Raw)
  BY DEF Termios
<1> HIDE DEF Raw
<1>2. Flow(Stop)
  BY <1>1 DEF set_stopbit, Termios
<1> HIDE DEF Stop
<1>3. Flow(Par)
  <2>1. Par \in Termios
    BY <1>2, EachSetting
  <2> QED BY <1>2, <2>1 DEF set_parity, Termios
<1> HIDE DEF Par
<1>4. Flow(Data)
  BY <1>3 DEF set_data_bit, Termios
<1> HIDE DEF Data
<1>5. Flow(Baud) /\ (o.baudrate \in Baudrates => Baud.speed = o.baudrate)
  <2>1. Baud \in Termios
    BY <1>4, EachSetting
  <2> QED BY <1>4, <2>1 DEF set_baudrate, Termios
<1> HIDE DEF Baud
<1>6. Settings(o, t) = Baud
  BY DEF Settings, Baud, Data, Par, Stop, Raw
<1> QED BY <1>5, <1>6

(* The framing that setComport asks for is a function of the command line:  *)
(* nothing of it is inherited from whoever used the port before.            *)
THEOREM FramingIsAsked ==
    ASSUME NEW o, NEW t \in Termios, NEW u \in Termios
    PROVE  Framing(Settings(o, t)) = Framing(Settings(o, u))
<1> DEFINE Raw(r) == [r EXCEPT !.raw = TRUE]
           Stop(r) == set_stopbit(o.stopbit, Raw(r))
           Par(r)  == set_parity(o.paritybit, Stop(r))
           Data(r) == set_data_bit(o.databit, Par(r))
           Baud(r) == set_baudrate(o.baudrate, Data(r))
<1>1. \A r \in Termios : Settings(o, r) = Baud(r)
  BY DEF Settings
<1>2. \A r \in Termios : Raw(r) \in Termios
  BY DEF Termios
<1> HIDE DEF Raw
<1>3. /\ \A r \in Termios : Stop(r) \in Termios
      /\ Stop(t).cstopb = Stop(u).cstopb
  BY <1>2, EachSetting
<1> HIDE DEF Stop
<1>4. /\ \A r \in Termios : Par(r) \in Termios
      /\ Par(t).cstopb = Par(u).cstopb
      /\ Par(t).parenb = Par(u).parenb
      /\ Par(t).parenb => Par(t).parodd = Par(u).parodd
  BY <1>3, EachSetting, OthersKept
<1> HIDE DEF Par
<1>5. /\ \A r \in Termios : Data(r) \in Termios
      /\ Data(t).csize = Data(u).csize
      /\ \A r \in Termios : /\ Data(r).cstopb = Par(r).cstopb
                            /\ Data(r).parenb = Par(r).parenb
                            /\ Data(r).parodd = Par(r).parodd
  <2>1. \A r \in Termios : \A f \in {"parenb", "parodd", "cstopb"} : Data(r)[f] = Par(r)[f]
    BY <1>4, OthersKept
  <2>2. \A r \in Termios : /\ Data(r).cstopb = Par(r).cstopb
                            /\ Data(r).parenb = Par(r).parenb
                            /\ Data(r).parodd = Par(r).parodd
    <3> HIDE DEF Data
    <3> QED BY <2>1
  <2>3. \A r \in Termios : Data(r) \in Termios
    BY <1>4, EachSetting
  <2>4. Data(t).csize = Data(u).csize
    BY <1>4, EachSetting
  <2> QED BY <2>2, <2>3, <2>4
<1> HIDE DEF Data
<1>6. /\ Baud(t).speed = Baud(u).speed
      /\ \A r \in Termios : /\ Baud(r).csize = Data(r).csize
                            /\ Baud(r).cstopb = Data(r).cstopb
                            /\ Baud(r).parenb = Data(r).parenb
                            /\ Baud(r).parodd = Data(r).parodd
  <2>1. \A r \in Termios :
          \A f \in {"csize", "parenb", "parodd", "cstopb"} : Baud(r)[f] = Data(r)[f]
    BY <1>5, OthersKept
  <2> QED BY <1>5, <2>1, EachSetting
<1> HIDE DEF Baud
<1> QED BY <1>1, <1>4, <1>5, <1>6 DEF Framing

(* With the modem's copy, too, as long as no software flow control is asked *)
(* for; and then the hardware flow control is on if it was asked for.       *)
THEOREM FlowIsAsked ==
    ASSUME NEW o, o.flowctl # 2, NEW t \in Termios, NEW u \in Termios
    PROVE  /\ Framing(FlowSettings(o, t)) = Framing(FlowSettings(o, u))
           /\ FlowSettings(o, t).crtscts = (o.flowctl = 1)
<1> DEFINE p == [o EXCEPT !.paritybit = Upper(@)]
<1>1. ASSUME NEW r \in Termios
      PROVE  /\ Framing(FlowSettings(o, r)) = Framing(Settings(p, r))
             /\ FlowSettings(o, r).crtscts = (o.flowctl = 1)
  <2> DEFINE s == Settings(p, r)
  <2>1. s \in Termios
    BY SettingsTyped
  <2>2. FlowSettings(o, r) = set_flowctr(o.flowctl, s)
    BY DEF FlowSettings
  <2> HIDE DEF p, s
  <2>3. CASE o.flowctl = 1
    <3>1. FlowSettings(o, r) = [s EXCEPT !.crtscts = TRUE]
      BY <2>2, <2>3 DEF set_flowctr
    <3> QED BY <2>1, <2>3, <3>1 DEF Framing, Termios, s
  <2>4. CASE o.flowctl # 1
    <3>1. FlowSettings(o, r) = [s EXCEPT !.crtscts = FALSE]
      BY <2>2, <2>4 DEF set_flowctr
    <3> QED BY <2>1, <2>4, <3>1 DEF Framing, Termios, s
  <2> QED BY <2>3, <2>4
<1> HIDE DEF p
<1> QED BY <1>1, FramingIsAsked

(* "Software flow control" (the comment of set_flowctr) is never set: the   *)
(* port keeps the flow control it was found with, of either kind, and does  *)
(* not get the speed that was asked for if that is 38400 or less.           *)
THEOREM SoftwareFlowIsNotSet ==
    ASSUME NEW o, o.flowctl = 2, NEW t \in Termios
    PROVE  /\ FlowSettings(o, t).crtscts = t.crtscts
           /\ FlowSettings(o, t).ixon = t.ixon
           /\ o.baudrate \in Baudrates /\ o.baudrate <= 38400 =>
                  FlowSettings(o, t).speed # o.baudrate
<1> DEFINE p == [o EXCEPT !.paritybit = Upper(@)]
           s == Settings(p, t)
<1>1. p.baudrate = o.baudrate
  OBVIOUS
<1>2. FlowSettings(o, t) = set_flowctr(2, s)
  BY DEF FlowSettings
<1> HIDE DEF p
<1>3. s \in Termios /\ s.crtscts = t.crtscts /\ s.ixon = t.ixon
  BY SettingsTyped
<1>4. o.baudrate \in Baudrates => s.speed = o.baudrate
  BY <1>1, SettingsTyped
<1> HIDE DEF s
<1>5. FlowSettings(o, t) =
        [s EXCEPT !.speed = IF s.speed <= 38400 THEN another ELSE s.speed]
  BY <1>2 DEF set_flowctr
<1>6. FlowSettings(o, t).crtscts = t.crtscts /\ FlowSettings(o, t).ixon = t.ixon
  BY <1>3, <1>5 DEF Termios
<1>7. ASSUME o.baudrate \in Baudrates, o.baudrate <= 38400
      PROVE  FlowSettings(o, t).speed # o.baudrate
  <2>1. s.speed = o.baudrate /\ o.baudrate # another
    BY <1>4, <1>7 DEF Baudrates, another
  <2>2. FlowSettings(o, t).speed = another
    BY <1>3, <1>5, <1>7, <2>1 DEF Termios
  <2> QED BY <2>1, <2>2
<1> QED BY <1>6, <1>7

-----------------------------------------------------------------------------

(* The structure is freed by the one way out, and the port is set by the    *)
(* one way in.                                                              *)
PortInv ==
    /\ found \in Terms
    /\ released \in {0, 1} /\ (at # "exited" => released = 0)
    /\ at \notin {"open", "exited"} /\ "set" \notin failed => term = Settings(opts, found)
    /\ at = "exited" /\ failed \cap {"open", "restore"} = {} => term = found /\ released = 1

LEMMA PortInit == Init => PortInv
  BY DEF Init, PortInv

(* A step of the loop does not leave the program and leaves the port alone. *)
LEMMA InTheLoop ==
    ASSUME PortInv, at \notin {"open", "exited"}, at' \notin {"open", "exited"},
           UNCHANGED port, failed \subseteq failed'
    PROVE  PortInv'
  BY DEF PortInv, port

LEMMA PortOpen == ASSUME PortInv, Open PROVE PortInv'
<1>1. /\ at = "open" /\ UNCHANGED <<opts, found, released>>
      /\ \/ at' = "exited" /\ "open" \in failed'
         \/ at' = "test" /\ term' = Settings(opts, found)
         \/ at' = "test" /\ "set" \in failed'
  BY DEF Open
<1> QED BY <1>1 DEF PortInv

LEMMA PortClose == ASSUME PortInv, Close PROVE PortInv'
<1>1. /\ at = "close" /\ at' = "exited" /\ UNCHANGED <<opts, found>>
      /\ \/ term' = found /\ released' = released + 1
         \/ "restore" \in failed' /\ released' = released
  BY DEF Close
<1> QED BY <1>1 DEF PortInv

LEMMA PortSignal == ASSUME PortInv, sighandler PROVE PortInv'
<1>1. UNCHANGED <<opts, found>>
  BY DEF sighandler
<1>2. CASE Interrupted
  BY <1>1, <1>2, InTheLoop DEF Interrupted, port
<1>3. CASE ~Interrupted
  BY <1>1, <1>3 DEF sighandler, PortInv
<1> QED BY <1>2, <1>3

LEMMA PortNext == PortInv /\ [Next]_vars => PortInv'
<1> SUFFICES ASSUME PortInv, [Next]_vars PROVE PortInv'
  OBVIOUS
<1>1. CASE Control
  <2>1. at \notin {"open", "exited"} /\ at' \notin {"open", "exited"}
    BY <1>1 DEF Control, Test, Enter, SelectTimeout, SelectStdin, SelectPort
  <2>2. UNCHANGED <<port, failed>>
    BY <1>1 DEF Control
  <2> QED BY <2>1, <2>2, InTheLoop
<1>2. CASE Fgets
  <2>1. UNCHANGED port /\ at = "fgets"
    BY <1>2 DEF Fgets
  <2>2. at' \in {"fgets", "write"} /\ failed \subseteq failed'
    BY <1>2 DEF Fgets, Refill, TakeLine
  <2> QED BY <2>1, <2>2, InTheLoop
<1>3. CASE Write
  <2>1. UNCHANGED port /\ at = "write" /\ at' \in {"test", "close"} /\ failed \subseteq failed'
    BY <1>3 DEF Write, Written, WriteFails
  <2> QED BY <2>1, InTheLoop
<1>4. CASE Type \/ EndInput \/ Talk \/ UNCHANGED vars
  <2>1. UNCHANGED <<at, port, failed>>
    BY <1>4 DEF Type, EndInput, Talk, vars
  <2> QED BY <2>1 DEF port, PortInv
<1> QED BY <1>1, <1>2, <1>3, <1>4, PortOpen, PortClose, PortSignal DEF Next, Main

(* While the port is open it has the framing that was asked for; when the   *)
(* program has ended it is as it was, and its structure was freed once,     *)
(* unless the port refused.                                                 *)
THEOREM PortSettingsHolds == Spec => []PortSettings
<1>1. PortInv => PortSettings
  <2> SUFFICES ASSUME PortInv PROVE PortSettings
    OBVIOUS
  <2>1. ASSUME at \notin {"open", "exited"}, "set" \notin failed, NEW t \in Terms
        PROVE  Framing(term) = Framing(Settings(opts, t))
    BY <2>1, FramingIsAsked DEF PortInv
  <2> QED BY <2>1 DEF PortInv, PortSettings
<1> QED BY <1>1, PortInit, PortNext, PTL DEF Spec
-----------------------------------------------------------------------------
(* What stdio holds while main waits.                                       *)

(* Where a newline is looked for is the first one, if there is one.         *)
NewLine(s) == SelectInSeq(s, LAMBDA c : c = NL)

LEMMA FirstNewLine ==
    ASSUME NEW s \in Seq(Alphabet)
    PROVE  \/ NewLine(s) = 0 /\ \A j \in 1..Len(s) : s[j] # NL
           \/ /\ NewLine(s) \in 1..Len(s) /\ s[NewLine(s)] = NL
              /\ \A j \in 1..Len(s) : j < NewLine(s) => s[j] # NL
<1> DEFINE I == {j \in 1..Len(s) : s[j] = NL}
           Below == OpToRel(<, Nat)
<1>1. CASE I = {}
  BY <1>1 DEF NewLine, SelectInSeq
<1>2. CASE I # {}
  <2>1. IsWellFoundedOn(Below, Nat)
    BY NatLessThanWellFounded
  <2>2. I \subseteq Nat
    OBVIOUS
  <2>3. PICK m \in I : \A j \in I : <<j, m>> \notin Below
    <3> HIDE DEF Below, I
    <3> QED BY <1>2, <2>1, <2>2, WFMin, Zenon
  <2>4. \A j \in I : m <= j
    <3> SUFFICES ASSUME NEW j \in I, j < m PROVE FALSE
      BY <2>2
    <3>1. <<j, m>> \in Below
      BY <2>2 DEF OpToRel
    <3> QED BY <2>3, <3>1
  <2>5. Min(I) \in I /\ \A j \in I : Min(I) <= j
    BY <2>4 DEF Min
  <2>6. NewLine(s) = Min(I)
    BY <1>2 DEF NewLine, SelectInSeq
  <2>7. NewLine(s) \in I /\ \A j \in I : NewLine(s) <= j
    <3> HIDE DEF I
    <3> QED BY <2>5, <2>6, Zenon
  <2>8. PICK n0 \in I : n0 = NewLine(s) /\ \A j \in I : n0 <= j
    BY <2>7
  <2>9. /\ n0 \in 1..Len(s) /\ s[n0] = NL
        /\ \A j \in 1..Len(s) : j < n0 => s[j] # NL
    BY <2>8
  <2> QED BY <2>8, <2>9
<1> QED BY <1>1, <1>2

(* From a terminal stdio holds one line at most, and that only until fgets  *)
(* has taken it, unless fgets had to take it in two.                        *)
OneLine ==
    \/ stdio = <<>>
    \/ /\ at = "fgets" /\ Len(stdio) > 0 /\ stdio[Len(stdio)] = NL
       /\ \A j \in 1..Len(stdio) - 1 : stdio[j] # NL

HiddenInv ==
    /\ stdio \in Seq(Alphabet) /\ pending \in Seq(Alphabet)
    /\ stdin = "terminal" /\ "cut" \notin failed => OneLine

LEMMA HiddenInit == Init => HiddenInv
<1>1. <<>> \in Seq(Alphabet)
  OBVIOUS
<1> QED BY <1>1 DEF Init, HiddenInv, OneLine

(* read() gives a line, and is asked when there is none.                    *)
LEMMA HiddenRefill == ASSUME HiddenInv, at = "fgets", ~Enough, Refill PROVE HiddenInv'
<1>1. pending \in Seq(Alphabet) /\ stdio \in Seq(Alphabet)
  BY DEF HiddenInv
<1>2. PICK k \in DOMAIN pending :
        /\ k = IF stdin = "pipe" THEN Len(pending) ELSE NewLine(pending)
        /\ stdio' = stdio \o SubSeq(pending, 1, k)
        /\ pending' = SubSeq(pending, k + 1, Len(pending))
  BY DEF Refill, NewLine
<1>3. k \in 1..Len(pending)
  BY <1>1
<1>4. SubSeq(pending, 1, k) \in Seq(Alphabet) /\ SubSeq(pending, k + 1, Len(pending)) \in Seq(Alphabet)
  BY <1>1, <1>3
<1>5. stdio' \in Seq(Alphabet) /\ pending' \in Seq(Alphabet)
  BY <1>1, <1>2, <1>4
<1>6. UNCHANGED <<at, stdin, failed>>
  BY DEF Refill
<1>7. ASSUME stdin = "terminal", "cut" \notin failed PROVE OneLine'
  <2>1. NewLine(stdio) = 0
    BY DEF Enough, LineEnd, NewLine
  <2>2. \A j \in 1..Len(stdio) : stdio[j] # NL
    BY <1>1, <2>1, FirstNewLine
  <2>3. stdio = <<>>
    BY <1>1, <1>7, <2>2 DEF HiddenInv, OneLine
  <2>4. stdio' = SubSeq(pending, 1, k) /\ k = NewLine(pending)
    BY <1>2, <1>4, <1>7, <2>3
  <2>5. Len(stdio') = k /\ \A j \in 1..k : stdio'[j] = pending[j]
    BY <1>1, <1>3, <2>4
  <2>6. pending[k] = NL /\ \A j \in 1..Len(pending) : j < k => pending[j] # NL
    BY <1>1, <1>3, <2>4, FirstNewLine
  <2> QED BY <1>3, <1>6, <2>5, <2>6 DEF OneLine
<1> QED BY <1>5, <1>6, <1>7 DEF HiddenInv

(* fgets takes the line, or cuts it.                                        *)
LEMMA HiddenTake == ASSUME HiddenInv, at = "fgets", TakeLine PROVE HiddenInv'
<1>1. stdio \in Seq(Alphabet) /\ pending \in Seq(Alphabet) /\ Room \in Nat \ {0}
  BY ArrmaxAssumption DEF HiddenInv, Room
<1>2. PICK k \in 0..Len(stdio) :
        /\ k = IF NewLine(stdio) \in 1..Room THEN NewLine(stdio)
               ELSE IF Len(stdio) < Room THEN Len(stdio) ELSE Room
        /\ stdio' = SubSeq(stdio, k + 1, Len(stdio))
        /\ failed' = failed \cup IF k > 0 /\ stdio[k] # NL THEN {"cut"} ELSE {}
  BY DEF TakeLine, NewLine, LineEnd
<1>3. stdio' \in Seq(Alphabet) /\ UNCHANGED <<stdin, pending>>
  BY <1>1, <1>2 DEF TakeLine, input
<1>4. ASSUME stdin = "terminal", "cut" \notin failed' PROVE stdio' = <<>>
  <2>1. OneLine
    BY <1>2, <1>4 DEF HiddenInv
  <2>2. k = Len(stdio)
    <3>1. CASE stdio = <<>>
      <4>1. Len(stdio) = 0
        BY <3>1
      <4> QED BY <4>1
    <3>2. CASE /\ Len(stdio) > 0 /\ stdio[Len(stdio)] = NL
               /\ \A j \in 1..Len(stdio) - 1 : stdio[j] # NL
      <4>0. NewLine(stdio) = Len(stdio)
        BY <1>1, <3>2, FirstNewLine
      <4>1. CASE Len(stdio) <= Room
        BY <1>1, <1>2, <3>2, <4>0, <4>1
      <4>2. CASE Len(stdio) > Room
        <5>1. k = Room /\ k > 0
          BY <1>1, <1>2, <3>2, <4>0, <4>2
        <5>2. stdio[k] # NL
          BY <1>1, <3>2, <4>2, <5>1
        <5> QED BY <1>2, <1>4, <5>1, <5>2
      <4> QED BY <1>1, <4>1, <4>2
    <3> QED BY <2>1, <3>1, <3>2 DEF OneLine
  <2> QED BY <1>1, <1>2, <2>2
<1> QED BY <1>1, <1>3, <1>4 DEF HiddenInv, OneLine

LEMMA HiddenNext == HiddenInv /\ [Next]_vars => HiddenInv'
<1> SUFFICES ASSUME HiddenInv, [Next]_vars PROVE HiddenInv'
  OBVIOUS
<1>1. CASE Fgets
  BY <1>1, HiddenRefill, HiddenTake DEF Fgets
<1>2. CASE Type
  <2>1. PICK l \in Lines \cup Pieces : pending' = pending \o l
    BY <1>2 DEF Type
  <2>2. l \in Seq(Alphabet)
    BY LinesAssumption
  <2>3. pending' \in Seq(Alphabet)
    BY <2>1, <2>2 DEF HiddenInv
  <2> QED BY <1>2, <2>3 DEF Type, File, HiddenInv, OneLine
<1>3. CASE ~Fgets /\ ~Type
  <2>1. UNCHANGED <<stdio, stdin, pending>> /\ failed \subseteq failed'
    BY <1>3 DEF Next, Main, Open, Control, Test, Enter, SelectTimeout, SelectStdin, SelectPort,
          Write, Written, WriteFails, Close, EndInput, Talk, sighandler, Interrupted, vars, input, File
  <2>2. at = "fgets" => at' = "fgets"
    BY <1>3 DEF Next, Main, Open, Control, Test, Enter, SelectTimeout, SelectStdin, SelectPort,
          Write, Written, WriteFails, Close, EndInput, Talk, sighandler, Interrupted, vars
  <2> QED BY <2>1, <2>2 DEF HiddenInv, OneLine
<1> QED BY <1>1, <1>2, <1>3

(* With a terminal, select() never waits while a line that was read stands  *)
(* in stdio's buffer where it cannot see it, for lines and a buffer of any  *)
(* length, unless a line was longer than the buffer.                        *)
THEOREM NothingHiddenHolds == Spec => []NothingHidden
<1>1. HiddenInv => NothingHidden
  BY DEF HiddenInv, OneLine, NothingHidden
<1> QED BY <1>1, HiddenInit, HiddenNext, PTL DEF Spec
-----------------------------------------------------------------------------
(* Characters without their newlines.                                      *)

(* A set of natural numbers that has 0, and n + 1 with each n, has all.     *)
LEMMA Induction ==
    ASSUME NEW T \in SUBSET Nat, 0 \in T, \A n \in T : n + 1 \in T
    PROVE  T = Nat
<1> DEFINE Below == OpToRel(<, Nat)
           C == Nat \ T
<1> SUFFICES ASSUME C # {} PROVE FALSE
  OBVIOUS
<1>1. IsWellFoundedOn(Below, Nat)
  BY NatLessThanWellFounded
<1>2. C \subseteq Nat
  OBVIOUS
<1>3. PICK m \in C : \A k \in C : <<k, m>> \notin Below
  <2> HIDE DEF Below, C
  <2> QED BY <1>1, <1>2, WFMin, Zenon
<1>4. m - 1 \in Nat /\ m - 1 \notin C
  <2>1. m - 1 \in Nat
    OBVIOUS
  <2>2. <<m - 1, m>> \in Below
    BY <2>1 DEF OpToRel
  <2> QED BY <1>3, <2>1, <2>2
<1>5. m - 1 \in T /\ (m - 1) + 1 = m
  BY <1>4
<1> QED BY <1>5

(* Chars is a recursive function at the length of s; f is one like it, up   *)
(* to n.                                                                    *)
IsUpto(f, s, n) ==
    f = [k \in 0..n |-> IF k = 0 THEN <<>>
                        ELSE IF s[k] = NL THEN f[k - 1] ELSE Append(f[k - 1], s[k])]

LEMMA UptoStep ==
    ASSUME NEW s, NEW n \in Nat, NEW f, IsUpto(f, s, n)
    PROVE  \E g : IsUpto(g, s, n + 1)
<1> DEFINE last == IF s[n + 1] = NL THEN f[n] ELSE Append(f[n], s[n + 1])
           g == [k \in 0..n + 1 |-> IF k = n + 1 THEN last ELSE f[k]]
           h == [k \in 0..n + 1 |-> IF k = 0 THEN <<>>
                        ELSE IF s[k] = NL THEN g[k - 1] ELSE Append(g[k - 1], s[k])]
<1>1. ASSUME NEW k \in 0..n + 1 PROVE g[k] = h[k]
  <2>1. CASE k = n + 1
    <3>1. g[k] = last /\ k # 0 /\ g[k - 1] = f[n] /\ s[k] = s[n + 1]
      BY <2>1
    <3> QED BY <3>1
  <2>2. CASE k # n + 1
    <3>1. k \in 0..n /\ g[k] = f[k] /\ (k # 0 => g[k - 1] = f[k - 1])
      BY <2>2
    <3>2. f[k] = IF k = 0 THEN <<>>
                 ELSE IF s[k] = NL THEN f[k - 1] ELSE Append(f[k - 1], s[k])
      BY <3>1 DEF IsUpto
    <3> QED BY <3>1, <3>2
  <2> QED BY <2>1, <2>2
<1>2. g = [k \in 0..n + 1 |-> g[k]] /\ h = [k \in 0..n + 1 |-> h[k]]
  OBVIOUS
<1>3. g = h
  <2> HIDE DEF g, h
  <2> QED BY <1>1, <1>2
<1>4. IsUpto(g, s, n + 1)
  BY <1>3 DEF IsUpto
<1> HIDE DEF g
<1> QED BY <1>4

LEMMA UptoExists ==
    ASSUME NEW s
    PROVE  \A n \in Nat : \E f : IsUpto(f, s, n)
<1> DEFINE T == {n \in Nat : \E f : IsUpto(f, s, n)}
<1>1. 0 \in T
  <2>1. IsUpto([k \in 0..0 |-> <<>>], s, 0)
    BY DEF IsUpto
  <2> QED BY <2>1
<1>2. ASSUME NEW n \in T PROVE n + 1 \in T
  BY UptoStep
<1>3. T \in SUBSET Nat
  OBVIOUS
<1>4. T = Nat
  <2> HIDE DEF T
  <2> QED BY <1>1, <1>2, <1>3, Induction
<1> QED BY <1>4

(* It is the same for sequences that agree so far.                          *)
LEMMA UptoSame ==
    ASSUME NEW s, NEW t, NEW n \in Nat, NEW m \in Nat, NEW f, NEW g,
           IsUpto(f, s, n), IsUpto(g, t, m)
    PROVE  \A k \in Nat : k <= n /\ k <= m /\ (\A j \in 1..k : s[j] = t[j]) => f[k] = g[k]
<1> DEFINE T == {k \in Nat : k <= n /\ k <= m /\ (\A j \in 1..k : s[j] = t[j]) => f[k] = g[k]}
<1>0. /\ \A k \in 0..n : f[k] = IF k = 0 THEN <<>>
                ELSE IF s[k] = NL THEN f[k - 1] ELSE Append(f[k - 1], s[k])
      /\ \A k \in 0..m : g[k] = IF k = 0 THEN <<>>
                ELSE IF t[k] = NL THEN g[k - 1] ELSE Append(g[k - 1], t[k])
  BY DEF IsUpto
<1>1. 0 \in T
  BY <1>0
<1>2. ASSUME NEW k \in T PROVE k + 1 \in T
  <2> SUFFICES ASSUME k + 1 <= n, k + 1 <= m, \A j \in 1..k + 1 : s[j] = t[j]
               PROVE  f[k + 1] = g[k + 1]
    OBVIOUS
  <2>0. k \in Nat
    OBVIOUS
  <2>1. f[k] = g[k]
    OBVIOUS
  <2>2. s[k + 1] = t[k + 1]
    BY <2>0
  <2>3. k + 1 \in 0..n /\ k + 1 \in 0..m /\ k + 1 # 0 /\ (k + 1) - 1 = k
    BY <2>0
  <2> HIDE DEF T
  <2> QED BY <1>0, <2>1, <2>2, <2>3
<1>3. T \in SUBSET Nat
  OBVIOUS
<1>4. T = Nat
  <2> HIDE DEF T
  <2> QED BY <1>1, <1>2, <1>3, Induction
<1> QED BY <1>4

LEMMA CharsUpto ==
    ASSUME NEW s \in Seq(Alphabet)
    PROVE  \E f : IsUpto(f, s, Len(s)) /\ Chars(s) = f[Len(s)]
<1> DEFINE f == CHOOSE g : IsUpto(g, s, Len(s))
<1>1. IsUpto(f, s, Len(s))
  BY UptoExists
<1>2. Chars(s) = f[Len(s)]
  BY DEF Chars, IsUpto
<1> QED BY <1>1, <1>2

LEMMA CharsEmpty == Chars(<<>>) = <<>>
<1>1. <<>> \in Seq(Alphabet) /\ Len(<<>>) = 0
  OBVIOUS
<1>2. PICK f : IsUpto(f, <<>>, 0) /\ Chars(<<>>) = f[0]
  BY <1>1, CharsUpto
<1> QED BY <1>2 DEF IsUpto

(* A newline adds nothing, another character itself.                        *)
LEMMA CharsAppend ==
    ASSUME NEW s \in Seq(Alphabet), NEW c \in Alphabet
    PROVE  Chars(Append(s, c)) = IF c = NL THEN Chars(s) ELSE Append(Chars(s), c)
<1> DEFINE t == Append(s, c)
           n == Len(s)
<1>1. /\ t \in Seq(Alphabet) /\ n \in Nat /\ Len(t) = n + 1 /\ t[n + 1] = c
      /\ \A j \in 1..n : t[j] = s[j]
  BY AppendProperties
<1> HIDE DEF t
<1>2. PICK f : IsUpto(f, s, n) /\ Chars(s) = f[n]
  BY CharsUpto
<1>3. PICK g : IsUpto(g, t, n + 1) /\ Chars(t) = g[n + 1]
  BY <1>1, CharsUpto
<1>4. g[n] = f[n]
  <2>1. n + 1 \in Nat /\ n <= n + 1 /\ n <= n
    BY <1>1
  <2> HIDE DEF n
  <2> QED BY <1>1, <1>2, <1>3, <2>1, UptoSame
<1>5. g[n + 1] = IF c = NL THEN g[n] ELSE Append(g[n], c)
  <2>1. n + 1 \in 0..n + 1 /\ n + 1 # 0 /\ (n + 1) - 1 = n
    BY <1>1
  <2> HIDE DEF n
  <2> QED BY <1>1, <1>3, <2>1 DEF IsUpto
<1> QED BY <1>2, <1>3, <1>4, <1>5 DEF t

(* Induction at the last character.                                         *)
LEMMA FrontAndLast ==
    ASSUME NEW n \in Nat, NEW s \in Seq(Alphabet), Len(s) = n + 1
    PROVE  \E u \in Seq(Alphabet), c \in Alphabet :
              s = Append(u, c) /\ Len(u) = n /\ c = s[n + 1] /\ \A j \in 1..n : u[j] = s[j]
<1> DEFINE u == SubSeq(s, 1, n)
           c == s[n + 1]
<1>1. u \in Seq(Alphabet) /\ Len(u) = n /\ \A j \in 1..n : u[j] = s[j]
  OBVIOUS
<1>2. c \in Alphabet
  OBVIOUS
<1> HIDE DEF u
<1>3. s = Append(u, c)
  <2>1. /\ Append(u, c) \in Seq(Alphabet) /\ Len(Append(u, c)) = n + 1
        /\ Append(u, c)[n + 1] = c /\ \A j \in 1..n : Append(u, c)[j] = u[j]
    BY <1>1, <1>2, AppendProperties
  <2>2. ASSUME NEW j \in 1..Len(s) PROVE s[j] = Append(u, c)[j]
    BY <1>1, <2>1
  <2> QED BY <2>1, <2>2, SeqEqual
<1> QED BY <1>1, <1>2, <1>3

LEMMA CharsType ==
    ASSUME NEW s \in Seq(Alphabet)
    PROVE  Chars(s) \in Seq(Alphabet)
<1> DEFINE T == {n \in Nat : \A t \in Seq(Alphabet) : Len(t) = n => Chars(t) \in Seq(Alphabet)}
<1>1. 0 \in T
  BY CharsEmpty, EmptySeq
<1>2. ASSUME NEW n \in T PROVE n + 1 \in T
  <2> SUFFICES ASSUME NEW t \in Seq(Alphabet), Len(t) = n + 1 PROVE Chars(t) \in Seq(Alphabet)
    OBVIOUS
  <2>1. PICK u \in Seq(Alphabet), c \in Alphabet : t = Append(u, c) /\ Len(u) = n
    BY FrontAndLast
  <2>2. Chars(u) \in Seq(Alphabet) /\ Append(Chars(u), c) \in Seq(Alphabet)
    BY <2>1
  <2>3. Chars(t) = IF c = NL THEN Chars(u) ELSE Append(Chars(u), c)
    BY <2>1, CharsAppend
  <2> QED BY <2>2, <2>3
<1>3. T \in SUBSET Nat
  OBVIOUS
<1>4. T = Nat
  <2> HIDE DEF T
  <2> QED BY <1>1, <1>2, <1>3, Induction
<1> QED BY <1>4

LEMMA CharsConcat ==
    ASSUME NEW s \in Seq(Alphabet), NEW t \in Seq(Alphabet)
    PROVE  Chars(s \o t) = Chars(s) \o Chars(t)
<1> DEFINE T == {n \in Nat : \A x \in Seq(Alphabet) :
                                Len(x) = n => Chars(s \o x) = Chars(s) \o Chars(x)}
<1>0. Chars(s) \in Seq(Alphabet)
  BY CharsType
<1>1. 0 \in T
  <2> SUFFICES ASSUME NEW x \in Seq(Alphabet), Len(x) = 0 PROVE Chars(s \o x) = Chars(s) \o Chars(x)
    OBVIOUS
  <2>1. x = <<>> /\ s \o <<>> = s /\ Chars(s) \o <<>> = Chars(s)
    BY <1>0, EmptySeq, ConcatEmptySeq
  <2> QED BY <2>1, CharsEmpty
<1>2. ASSUME NEW n \in T PROVE n + 1 \in T
  <2> SUFFICES ASSUME NEW x \in Seq(Alphabet), Len(x) = n + 1
               PROVE  Chars(s \o x) = Chars(s) \o Chars(x)
    OBVIOUS
  <2>1. PICK u \in Seq(Alphabet), c \in Alphabet : x = Append(u, c) /\ Len(u) = n
    <3>1. n \in Nat
      OBVIOUS
    <3>2. \E u \in Seq(Alphabet), c \in Alphabet :
             x = Append(u, c) /\ Len(u) = n /\ c = x[n + 1] /\ \A j \in 1..n : u[j] = x[j]
      BY <3>1, FrontAndLast
    <3> QED BY <3>2, Zenon
  <2>2. Chars(s \o u) = Chars(s) \o Chars(u)
    BY <2>1
  <2>3. s \o u \in Seq(Alphabet) /\ Chars(u) \in Seq(Alphabet)
    BY CharsType
  <2>4. \A p, q \in Seq(Alphabet) : p \o Append(q, c) = Append(p \o q, c)
    OBVIOUS
  <2>5. s \o x = Append(s \o u, c)
    BY <2>1, <2>4
  <2>6. CASE c = NL
    BY <2>1, <2>2, <2>3, <2>5, <2>6, CharsAppend
  <2>7. CASE c # NL
    <3>1. Chars(s \o x) = Append(Chars(s) \o Chars(u), c) /\ Chars(x) = Append(Chars(u), c)
      <4>1. Chars(x) = Append(Chars(u), c)
        BY <2>1, <2>7, CharsAppend, Zenon
      <4>2. Chars(s \o x) = Append(Chars(s \o u), c)
        BY <2>3, <2>5, <2>7, CharsAppend, Zenon
      <4> QED BY <2>2, <4>1, <4>2, Zenon
    <3> QED BY <1>0, <2>3, <2>4, <3>1
  <2> QED BY <2>6, <2>7
<1>3. T \in SUBSET Nat
  OBVIOUS
<1>4. T = Nat
  <2> HIDE DEF T
  <2> QED BY <1>1, <1>2, <1>3, Induction
<1> QED BY <1>4

LEMMA CharsOfLine ==
    ASSUME NEW s \in Seq(Alphabet), \A j \in 1..Len(s) : s[j] # NL
    PROVE  Chars(s) = s
<1> DEFINE T == {n \in Nat : \A x \in Seq(Alphabet) :
                    Len(x) = n /\ (\A j \in 1..n : x[j] # NL) => Chars(x) = x}
<1>1. 0 \in T
  BY CharsEmpty, EmptySeq
<1>2. ASSUME NEW n \in T PROVE n + 1 \in T
  <2> SUFFICES ASSUME NEW x \in Seq(Alphabet), Len(x) = n + 1, \A j \in 1..n + 1 : x[j] # NL
               PROVE  Chars(x) = x
    OBVIOUS
  <2>1. PICK u \in Seq(Alphabet), c \in Alphabet :
           x = Append(u, c) /\ Len(u) = n /\ c = x[n + 1] /\ \A j \in 1..n : u[j] = x[j]
    BY FrontAndLast
  <2>2. c # NL /\ \A j \in 1..n : u[j] # NL
    BY <2>1
  <2>3. Chars(u) = u
    BY <2>1, <2>2
  <2> QED BY <2>1, <2>2, <2>3, CharsAppend
<1>3. T \in SUBSET Nat
  OBVIOUS
<1>4. T = Nat
  <2> HIDE DEF T
  <2> QED BY <1>1, <1>2, <1>3, Induction
<1>5. Len(s) \in Nat
  OBVIOUS
<1> QED BY <1>4, <1>5

(* A line with its newline is the line.                                     *)
LEMMA CharsOfWholeLine ==
    ASSUME NEW s \in Seq(Alphabet), NEW k \in 1..Len(s), s[k] = NL,
           \A j \in 1..Len(s) : j < k => s[j] # NL
    PROVE  Chars(SubSeq(s, 1, k)) = Front(SubSeq(s, 1, k)) /\ SubSeq(s, 1, k) # <<>>
<1> DEFINE line == SubSeq(s, 1, k)
<1>1. line \in Seq(Alphabet) /\ Len(line) = k /\ \A j \in 1..k : line[j] = s[j]
  OBVIOUS
<1> DEFINE m == k - 1
<1>2. k \in Nat /\ m \in Nat /\ k = m + 1
  OBVIOUS
<1> HIDE DEF line, m
<1>3. PICK u \in Seq(Alphabet), c \in Alphabet :
         line = Append(u, c) /\ Len(u) = m /\ c = line[m + 1] /\ \A j \in 1..m : u[j] = line[j]
  <2>1. m \in Nat /\ line \in Seq(Alphabet) /\ Len(line) = m + 1
    BY <1>1, <1>2
  <2> QED BY <2>1, FrontAndLast, Zenon
<1>4. c = NL /\ \A j \in 1..Len(u) : u[j] # NL
  <2>1. c = NL
    BY <1>1, <1>2, <1>3
  <2>2. ASSUME NEW j \in 1..m PROVE u[j] # NL
    <3>1. j \in 1..Len(s) /\ j < k /\ j \in 1..k
      BY <1>2
    <3> QED BY <1>1, <1>3, <3>1
  <2> QED BY <1>3, <2>1, <2>2
<1>5. Chars(line) = u
  BY <1>3, <1>4, CharsAppend, CharsOfLine
<1>6. Front(line) = u
  <2>1. Front(line) = SubSeq(line, 1, Len(line) - 1)
    BY DEF Front
  <2>2. SubSeq(Append(u, c), 1, Len(Append(u, c)) - 1) = u
    OBVIOUS
  <2> QED BY <1>3, <2>1, <2>2
<1> QED BY <1>1, <1>2, <1>5, <1>6 DEF line

-----------------------------------------------------------------------------
(* What was typed is on its way, or there.                                  *)

LostInv ==
    /\ typed \in Seq(Alphabet) /\ pending \in Seq(Alphabet) /\ stdio \in Seq(Alphabet)
    /\ databuf \in Seq(Alphabet) /\ out \in Seq(Alphabet)
    /\ at # "write" => databuf = <<>>
    /\ NothingLost

LEMMA LostInit == Init => LostInv
<1>1. <<>> \in Seq(Alphabet) /\ <<>> \o <<>> \o <<>> \o <<>> = <<>>
  OBVIOUS
<1> QED BY <1>1, CharsEmpty DEF Init, LostInv, NothingLost

LEMMA Associative ==
    ASSUME NEW a \in Seq(Alphabet), NEW b \in Seq(Alphabet), NEW c \in Seq(Alphabet)
    PROVE  (a \o b) \o c = a \o (b \o c)
  BY ConcatAssociative

(* What moves from one place to the next stays in line.                     *)
LEMMA CutInTwo ==
    ASSUME NEW s \in Seq(Alphabet), NEW k \in 0..Len(s)
    PROVE  /\ SubSeq(s, 1, k) \in Seq(Alphabet) /\ Len(SubSeq(s, 1, k)) = k
           /\ SubSeq(s, k + 1, Len(s)) \in Seq(Alphabet)
           /\ s = SubSeq(s, 1, k) \o SubSeq(s, k + 1, Len(s))
<1> DEFINE p == SubSeq(s, 1, k)
           q == SubSeq(s, k + 1, Len(s))
           n == Len(s)
<1>1. k \in Nat /\ n \in Nat /\ k <= n
  OBVIOUS
<1>2. p \in Seq(Alphabet) /\ Len(p) = k /\ \A j \in 1..k : p[j] = s[j]
  OBVIOUS
<1>3. q \in Seq(Alphabet) /\ Len(q) = n - k /\ \A j \in 1..n - k : q[j] = s[k + j]
  OBVIOUS
<1> HIDE DEF p, q, n
<1>4. /\ p \o q \in Seq(Alphabet) /\ Len(p \o q) = n
      /\ \A j \in 1..n : (p \o q)[j] = IF j <= k THEN p[j] ELSE q[j - k]
  <2>1. /\ p \o q \in Seq(Alphabet) /\ Len(p \o q) = Len(p) + Len(q)
        /\ \A j \in 1..Len(p) + Len(q) : (p \o q)[j] = IF j <= Len(p) THEN p[j] ELSE q[j - Len(p)]
    BY <1>2, <1>3, ConcatProperties
  <2>2. Len(p) + Len(q) = n /\ Len(p) = k
    BY <1>1, <1>2, <1>3
  <2> QED BY <2>1, <2>2, Zenon
<1>5. ASSUME NEW j \in 1..n PROVE s[j] = (p \o q)[j]
  <2>1. CASE j <= k
    BY <1>1, <1>2, <1>4, <2>1
  <2>2. CASE ~(j <= k)
    <3>1. j - k \in 1..n - k /\ k + (j - k) = j
      BY <1>1, <2>2
    <3> QED BY <1>3, <1>4, <2>2, <3>1
  <2> QED BY <2>1, <2>2
<1>6. s = p \o q
  BY <1>4, <1>5, SeqEqual DEF n
<1> QED BY <1>2, <1>3, <1>6 DEF p, q

LEMMA LostRefill == ASSUME LostInv, at = "fgets", Refill PROVE LostInv'
<1>1. PICK k \in DOMAIN pending :
        /\ stdio' = stdio \o SubSeq(pending, 1, k)
        /\ pending' = SubSeq(pending, k + 1, Len(pending))
  BY DEF Refill
<1> DEFINE p == SubSeq(pending, 1, k)
           q == SubSeq(pending, k + 1, Len(pending))
<1>2. pending \in Seq(Alphabet) /\ stdio \in Seq(Alphabet) /\ k \in 1..Len(pending)
  BY DEF LostInv
<1>3. p \in Seq(Alphabet) /\ q \in Seq(Alphabet) /\ pending = p \o q
  <2>1. k \in 0..Len(pending)
    BY <1>2
  <2> QED BY <1>2, <2>1, CutInTwo
<1> HIDE DEF p, q
<1>4. stdio' = stdio \o p /\ pending' = q
  BY <1>1 DEF p, q
<1>5. stdio' \in Seq(Alphabet) /\ pending' \in Seq(Alphabet)
  BY <1>2, <1>3, <1>4
<1>6. UNCHANGED <<at, typed, databuf, out, failed>>
  BY DEF Refill
<1>7. out \o databuf \o Chars(stdio') \o Chars(pending') = out \o databuf \o Chars(stdio) \o Chars(pending)
  <2>1. Chars(stdio') = Chars(stdio) \o Chars(p) /\ Chars(pending) = Chars(p) \o Chars(q)
    BY <1>2, <1>3, <1>4, CharsConcat
  <2>2. /\ Chars(stdio) \in Seq(Alphabet) /\ Chars(p) \in Seq(Alphabet) /\ Chars(q) \in Seq(Alphabet)
        /\ out \o databuf \in Seq(Alphabet)
    BY <1>2, <1>3, CharsType DEF LostInv
  <2>3. PICK x \in Seq(Alphabet) : x = out \o databuf
    BY <2>2, Zenon
  <2>4. PICK a \in Seq(Alphabet) : a = Chars(stdio)
    BY <2>2, Zenon
  <2>5. PICK y \in Seq(Alphabet) : y = x \o a
    <3>1. x \o a \in Seq(Alphabet)
      BY <2>3, <2>4
    <3> QED BY <3>1, Zenon
  <2>6. \A v, w \in Seq(Alphabet) : x \o (v \o w) = (x \o v) \o w
    <3>1. \A v, w \in Seq(Alphabet) : (x \o v) \o w = x \o (v \o w)
      BY Associative, Zenon
    <3> QED BY <3>1, Zenon
  <2>7. \A w \in Seq(Alphabet) : x \o (a \o w) = (x \o a) \o w
    BY <2>6, Zenon
  <2>8. x \o (a \o Chars(p)) = y \o Chars(p)
    BY <2>2, <2>5, <2>7, Zenon
  <2>9. \A v, w \in Seq(Alphabet) : (y \o v) \o w = y \o (v \o w)
    BY Associative
  <2>10. (y \o Chars(p)) \o Chars(q) = y \o (Chars(p) \o Chars(q))
    BY <2>2, <2>9, Zenon
  <2> QED BY <1>4, <2>1, <2>3, <2>4, <2>5, <2>8, <2>10
<1> QED BY <1>5, <1>6, <1>7 DEF LostInv, NothingLost

LEMMA LostTake == ASSUME LostInv, at = "fgets", TakeLine PROVE LostInv'
<1>1. PICK k \in 0..Len(stdio) :
        /\ k = IF NewLine(stdio) \in 1..Room THEN NewLine(stdio)
               ELSE IF Len(stdio) < Room THEN Len(stdio) ELSE Room
        /\ Take(SubSeq(stdio, 1, k))
        /\ stdio' = SubSeq(stdio, k + 1, Len(stdio))
        /\ failed' = failed \cup IF k > 0 /\ stdio[k] # NL THEN {"cut"} ELSE {}
  BY DEF TakeLine, NewLine, LineEnd
<1> DEFINE p == SubSeq(stdio, 1, k)
           q == SubSeq(stdio, k + 1, Len(stdio))
<1>2. stdio \in Seq(Alphabet) /\ Room \in Nat /\ databuf = <<>> /\ k \in Nat /\ Len(stdio) \in Nat
  BY ArrmaxAssumption DEF LostInv, Room
<1>3. p \in Seq(Alphabet) /\ q \in Seq(Alphabet) /\ stdio = p \o q /\ Len(p) = k
  BY <1>2, CutInTwo
<1> HIDE DEF p, q
<1>4. stdio' = q /\ databuf' = IF p = <<>> THEN <<>> ELSE Front(p)
  BY <1>1 DEF p, q, Take
<1>5. UNCHANGED <<typed, pending, out>> /\ at' = "write" /\ failed \subseteq failed'
  BY <1>1 DEF TakeLine, input
<1>6. databuf' \in Seq(Alphabet)
  <2>1. CASE p = <<>>
    BY <1>4, <2>1
  <2>2. CASE p # <<>>
    <3>1. Len(p) - 1 \in Nat /\ Len(p) - 1 <= Len(p)
      BY <1>3, <2>2, EmptySeq
    <3>2. SubSeq(p, 1, Len(p) - 1) \in Seq(Alphabet)
      BY <1>3, <3>1
    <3> QED BY <1>4, <2>2, <3>2 DEF Front
  <2> QED BY <2>1, <2>2
<1>7. ASSUME "cut" \notin failed' PROVE databuf' = Chars(p)
  <2>1. CASE p = <<>>
    BY <1>4, <2>1, CharsEmpty
  <2>2. CASE p # <<>>
    <3>1. k \in 1..Len(stdio) /\ stdio[k] = NL
      BY <1>1, <1>2, <1>3, <1>7, <2>2, EmptySeq
    <3>2. NewLine(stdio) \in 1..Len(stdio) /\ NewLine(stdio) <= k
      <4>1. CASE NewLine(stdio) = 0
        BY <1>2, <3>1, <4>1, FirstNewLine
      <4>2. CASE NewLine(stdio) # 0
        <5>1. /\ NewLine(stdio) \in 1..Len(stdio)
              /\ \A j \in 1..Len(stdio) : j < NewLine(stdio) => stdio[j] # NL
          BY <1>2, <4>2, FirstNewLine
        <5>2. ~(k < NewLine(stdio))
          BY <3>1, <5>1
        <5> QED BY <1>2, <5>1, <5>2
      <4> QED BY <4>1, <4>2
    <3>3. k <= Room
      BY <1>1, <1>2, <3>1
    <3>4. NewLine(stdio) = k
      BY <1>1, <1>2, <3>2, <3>3
    <3>5. \A j \in 1..Len(stdio) : j < k => stdio[j] # NL
      BY <1>2, <3>1, <3>4, FirstNewLine
    <3>6. Chars(p) = Front(p)
      BY <1>2, <3>1, <3>5, CharsOfWholeLine DEF p
    <3> QED BY <1>4, <2>2, <3>6
  <2> QED BY <2>1, <2>2
<1>8. ASSUME "cut" \notin failed'
      PROVE  out \o databuf' \o Chars(stdio') \o Chars(pending)
                = out \o databuf \o Chars(stdio) \o Chars(pending)
  <2>1. Chars(stdio) = Chars(p) \o Chars(q)
    BY <1>2, <1>3, CharsConcat
  <2> DEFINE b == Chars(p)
             c == Chars(q)
             d == Chars(pending)
  <2>2. /\ b \in Seq(Alphabet) /\ c \in Seq(Alphabet)
        /\ d \in Seq(Alphabet) /\ out \in Seq(Alphabet)
    BY <1>3, CharsType DEF LostInv
  <2>3. out \o <<>> \o (b \o c) \o d = out \o b \o c \o d
    <3> HIDE DEF b, c, d
    <3>1. out \in Seq(Alphabet) /\ b \in Seq(Alphabet) /\ c \in Seq(Alphabet) /\ d \in Seq(Alphabet)
      BY <2>2
    <3>2. out \o <<>> = out
      BY <3>1, ConcatEmptySeq, Zenon
    <3>3. (out \o b) \o c = out \o (b \o c)
      BY <3>1, Associative, Zenon
    <3> QED BY <3>2, <3>3, Zenon
  <2> QED BY <1>2, <1>4, <1>7, <1>8, <2>1, <2>3
<1> QED BY <1>3, <1>4, <1>5, <1>6, <1>8 DEF LostInv, NothingLost

LEMMA LostWrite == ASSUME LostInv, Write PROVE LostInv'
<1>1. /\ databuf' = <<>> /\ UNCHANGED <<typed, pending, stdio>> /\ at' # "write"
      /\ failed \subseteq failed'
  BY DEF Write, Written, WriteFails, input
<1>2. CASE Written
  <2>1. PICK k \in 0..Len(databuf) :
          /\ out' = out \o SubSeq(databuf, 1, k)
          /\ failed' = failed \cup IF k < Len(databuf) THEN {"cut"} ELSE {}
    BY <1>2 DEF Written
  <2>2. databuf \in Seq(Alphabet) /\ out \in Seq(Alphabet) /\ out' \in Seq(Alphabet)
    <3>1. databuf \in Seq(Alphabet) /\ out \in Seq(Alphabet)
      BY DEF LostInv
    <3>2. SubSeq(databuf, 1, k) \in Seq(Alphabet)
      BY <3>1
    <3> QED BY <2>1, <3>1, <3>2
  <2>3. ASSUME "cut" \notin failed'
        PROVE  out' \o databuf' \o Chars(stdio) \o Chars(pending)
                  = out \o databuf \o Chars(stdio) \o Chars(pending)
    <3>1. k = Len(databuf)
      BY <2>1, <2>2, <2>3
    <3>2. SubSeq(databuf, 1, k) = databuf
      BY <2>2, <3>1
    <3>3. out' = out \o databuf
      BY <2>1, <3>2
    <3> DEFINE c == Chars(stdio)
               d == Chars(pending)
    <3>4. c \in Seq(Alphabet) /\ d \in Seq(Alphabet)
      BY CharsType DEF LostInv
    <3>5. (out \o databuf) \o <<>> = out \o databuf
      <4>1. out \o databuf \in Seq(Alphabet)
        BY <2>2
      <4> QED BY <4>1, ConcatEmptySeq
    <3> QED BY <1>1, <3>3, <3>5
  <2>4. databuf' \in Seq(Alphabet)
    BY <1>1
  <2> QED BY <1>1, <2>2, <2>3, <2>4 DEF LostInv, NothingLost
<1>3. CASE WriteFails
  <2>1. "cut" \in failed' /\ out' = out
    BY <1>3 DEF WriteFails
  <2>2. databuf' \in Seq(Alphabet)
    BY <1>1
  <2> QED BY <1>1, <2>1, <2>2 DEF LostInv, NothingLost
<1> QED BY <1>2, <1>3 DEF Write

LEMMA LostType == ASSUME LostInv, Type PROVE LostInv'
<1>1. PICK l \in Lines \cup Pieces : typed' = typed \o l /\ pending' = pending \o l
  BY DEF Type
<1>2. l \in Seq(Alphabet)
  BY LinesAssumption
<1>3. /\ typed \in Seq(Alphabet) /\ pending \in Seq(Alphabet) /\ stdio \in Seq(Alphabet)
      /\ databuf \in Seq(Alphabet) /\ out \in Seq(Alphabet)
  BY DEF LostInv
<1>4. typed' \in Seq(Alphabet) /\ pending' \in Seq(Alphabet)
  BY <1>1, <1>2, <1>3
<1>5. UNCHANGED <<at, stdio, databuf, out, failed>>
  BY DEF Type, File
<1>6. ASSUME Chars(typed) = out \o databuf \o Chars(stdio) \o Chars(pending)
      PROVE  Chars(typed') = out \o databuf \o Chars(stdio) \o Chars(pending')
  <2> DEFINE a == out \o databuf \o Chars(stdio)
             b == Chars(pending)
             c == Chars(l)
  <2>1. Chars(typed') = Chars(typed) \o c /\ Chars(pending') = b \o c
    BY <1>1, <1>2, <1>3, CharsConcat
  <2>2. a \in Seq(Alphabet) /\ b \in Seq(Alphabet) /\ c \in Seq(Alphabet)
    BY <1>2, <1>3, CharsType
  <2>3. (a \o b) \o c = a \o (b \o c)
    <3> HIDE DEF a, b, c
    <3> QED BY <2>2, Associative
  <2> QED BY <1>6, <2>1, <2>3
<1> QED BY <1>3, <1>4, <1>5, <1>6 DEF LostInv, NothingLost

LEMMA LostNext == LostInv /\ [Next]_vars => LostInv'
<1> SUFFICES ASSUME LostInv, [Next]_vars PROVE LostInv'
  OBVIOUS
<1>1. CASE Fgets
  BY <1>1, LostRefill, LostTake DEF Fgets
<1>2. CASE Type
  BY <1>2, LostType
<1>3. CASE Write
  BY <1>3, LostWrite
<1>4. CASE Open \/ Control \/ Close \/ EndInput \/ Talk \/ sighandler \/ UNCHANGED vars
  <2>1. UNCHANGED <<typed, pending, stdio, databuf, out>>
    BY <1>4 DEF Open, Control, Close, EndInput, Talk, sighandler, vars, input, File
  <2>2. failed \subseteq failed'
    BY <1>4 DEF Open, Control, Close, EndInput, Talk, sighandler, Interrupted, vars
  <2>3. at = "write" => at' = "write"
    BY <1>4 DEF Open, Control, Test, Enter, SelectTimeout, SelectStdin, SelectPort, Close,
          EndInput, Talk, sighandler, Interrupted, vars
  <2>4. Chars(typed)' = Chars(typed) /\ Chars(stdio)' = Chars(stdio) /\ Chars(pending)' = Chars(pending)
    BY <2>1
  <2>5. NothingLost => NothingLost'
    BY <2>1, <2>2, <2>4 DEF NothingLost
  <2>6. /\ typed' \in Seq(Alphabet) /\ pending' \in Seq(Alphabet) /\ stdio' \in Seq(Alphabet)
        /\ databuf' \in Seq(Alphabet) /\ out' \in Seq(Alphabet)
    BY <2>1 DEF LostInv
  <2>7. at' # "write" => databuf' = <<>>
    BY <2>1, <2>3 DEF LostInv
  <2> QED BY <2>5, <2>6, <2>7, Zenon DEF LostInv
<1> QED BY <1>1, <1>2, <1>3, <1>4 DEF Next, Main

(* What was typed goes to the port in order and once, for lines, pieces and *)
(* a buffer of any length, however the reads split it, as long as nothing   *)
(* was cut off by fgets or by a short write.                                *)
THEOREM NothingLostHolds == Spec => []NothingLost
<1>1. LostInv => NothingLost
  BY DEF LostInv
<1> QED BY <1>1, LostInit, LostNext, PTL DEF Spec
=============================================================================
