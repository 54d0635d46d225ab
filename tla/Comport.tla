------------------------------- MODULE Comport -------------------------------
(***************************************************************************)
(* What comport.c makes of the settings of a serial port: the copy of      *)
(* pro_comporttool/, and that of sim5360/, which adds the flow control.    *)
(* A termios record is reduced to the flags that these functions set, and  *)
(* to IXON, which one of them is meant to set.                             *)
(***************************************************************************)
EXTENDS Integers

Baudrates ==
    {0, 50, 75, 110, 134, 150, 200, 300, 600, 1200, 1800, 2400, 4800, 9600, 19200,
     38400, 57600, 115200, 230400}

another == 0 - 1    \* a speed that comport.c has no name for

Termios ==
    [speed : Baudrates \cup {another}, csize : 5..8, parenb : BOOLEAN, parodd : BOOLEAN,
     cstopb : BOOLEAN, raw : BOOLEAN, crtscts : BOOLEAN, ixon : BOOLEAN]

(* initComport().                                                          *)
Defaults == [baudrate |-> 115200, databit |-> 8, paritybit |-> "N", stopbit |-> 1]

set_baudrate(baudrate, term) ==
    [term EXCEPT !.speed = IF baudrate \in Baudrates THEN baudrate ELSE 115200]

set_data_bit(databit, term) ==
    [term EXCEPT !.csize = IF databit \in 5..8 THEN databit ELSE 8]

set_parity(paritybit, term) ==
    CASE paritybit = "E" -> [term EXCEPT !.parenb = TRUE, !.parodd = FALSE]
      [] paritybit = "O" -> [term EXCEPT !.parenb = TRUE, !.parodd = TRUE]
      [] OTHER           -> [term EXCEPT !.parenb = FALSE]

set_stopbit(stopbit, term) == [term EXCEPT !.cstopb = (stopbit = 2)]

(* The record that setComport hands to tcsetattr: raw input and output.    *)
Settings(opts, term) ==
    set_baudrate(opts.baudrate,
        set_data_bit(opts.databit,
            set_parity(opts.paritybit,
                set_stopbit(opts.stopbit, [term EXCEPT !.raw = TRUE]))))

(* How bytes go over the line under these flags.                           *)
Framing(term) ==
    [speed  |-> term.speed, bits |-> term.csize,
     parity |-> IF ~term.parenb THEN "none" ELSE IF term.parodd THEN "odd" ELSE "even",
     stops  |-> IF term.cstopb THEN 2 ELSE 1]

-----------------------------------------------------------------------------
(* What sim5360/comport.c has more.                                        *)

Upper(paritybit) == CASE paritybit = "e" -> "E" [] paritybit = "o" -> "O" [] OTHER -> paritybit

(* IXON, IXOFF and IXANY are flags of c_iflag.  Set in c_cflag, the second *)
(* is CBAUDEX, which turns the code of a speed up to 38400 into that of    *)
(* one above (9600 into 3000000); the others are HUPCL and CLOCAL.         *)
set_flowctr(c_flow, term) ==
    CASE c_flow = 1 -> [term EXCEPT !.crtscts = TRUE]
      [] c_flow = 2 -> [term EXCEPT !.speed = IF @ <= 38400 THEN another ELSE @]
      [] OTHER      -> [term EXCEPT !.crtscts = FALSE]

(* The record that its setComport hands to tcsetattr.                      *)
FlowSettings(opts, term) ==
    set_flowctr(opts.flowctl, Settings([opts EXCEPT !.paritybit = Upper(@)], term))
=============================================================================
