--------------------------- MODULE TlvServerProofs ---------------------------
(* Theorems about TlvServer, for every checksum, all streams of bytes and   *)
(* every way to cut them into reads, and every size of the buffer up to 125.*)
EXTENDS TlvServer, SequenceTheorems, WellFoundedInduction, TLAPS

USE DEF TLV_FIXED_SIZE, MAXDATALEN, MaxKept

Value == -128..127

IInv == TypeOK /\ RoomToRead

(* A char holds every byte as a number from -128 to 127.                    *)
LEMMA SignedType == \A b \in Bytes : signed(b) \in Value
  BY DEF Bytes, signed, Value

(* A packet that was judged by its checksum is as long as a packet must be. *)
LEMMA JudgedLength ==
    ASSUME TypeOK, Judged
    PROVE  /\ current + 5 < remain /\ current + 2 \in 0..BufSize - 1
           /\ Length \in Value /\ Length >= 5
<1>1. /\ current \in Nat /\ remain \in 0..BufSize /\ BufSize \in 12..125
      /\ current + 6 <= remain
  BY BufSizeAssumption DEF TypeOK, Judged, Header, Partial, Avail
<1>2. current + 2 \in 0..BufSize - 1
  BY <1>1
<1>3. Length \in Value
  BY <1>2, SignedType DEF Length, TypeOK
<1>4. (Length - 5) % 256 <= BufSize - 3
  BY <1>1, <1>3 DEF Judged, TooLong, byte, Value
<1>5. Length >= 5
  <2> SUFFICES ASSUME Length < 5 PROVE FALSE
    BY <1>3 DEF Value
  <2>1. (Length - 5) % 256 = Length + 251
    BY <1>3 DEF Value
  <2> QED BY <1>1, <1>3, <1>4, <2>1 DEF Value
<1> QED BY <1>1, <1>2, <1>3, <1>5

(* memmove within the buffer leaves a buffer.                               *)
LEMMA ShiftType ==
    ASSUME TypeOK, NEW k \in 0..remain, Shift(k)
    PROVE  buf' \in [0..BufSize - 1 -> Bytes] /\ remain' \in 0..BufSize /\ remain' = remain - k
<1>1. remain \in 0..BufSize /\ BufSize \in Nat /\ buf \in [0..BufSize - 1 -> Bytes]
  BY BufSizeAssumption DEF TypeOK
<1>2. ASSUME NEW i \in 0..BufSize - 1, i < remain - k
      PROVE  i + k \in 0..BufSize - 1
  BY <1>1, <1>2
<1> QED BY <1>1, <1>2 DEF Shift

LEMMA InvInit == Init => IInv
<1> SUFFICES ASSUME Init PROVE IInv
  OBVIOUS
<1>1. BufSize \in Nat /\ 0 \in Bytes
  BY BufSizeAssumption DEF Bytes
<1> QED BY <1>1 DEF Init, IInv, TypeOK, RoomToRead

(* The connection: accept() and read().                                     *)
LEMMA InvConn ==
    ASSUME IInv, Accept \/ AcceptFails \/ Read \/ Disconnect
    PROVE  IInv'
<1> USE DEF IInv, TypeOK, RoomToRead, buffer, conn
<1>0. BufSize \in Nat /\ 0 \in Bytes
  BY BufSizeAssumption DEF Bytes
<1>1. CASE Accept
  <2>1. sent' \in Seq(Messages) /\ wire' \in Seq(Bytes)
    BY <1>1, StreamsAssumption DEF Accept
  <2> QED BY <1>0, <1>1, <2>1 DEF Accept
<1>2. CASE Read
  <2> PICK n \in 1..Len(wire) :
          /\ n <= BufSize - remain
          /\ buf' = [i \in 0..BufSize - 1 |->
                        IF i \in remain..remain + n - 1 THEN wire[i - remain + 1] ELSE buf[i]]
          /\ remain' = remain + n
          /\ wire' = SubSeq(wire, n + 1, Len(wire))
    BY <1>2 DEF Read
  <2>1. Len(wire) \in Nat /\ n \in Nat /\ remain \in Nat
    BY LenProperties
  <2>2. ASSUME NEW i \in remain..remain + n - 1
        PROVE  wire[i - remain + 1] \in Bytes
    <3>1. i - remain + 1 \in 1..Len(wire)
      BY <2>1
    <3> QED BY <3>1, ElementOfSeq
  <2>3. buf' \in [0..BufSize - 1 -> Bytes]
    BY <2>2
  <2>4. wire' \in Seq(Bytes)
    BY <2>1, SubSeqProperties
  <2> QED BY <1>0, <1>2, <2>1, <2>3, <2>4 DEF Read
<1>3. CASE Disconnect
  <2>1. /\ wire' \in Seq(Bytes) /\ sent' \in Seq(Messages)
        /\ accepted' \in Seq((-128..127) \X (-128..127))
    BY <1>3, EmptySeq DEF Disconnect
  <2> QED BY <1>0, <1>3, <2>1 DEF Disconnect
<1>4. CASE AcceptFails
  BY <1>4 DEF AcceptFails
<1> QED BY <1>1, <1>2, <1>3, <1>4

(* One action per branch of unpacktlv.                                      *)
LEMMA InvUnpack ==
    ASSUME IInv, unpacktlv
    PROVE  IInv'
<1>j. Judged => /\ Length \in Nat /\ Length >= 5 /\ current + 5 < remain /\ at = "scan"
  BY JudgedLength DEF IInv, Value, Judged, Header
<1>s. \A k \in 0..remain :
        Shift(k) => /\ buf' \in [0..BufSize - 1 -> Bytes]
                    /\ remain' \in 0..BufSize /\ remain' = remain - k
  BY ShiftType DEF IInv
<1> USE DEF IInv, TypeOK, RoomToRead, buffer, conn
<1>0. BufSize \in 12..125 /\ remain \in 0..BufSize /\ current \in Nat
  BY BufSizeAssumption
<1>1. CASE TooLittle \/ Enough \/ ScanEnd
  BY <1>0, <1>1 DEF TooLittle, Enough, ScanEnd
<1>2. CASE NoHeader \/ LengthWrong \/ CrcWrong
  BY <1>0, <1>2 DEF NoHeader, LengthWrong, CrcWrong, Next1
<1>3. CASE Keep
  <2>1. current \in 0..remain /\ remain - current > 0
    BY <1>0, <1>3 DEF Keep, Header
  <2>2. /\ buf' \in [0..BufSize - 1 -> Bytes] /\ remain' \in 0..BufSize
        /\ remain' = remain - current
    BY <1>3, <2>1, <1>s DEF Keep
  <2>3. remain - current <= 11
    <3>1. CASE Partial
      BY <1>0, <3>1 DEF Partial, Avail
    <3>2. CASE ~Partial /\ Awaited
      <4>1. current + 2 \in 0..BufSize - 1
        BY <1>0, <3>2 DEF Partial, Avail
      <4>2. Length \in Value
        BY <4>1, SignedType DEF Length
      <4> QED BY <1>0, <3>2, <4>2 DEF Awaited, Avail, Value
    <3> QED BY <1>3, <3>1, <3>2 DEF Keep
  <2> QED BY <1>3, <2>2, <2>3 DEF Keep
<1>4. CASE Temperature \/ Negative
  <2>0. Printed /\ Judged
    BY <1>4 DEF Temperature, Negative, Printed
  <2>1. Length \in Nat /\ Length >= 5 /\ current + 5 < remain /\ at = "scan"
    BY <2>0, <1>j
  <2>4. signed(buf[current + 3]) \in Value /\ signed(buf[current + 4]) \in Value
    <3>1. current + 3 \in 0..BufSize - 1 /\ current + 4 \in 0..BufSize - 1
      BY <1>0, <2>1
    <3> QED BY <3>1, SignedType
  <2>5. accepted' \in Seq(Value \X Value)
    <3>1. PICK v \in Value \X Value : v = <<signed(buf[current + 3]), signed(buf[current + 4])>>
      BY <2>4
    <3>2. accepted' = Append(accepted, v)
      BY <2>0, <3>1 DEF Printed
    <3>3. accepted \in Seq(Value \X Value)
      BY DEF Value
    <3> QED BY <3>2, <3>3, AppendProperties
  <2>6. CASE Temperature
    <3>1. Length <= remain - current
      BY <2>6 DEF Temperature, Avail
    <3>2. current + Length \in 0..remain
      BY <1>0, <2>1, <3>1
    <3>3. buf' \in [0..BufSize - 1 -> Bytes] /\ remain' \in 0..BufSize
      BY <2>6, <3>2, <1>s DEF Temperature
    <3> QED BY <2>0, <2>1, <2>5, <2>6, <3>3 DEF Temperature, Printed, Value
  <2>7. CASE Negative
    BY <2>0, <2>1, <2>5, <2>7 DEF Negative, Printed, Value
  <2> QED BY <1>4, <2>6, <2>7
<1>5. CASE Overrun
  BY <1>5 DEF Overrun
<1>6. CASE UnknownTag
  <2>1. current \in 0..remain /\ at = "scan"
    BY <1>0, <1>6, <1>j DEF UnknownTag
  <2>2. buf' \in [0..BufSize - 1 -> Bytes] /\ remain' \in 0..BufSize
    BY <1>6, <2>1, <1>s DEF UnknownTag
  <2> QED BY <1>6, <2>1, <2>2 DEF UnknownTag
<1> QED BY <1>1, <1>2, <1>3, <1>4, <1>5, <1>6 DEF unpacktlv

LEMMA InvNext == IInv /\ [Next]_vars => IInv'
<1> SUFFICES ASSUME IInv, [Next]_vars PROVE IInv'
  OBVIOUS
<1>1. CASE UNCHANGED vars
  BY <1>1 DEF IInv, TypeOK, RoomToRead, vars, buffer, conn
<1> QED BY <1>1, InvConn, InvUnpack DEF Next

THEOREM InvHolds == Spec => []IInv
BY InvInit, InvNext, PTL DEF Spec

(* remain never exceeds the buffer nor becomes negative, whatever unpacktlv *)
(* finds in it: every variable keeps its type.                              *)
THEOREM TypeCorrect == Spec => []TypeOK
<1>1. IInv => TypeOK
  BY DEF IInv
<1> QED BY <1>1, InvHolds, PTL

(* The server never asks read() for no bytes, whatever the clients send.    *)
THEOREM RoomToReadHolds == Spec => []RoomToRead
<1>1. IInv => RoomToRead
  BY DEF IInv
<1> QED BY <1>1, InvHolds, PTL

-----------------------------------------------------------------------------
(* The layout of a stream: where its messages end.                          *)

(* A set of natural numbers that has 0, and n + 1 with each n, has all.     *)
LEMMA Induction ==
    ASSUME NEW T \in SUBSET Nat, 0 \in T, \A n \in T : n + 1 \in T
    PROVE  T = Nat
<1> DEFINE Below == OpToRel(<, Nat)
           C == Nat \ T
<1> SUFFICES ASSUME C # {} PROVE FALSE
  OBVIOUS
<1>1. IsWellFoundedOn(Below, Nat)
  BY NatLessThanWellFounded
<1>2. C \subseteq Nat
  OBVIOUS
<1>3. PICK m \in C : \A k \in C : <<k, m>> \notin Below
  <2> HIDE DEF Below, C
  <2> QED BY <1>1, <1>2, WFMin, Zenon
<1>4. m - 1 \in Nat /\ m - 1 \notin C
  <2>1. m - 1 \in Nat
    OBVIOUS
  <2>2. <<m - 1, m>> \in Below
    BY <2>1 DEF OpToRel
  <2> QED BY <1>3, <2>1, <2>2
<1>5. m - 1 \in T /\ (m - 1) + 1 = m
  BY <1>4
<1> QED BY <1>5

(* FlattenSeq is a recursive function; f is one like it.                    *)
IsFlat(f, b) ==
    f = [i \in 1..Len(b) |-> IF i = 1 THEN b[i] ELSE f[i - 1] \o b[i]]

LEMMA FlatExists ==
    ASSUME NEW b \in Seq(Seq(Bytes))
    PROVE  \E f : IsFlat(f, b)
<1> DEFINE Upto(f, n) == f = [i \in 1..n |-> IF i = 1 THEN b[i] ELSE f[i - 1] \o b[i]]
           T == {n \in Nat : \E f : Upto(f, n)}
<1>1. 0 \in T
  <2>1. Upto([i \in 1..0 |-> <<>>], 0)
    OBVIOUS
  <2> QED BY <2>1
<1>2. ASSUME NEW n \in T PROVE n + 1 \in T
  <2> PICK f : Upto(f, n)
    OBVIOUS
  <2> DEFINE last == IF n + 1 = 1 THEN b[n + 1] ELSE f[n] \o b[n + 1]
             g == [i \in 1..n + 1 |-> IF i = n + 1 THEN last ELSE f[i]]
  <2>0. n \in Nat
    OBVIOUS
  <2>1. \A i \in 1..n : f[i] = IF i = 1 THEN b[i] ELSE f[i - 1] \o b[i]
    OBVIOUS
  <2>2. ASSUME NEW i \in 1..n + 1
        PROVE  g[i] = IF i = 1 THEN b[i] ELSE g[i - 1] \o b[i]
    <3>1. CASE i = n + 1
      <4>1. g[i] = last
        BY <3>1
      <4>2. i # 1 => g[i - 1] = f[n]
        BY <2>0, <3>1
      <4> QED BY <2>0, <3>1, <4>1, <4>2
    <3>2. CASE i # n + 1
      <4>1. g[i] = f[i] /\ i \in 1..n
        BY <2>0, <3>2
      <4>2. i # 1 => g[i - 1] = f[i - 1]
        BY <2>0, <3>2
      <4> QED BY <2>1, <4>1, <4>2
    <3> QED BY <3>1, <3>2
  <2>3. Upto(g, n + 1)
    <3> DEFINE h == [i \in 1..n + 1 |-> IF i = 1 THEN b[i] ELSE g[i - 1] \o b[i]]
    <3>1. \A i \in 1..n + 1 : g[i] = h[i]
      BY <2>2
    <3>2. g = [i \in 1..n + 1 |-> g[i]] /\ h = [i \in 1..n + 1 |-> h[i]]
      OBVIOUS
    <3> QED BY <3>1, <3>2
  <2>4. \E h : Upto(h, n + 1)
    <3> HIDE DEF Upto, g
    <3> QED BY <2>3
  <2> HIDE DEF Upto
  <2> QED BY <2>0, <2>4
<1> HIDE DEF T
<1>3. T = Nat
  <2>1. T \in SUBSET Nat
    BY DEF T
  <2> QED BY <1>1, <1>2, <2>1, Induction
<1>4. Len(b) \in T
  BY <1>3
<1> QED BY <1>4 DEF T, IsFlat

LEMMA Flattened ==
    ASSUME NEW b \in Seq(Seq(Bytes)), b # <<>>
    PROVE  \E f : IsFlat(f, b) /\ FlattenSeq(b) = f[Len(b)]
<1> DEFINE f == CHOOSE g : IsFlat(g, b)
<1>1. IsFlat(f, b)
  BY FlatExists
<1>2. FlattenSeq(b) = f[Len(b)]
  BY DEF FlattenSeq, IsFlat
<1> QED BY <1>1, <1>2

(* s is made of the first n of b, the i-th of them ending at e[i].          *)
LaidOut(s, b, n, e) ==
    /\ s \in Seq(Bytes) /\ e \in [0..n -> Nat] /\ e[0] = 0 /\ e[n] = Len(s)
    /\ \A i \in 1..n : /\ e[i] = e[i - 1] + Len(b[i])
                       /\ \A k \in 1..Len(b[i]) : s[e[i - 1] + k] = b[i][k]
    /\ \A i, j \in 0..n : i <= j => e[i] <= e[j]
    /\ \A p \in 1..Len(s) : \E i \in 1..n : e[i - 1] < p /\ p <= e[i]

LEMMA LayoutStep ==
    ASSUME NEW b \in Seq(Seq(Bytes)), NEW n \in Nat, n + 1 <= Len(b),
           NEW s, NEW e, LaidOut(s, b, n, e)
    PROVE  \E g : LaidOut(s \o b[n + 1], b, n + 1, g)
<1> DEFINE c == b[n + 1]
           t == s \o c
           g == [i \in 0..n + 1 |-> IF i = n + 1 THEN e[n] + Len(c) ELSE e[i]]
<1>0. /\ c \in Seq(Bytes) /\ s \in Seq(Bytes) /\ e \in [0..n -> Nat]
      /\ e[0] = 0 /\ e[n] = Len(s) /\ Len(c) \in Nat
  BY DEF LaidOut
<1>1. /\ t \in Seq(Bytes) /\ Len(t) = Len(s) + Len(c)
      /\ \A i \in 1..Len(s) : t[i] = s[i]
      /\ \A i \in 1..Len(c) : t[Len(s) + i] = c[i]
  BY <1>0
<1>2. \A i \in 0..n : g[i] = e[i]
  OBVIOUS
<1>3. g[n + 1] = Len(t) /\ g[n + 1] = g[n] + Len(c) /\ g[n] = Len(s)
  <2>1. n + 1 \in 0..n + 1 /\ n \in 0..n
    OBVIOUS
  <2>2. g[n + 1] = e[n] + Len(c)
    BY <2>1
  <2>3. g[n] = e[n]
    BY <1>2, <2>1
  <2> HIDE DEF g, t, c
  <2> QED BY <1>0, <1>1, <2>2, <2>3
<1>4. g \in [0..n + 1 -> Nat] /\ g[0] = 0
  BY <1>0
<1> HIDE DEF g, t
<1>5. ASSUME NEW i \in 0..n + 1, NEW j \in 0..n + 1, i <= j PROVE g[i] <= g[j]
  <2>1. CASE j = n + 1
    <3>1. \A m \in 0..n : e[m] <= e[n]
      BY DEF LaidOut
    <3>2. g[n + 1] \in Nat /\ g[n] = e[n] /\ g[n] <= g[n + 1]
      <4> HIDE DEF c
      <4> QED BY <1>0, <1>2, <1>3, <1>4
    <3>3. CASE i = n + 1
      BY <2>1, <3>2, <3>3
    <3>4. CASE i # n + 1
      <4>1. i \in 0..n /\ g[i] = e[i] /\ e[i] \in Nat /\ e[n] \in Nat
        BY <1>0, <1>2, <3>4
      <4> QED BY <2>1, <3>1, <3>2, <4>1
    <3> QED BY <3>3, <3>4
  <2>2. CASE j # n + 1
    <3>1. i \in 0..n /\ j \in 0..n
      BY <1>5, <2>2
    <3> QED BY <1>2, <1>5, <3>1 DEF LaidOut
  <2> QED BY <2>1, <2>2
<1>6. ASSUME NEW i \in 1..n + 1
      PROVE  /\ g[i] = g[i - 1] + Len(b[i])
             /\ \A k \in 1..Len(b[i]) : t[g[i - 1] + k] = b[i][k]
  <2>1. CASE i = n + 1
    <3>1. i - 1 = n /\ b[i] = c
      BY <2>1
    <3> HIDE DEF c
    <3>2. g[i] = g[i - 1] + Len(b[i]) /\ g[i - 1] = Len(s)
      BY <1>3, <2>1, <3>1, Zenon
    <3>3. \A k \in 1..Len(c) : t[Len(s) + k] = c[k]
      BY <1>1, Zenon
    <3> QED BY <3>1, <3>2, <3>3, Zenon
  <2>2. CASE i # n + 1
    <3>1. i \in 1..n /\ i - 1 \in 0..n /\ i \in 0..n /\ b[i] \in Seq(Bytes)
      BY <2>2
    <3>2. e[i] = e[i - 1] + Len(b[i]) /\ e[i] <= Len(s) /\ e[i - 1] \in Nat
      BY <1>0, <3>1 DEF LaidOut
    <3>3. ASSUME NEW k \in 1..Len(b[i]) PROVE t[g[i - 1] + k] = b[i][k]
      <4>1. e[i - 1] + k \in 1..Len(s)
        <5>1. Len(b[i]) \in Nat /\ Len(s) \in Nat
          BY <1>0, <3>1
        <5>2. k \in Nat /\ 1 <= k /\ k <= Len(b[i])
          BY <5>1
        <5>3. e[i - 1] + Len(b[i]) <= Len(s)
          BY <3>2
        <5>4. PICK x \in Nat : x = e[i - 1]
          BY <3>2
        <5>5. PICK m \in Nat : m = Len(b[i])
          BY <5>1
        <5>6. PICK y \in Nat : y = Len(s)
          BY <5>1
        <5>7. 1 <= k /\ k <= m /\ x + m <= y
          BY <5>2, <5>3, <5>4, <5>5, <5>6
        <5>8. x + k \in 1..y
          BY <5>2, <5>7
        <5> QED BY <5>4, <5>6, <5>8, Zenon
      <4>2. s[e[i - 1] + k] = b[i][k]
        BY <3>1 DEF LaidOut
      <4> QED BY <1>1, <1>2, <3>1, <4>1, <4>2
    <3> QED BY <1>2, <3>1, <3>2, <3>3
  <2> QED BY <2>1, <2>2
<1>7. ASSUME NEW p \in 1..Len(t)
      PROVE  \E i \in 1..n + 1 : g[i - 1] < p /\ p <= g[i]
  <2>1. CASE p <= Len(s)
    <3>1. PICK i \in 1..n : e[i - 1] < p /\ p <= e[i]
      BY <1>0, <2>1 DEF LaidOut
    <3>2. i \in 1..n + 1 /\ i \in 0..n /\ i - 1 \in 0..n
      OBVIOUS
    <3> QED BY <1>2, <3>1, <3>2
  <2>2. CASE p > Len(s)
    <3>1. g[n] < p /\ p <= g[n + 1] /\ n + 1 \in 1..n + 1 /\ (n + 1) - 1 = n
      BY <1>0, <1>1, <1>3, <2>2
    <3> QED BY <3>1
  <2> QED BY <1>0, <2>1, <2>2
<1>8. LaidOut(t, b, n + 1, g)
  BY <1>1, <1>3, <1>4, <1>5, <1>6, <1>7 DEF LaidOut
<1> QED BY <1>8 DEF t

LEMMA Layout ==
    ASSUME NEW b \in Seq(Seq(Bytes))
    PROVE  \E e : LaidOut(FlattenSeq(b), b, Len(b), e)
<1>1. LaidOut(<<>>, b, 0, [i \in 0..0 |-> 0])
  BY DEF LaidOut
<1>2. CASE b = <<>>
  <2>1. FlattenSeq(b) = <<>> /\ Len(b) = 0
    BY <1>2 DEF FlattenSeq
  <2> QED BY <1>1, <2>1
<1>3. CASE b # <<>>
  <2>1. PICK f : IsFlat(f, b) /\ FlattenSeq(b) = f[Len(b)]
    BY <1>3, Flattened
  <2> DEFINE T == {n \in Nat : n + 1 <= Len(b) => \E e : LaidOut(f[n + 1], b, n + 1, e)}
  <2>2. 0 \in T
    <3>1. PICK e : LaidOut(<<>> \o b[0 + 1], b, 0 + 1, e)
      <4>1. 0 + 1 <= Len(b)
        BY <1>3
      <4> QED BY <1>1, <4>1, LayoutStep
    <3>2. <<>> \o b[1] = b[1] /\ f[1] = b[1]
      BY <1>3, <2>1 DEF IsFlat
    <3>3. LaidOut(f[0 + 1], b, 0 + 1, e)
      BY <3>1, <3>2
    <3> HIDE DEF T
    <3>4. \E h : LaidOut(f[0 + 1], b, 0 + 1, h)
      BY <3>3
    <3> QED BY <3>4 DEF T
  <2>3. ASSUME NEW n \in T PROVE n + 1 \in T
    <3> SUFFICES ASSUME (n + 1) + 1 <= Len(b)
                 PROVE  \E e : LaidOut(f[(n + 1) + 1], b, (n + 1) + 1, e)
      OBVIOUS
    <3>0. n \in Nat /\ n + 1 \in Nat /\ Len(b) \in Nat /\ n + 1 <= Len(b)
      OBVIOUS
    <3>1. PICK e : LaidOut(f[n + 1], b, n + 1, e)
      BY <3>0
    <3> HIDE DEF T
    <3>2. PICK g : LaidOut(f[n + 1] \o b[(n + 1) + 1], b, (n + 1) + 1, g)
      BY <3>0, <3>1, LayoutStep
    <3>3. f[(n + 1) + 1] = f[n + 1] \o b[(n + 1) + 1]
      <4>1. /\ (n + 1) + 1 \in 1..Len(b) /\ (n + 1) + 1 # 1
            /\ ((n + 1) + 1) - 1 = n + 1
        BY <3>0
      <4> QED BY <2>1, <4>1 DEF IsFlat
    <3> QED BY <3>2, <3>3
  <2> HIDE DEF T
  <2>4. T = Nat
    <3>1. T \in SUBSET Nat
      BY DEF T
    <3> QED BY <2>2, <2>3, <3>1, Induction
  <2>5. Len(b) - 1 \in T /\ (Len(b) - 1) + 1 = Len(b)
    BY <1>3, <2>4
  <2>6. \E e : LaidOut(f[Len(b)], b, Len(b), e)
    BY <2>5 DEF T
  <2> QED BY <2>1, <2>6
<1> QED BY <1>2, <1>3

(* Where the messages of a connection end in what it carries.               *)
BytesOf(s) == [i \in DOMAIN s |-> s[i].bytes]
Ends(s) == CHOOSE e : LaidOut(Carried(s), BytesOf(s), Len(s), e)

LEMMA MessageLayout ==
    ASSUME NEW s \in Seq(Messages)
    PROVE  /\ Carried(s) \in Seq(Bytes) /\ Ends(s) \in [0..Len(s) -> Nat]
           /\ Ends(s)[0] = 0 /\ Ends(s)[Len(s)] = Len(Carried(s))
           /\ \A i \in 1..Len(s) :
                 /\ Ends(s)[i] = Ends(s)[i - 1] + Len(s[i].bytes)
                 /\ \A k \in 1..Len(s[i].bytes) :
                       Carried(s)[Ends(s)[i - 1] + k] = s[i].bytes[k]
           /\ \A i, j \in 0..Len(s) : i <= j => Ends(s)[i] <= Ends(s)[j]
           /\ \A p \in 1..Len(Carried(s)) :
                 \E i \in 1..Len(s) : Ends(s)[i - 1] < p /\ p <= Ends(s)[i]
<1>1. BytesOf(s) \in Seq(Seq(Bytes)) /\ Len(BytesOf(s)) = Len(s)
  <2>1. ASSUME NEW i \in 1..Len(s) PROVE s[i].bytes \in Seq(Bytes)
    <3>1. s[i] \in Messages
      BY ElementOfSeq
    <3> QED BY <3>1 DEF Messages
  <2> QED BY <2>1 DEF BytesOf
<1>2. Carried(s) = FlattenSeq(BytesOf(s))
  BY DEF Carried, BytesOf
<1>3. \E e : LaidOut(Carried(s), BytesOf(s), Len(s), e)
  BY <1>1, <1>2, Layout
<1>4. LaidOut(Carried(s), BytesOf(s), Len(s), Ends(s))
  BY <1>3 DEF Ends
<1>5. \A i \in 1..Len(s) : BytesOf(s)[i] = s[i].bytes
  BY DEF BytesOf
<1> QED BY <1>4, <1>5 DEF LaidOut

-----------------------------------------------------------------------------
(* What the buffer holds of the stream.                                     *)

Stream == Carried(sent)
Off    == Len(Stream) - Len(wire) - remain
Served == at \in {"read", "unpack", "scan"}

(* The buffer holds the stream from Off on, up to what was not read yet; and*)
(* it waits only for what is too little to be looked at, or for the rest of *)
(* something that starts as a packet does.                                  *)
Held ==
    /\ Off \in Nat
    /\ wire = SubSeq(Stream, Off + remain + 1, Len(Stream))
    /\ \A i \in 0..remain - 1 : buf[i] = Stream[Off + i + 1]
Waiting == remain < 6 \/ (buf[0] = PACK_HEADER /\ remain < signed(buf[2]))
HeldInv == Served => Held /\ (at = "read" => Waiting)

LEMMA StreamTyped ==
    ASSUME TypeOK
    PROVE  /\ Stream \in Seq(Bytes) /\ Len(Stream) \in Nat /\ Len(wire) \in Nat
           /\ remain \in 0..BufSize /\ BufSize \in 12..125 /\ current \in Nat
           /\ buf \in [0..BufSize - 1 -> Bytes]
  BY MessageLayout, BufSizeAssumption DEF TypeOK, Stream

(* What is shifted out of the buffer is passed over.                        *)
LEMMA HeldShift ==
    ASSUME TypeOK, Held, NEW k \in 0..remain, Shift(k), UNCHANGED <<wire, sent>>
    PROVE  Held' /\ Off' = Off + k /\ Stream' = Stream
<1>1. Stream' = Stream
  BY DEF Stream
<1>2. /\ remain \in Nat /\ Len(Stream) \in Nat /\ Len(wire) \in Nat
      /\ remain <= BufSize /\ BufSize \in Nat
  <2>1. /\ Len(Stream) \in Nat /\ Len(wire) \in Nat
        /\ remain \in 0..BufSize /\ BufSize \in 12..125
    BY StreamTyped, Zenon
  <2> QED BY <2>1
<1>3. remain' = remain - k
  BY DEF Shift
<1>4. Off' = Off + k /\ Off \in Nat
  BY <1>1, <1>2, <1>3 DEF Off, Held
<1>5. Off' + remain' = Off + remain /\ Off' \in Nat
  BY <1>2, <1>3, <1>4
<1>6. ASSUME NEW i \in 0..remain' - 1
      PROVE  buf'[i] = Stream[Off' + i + 1]
  <2>1. i \in 0..BufSize - 1 /\ i < remain - k /\ i + k \in 0..remain - 1
    BY <1>2, <1>3
  <2>2. buf'[i] = buf[i + k]
    BY <2>1 DEF Shift
  <2>3. buf[i + k] = Stream[Off + (i + k) + 1]
    BY <2>1 DEF Held
  <2>4. Off + (i + k) + 1 = Off' + i + 1
    BY <1>4, <2>1
  <2> QED BY <2>2, <2>3, <2>4
<1>7. wire' = SubSeq(Stream', Off' + remain' + 1, Len(Stream'))
  BY <1>1, <1>5 DEF Held
<1> QED BY <1>1, <1>4, <1>5, <1>6, <1>7 DEF Held

LEMMA HeldRead ==
    ASSUME TypeOK, Held, Read
    PROVE  Held' /\ Off' = Off /\ Stream' = Stream
<1>1. Stream' = Stream
  BY DEF Stream, Read
<1>2. /\ remain \in Nat /\ Len(Stream) \in Nat /\ Len(wire) \in Nat
      /\ remain <= BufSize /\ BufSize \in Nat /\ wire \in Seq(Bytes)
      /\ Stream \in Seq(Bytes) /\ Off \in Nat
  <2>1. /\ Len(Stream) \in Nat /\ Len(wire) \in Nat /\ Stream \in Seq(Bytes)
        /\ remain \in 0..BufSize /\ BufSize \in 12..125
    BY StreamTyped, Zenon
  <2>2. wire \in Seq(Bytes) /\ Off \in Nat
    BY DEF TypeOK, Held
  <2> QED BY <2>1, <2>2
<1>3. PICK n \in 1..Len(wire) :
          /\ n <= BufSize - remain
          /\ buf' = [i \in 0..BufSize - 1 |->
                        IF i \in remain..remain + n - 1 THEN wire[i - remain + 1] ELSE buf[i]]
          /\ remain' = remain + n
          /\ wire' = SubSeq(wire, n + 1, Len(wire))
  BY DEF Read
<1>4. Len(wire') = Len(wire) - n
  BY <1>2, <1>3
<1>5. Off' = Off
  <2>1. Off' = Len(Stream) - Len(wire') - remain'
    BY <1>1 DEF Off
  <2>2. n \in Nat /\ remain' = remain + n
    BY <1>2, <1>3
  <2>3. Off = Len(Stream) - Len(wire) - remain
    BY DEF Off
  <2> HIDE DEF Off
  <2> QED BY <1>2, <1>4, <2>1, <2>2, <2>3
<1>6. Len(wire) = Len(Stream) - (Off + remain)
  BY <1>2 DEF Off
<1>7. \A i \in 1..Len(wire) : wire[i] = Stream[Off + remain + i]
  <2>1. wire = SubSeq(Stream, Off + remain + 1, Len(Stream))
    BY DEF Held
  <2>2. Off + remain + 1 \in Nat /\ Off + remain + 1 >= 1
    BY <1>2
  <2> HIDE DEF Stream
  <2> QED BY <1>2, <1>6, <2>1, <2>2
<1>8. ASSUME NEW i \in 0..remain' - 1
      PROVE  buf'[i] = Stream[Off' + i + 1]
  <2>1. i \in 0..BufSize - 1
    BY <1>2, <1>3
  <2>2. CASE i < remain
    <3>1. buf'[i] = buf[i] /\ i \in 0..remain - 1
      BY <1>2, <1>3, <2>1, <2>2
    <3> QED BY <1>5, <3>1 DEF Held
  <2>3. CASE i >= remain
    <3>1. i \in remain..remain + n - 1 /\ i - remain + 1 \in 1..Len(wire)
      BY <1>2, <1>3, <2>1, <2>3
    <3>2. buf'[i] = wire[i - remain + 1]
      BY <1>3, <2>1, <3>1
    <3>3. Off + remain + (i - remain + 1) = Off + i + 1
      BY <1>2, <2>1
    <3> QED BY <1>5, <1>7, <3>1, <3>2, <3>3
  <2> QED BY <1>2, <2>1, <2>2, <2>3
<1>9. wire' = SubSeq(Stream, Off + remain' + 1, Len(Stream))
  <2>1. wire' \in Seq(Bytes)
    BY <1>2, <1>3
  <2>2. /\ SubSeq(Stream, Off + remain' + 1, Len(Stream)) \in Seq(Bytes)
        /\ Len(SubSeq(Stream, Off + remain' + 1, Len(Stream))) = Len(wire')
        /\ \A i \in 1..Len(wire') :
              SubSeq(Stream, Off + remain' + 1, Len(Stream))[i] = Stream[Off + remain' + i]
    BY <1>2, <1>3, <1>4, <1>6
  <2>3. ASSUME NEW i \in 1..Len(wire') PROVE wire'[i] = Stream[Off + remain' + i]
    <3>1. wire'[i] = wire[n + i] /\ n + i \in 1..Len(wire)
      BY <1>2, <1>3, <1>4
    <3>2. Off + remain + (n + i) = Off + remain' + i
      BY <1>2, <1>3, <1>4
    <3> QED BY <1>7, <3>1, <3>2
  <2> QED BY <2>1, <2>2, <2>3, SeqEqual
<1> QED BY <1>1, <1>2, <1>5, <1>8, <1>9 DEF Held

LEMMA HeldStart ==
    ASSUME Accept
    PROVE  Held' /\ Off' = 0
<1>1. wire' = Stream' /\ remain' = 0 /\ Stream' \in Seq(Bytes)
  <2>1. sent' \in Streams /\ wire' = Carried(sent') /\ remain' = 0
    BY DEF Accept
  <2> QED BY <2>1, StreamsAssumption DEF Stream
<1>2. Len(Stream') \in Nat
  BY <1>1
<1>3. Off' = 0
  <2>1. Off' = Len(Stream') - Len(wire') - remain'
    BY DEF Off
  <2> QED BY <1>1, <1>2, <2>1
<1>4. SubSeq(Stream', 1, Len(Stream')) = Stream'
  BY <1>1
<1> HIDE DEF Off
<1> QED BY <1>1, <1>3, <1>4 DEF Held

LEMMA HeldSame ==
    ASSUME Held, UNCHANGED <<buf, remain, wire, sent>>
    PROVE  Held' /\ Off' = Off /\ Stream' = Stream
  BY DEF Held, Off, Stream

LEMMA HeldEnd ==
    ASSUME TypeOK, Held, ScanEnd
    PROVE  Held' /\ Off' = Off + remain /\ Stream' = Stream
<1>1. Stream' = Stream
  BY DEF Stream, ScanEnd, conn
<1>2. /\ remain \in Nat /\ Len(Stream) \in Nat /\ Len(wire) \in Nat
  BY StreamTyped
<1>3. remain' = 0 /\ wire' = wire
  BY DEF ScanEnd, conn
<1>4. Off' = Off + remain /\ Off \in Nat
  BY <1>1, <1>2, <1>3 DEF Off, Held
<1>5. wire' = SubSeq(Stream', Off' + remain' + 1, Len(Stream'))
  <2>1. Off' + remain' + 1 = Off + remain + 1
    BY <1>2, <1>3, <1>4
  <2> QED BY <1>1, <1>3, <2>1 DEF Held
<1> HIDE DEF Off
<1>6. Off' \in Nat /\ 0..remain' - 1 = {}
  BY <1>2, <1>3, <1>4
<1> QED BY <1>1, <1>4, <1>5, <1>6 DEF Held

(* What unpacktlv keeps is an incomplete packet, at the front.              *)
LEMMA KeepWaits ==
    ASSUME TypeOK, Keep
    PROVE  Waiting' /\ current \in 0..remain - 1 /\ Shift(current) /\ at' = "read"
<1>1. /\ remain \in 0..BufSize /\ BufSize \in 12..125 /\ current \in Nat
      /\ current < remain /\ buf[current] = PACK_HEADER
      /\ Shift(current) /\ at' = "read"
      /\ Avail = remain - current
  BY BufSizeAssumption DEF TypeOK, Keep, Header, Avail
<1>2. remain' = remain - current
  BY <1>1 DEF Shift
<1>3. ASSUME Partial PROVE Waiting'
  BY <1>1, <1>2, <1>3 DEF Partial, Waiting
<1>4. ASSUME ~Partial PROVE Waiting'
  <2>1. Length > Avail /\ remain - current >= 6
    BY <1>1, <1>4 DEF Partial, Keep, Awaited
  <2>2. buf'[0] = buf[current + 0] /\ buf'[2] = buf[current + 2]
    <3>1. 0 \in 0..BufSize - 1 /\ 2 \in 0..BufSize - 1 /\ 0 < remain - current /\ 2 < remain - current
      BY <1>1, <2>1
    <3> QED BY <1>1, <3>1 DEF Shift
  <2>3. signed(buf'[2]) = Length
    BY <2>2 DEF Length
  <2>4. buf'[0] = PACK_HEADER
    BY <1>1, <2>2
  <2>5. Waiting' = (remain' < 6 \/ (buf'[0] = PACK_HEADER /\ remain' < signed(buf'[2])))
    BY DEF Waiting, PACK_HEADER
  <2>6. Length \in Value
    <3>1. buf[current + 2] \in Bytes
      BY <1>1, <2>1 DEF TypeOK
    <3> QED BY <3>1, SignedType DEF Length
  <2>7. remain' < Length
    BY <1>1, <1>2, <2>1, <2>6 DEF Value
  <2>8. remain' < signed(buf'[2])
    BY <2>3, <2>7
  <2> QED BY <2>4, <2>5, <2>8, Zenon
<1>5. current \in 0..remain - 1
  BY <1>1
<1> QED BY <1>1, <1>3, <1>4, <1>5

LEMMA HeldNext ==
    ASSUME IInv, HeldInv, Next
    PROVE  HeldInv'
<1>0. TypeOK
  BY DEF IInv
<1>a. remain \in 0..BufSize /\ BufSize \in 12..125 /\ current \in Nat
  BY <1>0, BufSizeAssumption DEF TypeOK
<1>1. CASE Accept
  <2>1. remain' = 0 /\ Held'
    BY <1>1, HeldStart DEF Accept
  <2> QED BY <2>1 DEF HeldInv, Waiting
<1>2. CASE AcceptFails \/ Disconnect \/ Overrun \/ Negative
  BY <1>2 DEF AcceptFails, Disconnect, Overrun, Negative, HeldInv, Served
<1>3. CASE Read
  <2>1. Held /\ at' = "unpack"
    BY <1>3 DEF HeldInv, Served, Read
  <2>2. Held'
    BY <1>0, <1>3, <2>1, HeldRead
  <2> QED BY <2>1, <2>2 DEF HeldInv
<1>4. CASE TooLittle \/ Enough
  <2>1. Held /\ UNCHANGED <<buf, remain, wire, sent>> /\ (at' = "read" => remain < 6)
    BY <1>4 DEF HeldInv, Served, TooLittle, Enough, buffer, conn
  <2>2. Held'
    BY <2>1, HeldSame
  <2> QED BY <2>1, <2>2 DEF HeldInv, Waiting
<1>5. CASE NoHeader \/ LengthWrong \/ CrcWrong
  <2>1. Held /\ UNCHANGED <<at, buf, remain, wire, sent>> /\ at = "scan"
    BY <1>5 DEF HeldInv, Served, NoHeader, LengthWrong, CrcWrong, Judged, Header, Next1, buffer, conn
  <2>2. Held'
    BY <2>1, HeldSame
  <2> QED BY <2>1, <2>2 DEF HeldInv
<1>6. CASE Keep
  <2>1. Waiting' /\ current \in 0..remain - 1 /\ Shift(current) /\ at' = "read"
    BY <1>0, <1>6, KeepWaits
  <2>2. Held /\ UNCHANGED <<wire, sent>>
    BY <1>6 DEF HeldInv, Served, Keep, Header, conn
  <2>3. current \in 0..remain
    BY <1>a, <2>1
  <2>4. Held'
    BY <1>0, <2>1, <2>2, <2>3, HeldShift
  <2> QED BY <2>1, <2>4 DEF HeldInv
<1>7. CASE Temperature
  <2>0. Judged /\ Length <= remain - current
    BY <1>7 DEF Temperature, Printed, Avail
  <2>1. Length \in Nat /\ Length >= 5
    BY <1>0, <2>0, JudgedLength DEF Value
  <2>2. current + Length \in 0..remain
    BY <1>a, <2>0, <2>1
  <2>3. Held /\ UNCHANGED <<wire, sent>> /\ Shift(current + Length) /\ at' = "scan"
    BY <1>7, <2>0 DEF HeldInv, Served, Temperature, Printed, Judged, Header
  <2>4. Held'
    BY <1>0, <2>2, <2>3, HeldShift
  <2> QED BY <2>3, <2>4 DEF HeldInv
<1>8. CASE UnknownTag
  <2>0. Judged
    BY <1>8 DEF UnknownTag
  <2>1. current \in 0..remain
    BY <1>0, <1>a, <2>0, JudgedLength
  <2>3. Held /\ UNCHANGED <<wire, sent>> /\ Shift(current) /\ at' = "scan"
    BY <1>8, <2>0 DEF HeldInv, Served, UnknownTag, Judged, Header, conn
  <2>4. Held'
    BY <1>0, <2>1, <2>3, HeldShift
  <2> QED BY <2>3, <2>4 DEF HeldInv
<1>9. CASE ScanEnd
  <2>1. Held /\ remain' = 0
    BY <1>9 DEF HeldInv, Served, ScanEnd
  <2>2. Held'
    BY <1>0, <1>9, <2>1, HeldEnd
  <2> QED BY <2>1, <2>2 DEF HeldInv, Waiting
<1> QED BY <1>1, <1>2, <1>3, <1>4, <1>5, <1>6, <1>7, <1>8, <1>9 DEF Next, unpacktlv

-----------------------------------------------------------------------------
(* A connection that carries whole packets, and messages that cannot be     *)
(* taken for one: no byte behind the first of a message is a header byte.   *)

Front1(b) == \A k \in 2..Len(b) : b[k] # PACK_HEADER

Packet(m) ==
    /\ Len(m.bytes) \in TLV_FIXED_SIZE + 2..TLV_FIXED_SIZE + MAXDATALEN - 1
    /\ m.bytes[1] = PACK_HEADER /\ m.bytes[2] = TEMPRATURE /\ m.bytes[3] = Len(m.bytes)
    /\ Crc(SubSeq(m.bytes, 1, Len(m.bytes) - 2)) =
          bytes_to_ushort(SubSeq(m.bytes, Len(m.bytes) - 1, Len(m.bytes)))
    /\ m.reading = <<signed(m.bytes[4]), signed(m.bytes[5])>>

Other(m) ==
    /\ m.reading = <<>>
    /\ m.bytes # <<>> /\ m.bytes[1] = PACK_HEADER =>
           Len(m.bytes) >= 2 /\ m.bytes[2] # TEMPRATURE

Plain(s) == \A i \in DOMAIN s : Front1(s[i].bytes) /\ (Packet(s[i]) \/ Other(s[i]))

(* A header byte of the stream is the first of a message.                   *)
LEMMA HeaderAt ==
    ASSUME NEW s \in Seq(Messages), Plain(s),
           NEW p \in 1..Len(Carried(s)), Carried(s)[p] = PACK_HEADER
    PROVE  \E j \in 1..Len(s) : /\ Ends(s)[j - 1] = p - 1 /\ Ends(s)[j] >= p
                                /\ s[j].bytes \in Seq(Bytes) /\ Len(s[j].bytes) >= 1
                                /\ s[j].bytes[1] = PACK_HEADER
<1>1. PICK j \in 1..Len(s) : Ends(s)[j - 1] < p /\ p <= Ends(s)[j]
  BY MessageLayout
<1>2. /\ Ends(s)[j] = Ends(s)[j - 1] + Len(s[j].bytes)
      /\ \A k \in 1..Len(s[j].bytes) : Carried(s)[Ends(s)[j - 1] + k] = s[j].bytes[k]
  BY MessageLayout
<1>3. Ends(s)[j - 1] \in Nat
  <2>1. j - 1 \in 0..Len(s)
    OBVIOUS
  <2> QED BY <2>1, MessageLayout
<1>4. s[j].bytes \in Seq(Bytes) /\ Len(s[j].bytes) \in Nat
  <2>1. s[j] \in Messages
    BY ElementOfSeq
  <2> QED BY <2>1 DEF Messages
<1>5. p \in Nat
  BY MessageLayout
<1> DEFINE k == p - Ends(s)[j - 1]
<1>6. k \in 1..Len(s[j].bytes) /\ Ends(s)[j - 1] + k = p
  BY <1>1, <1>2, <1>3, <1>4, <1>5
<1>7. s[j].bytes[k] = PACK_HEADER
  BY <1>2, <1>6
<1>8. k = 1
  <2>1. Front1(s[j].bytes)
    BY DEF Plain
  <2> HIDE DEF k
  <2> QED BY <1>4, <1>6, <1>7, <2>1 DEF Front1
<1>9. Ends(s)[j - 1] = p - 1
  BY <1>3, <1>5, <1>8
<1> HIDE DEF k
<1> QED BY <1>1, <1>4, <1>6, <1>7, <1>8, <1>9

(* The messages end one behind the other, each packet behind its start.     *)
LEMMA EndsOrder ==
    ASSUME NEW s \in Seq(Messages)
    PROVE  /\ Len(s) \in Nat /\ \A i \in 0..Len(s) : Ends(s)[i] \in Nat
           /\ \A i \in 0..Len(s) : Ends(s)[i] <= Len(Carried(s))
           /\ \A i \in 1..Len(s) : Packet(s[i]) => Ends(s)[i] >= Ends(s)[i - 1] + 7
<1>1. Len(s) \in Nat /\ \A i \in 0..Len(s) : Ends(s)[i] \in Nat
  <2>1. Ends(s) \in [0..Len(s) -> Nat]
    BY MessageLayout, Zenon
  <2> QED BY <2>1
<1>2. ASSUME NEW i \in 0..Len(s) PROVE Ends(s)[i] <= Len(Carried(s))
  <2>1. Len(s) \in 0..Len(s) /\ i <= Len(s)
    BY <1>1
  <2> QED BY <2>1, MessageLayout
<1>3. ASSUME NEW i \in 1..Len(s), Packet(s[i]) PROVE Ends(s)[i] >= Ends(s)[i - 1] + 7
  <2>1. Ends(s)[i] = Ends(s)[i - 1] + Len(s[i].bytes)
    BY MessageLayout
  <2>2. Len(s[i].bytes) \in 7..12
    BY <1>3 DEF Packet
  <2>4. Len(s[i].bytes) \in Nat /\ Len(s[i].bytes) >= 7
    <3>1. \A n \in 7..12 : n \in Nat /\ n >= 7
      OBVIOUS
    <3> QED BY <2>2, <3>1, Zenon
  <2>3. Ends(s)[i - 1] \in Nat
    <3>1. i - 1 \in 0..Len(s)
      BY <1>1
    <3> QED BY <1>1, <3>1
  <2> QED BY <2>1, <2>3, <2>4
<1> QED BY <1>1, <1>2, <1>3

LEMMA PlainReadings ==
    ASSUME NEW s, Plain(s), NEW i \in DOMAIN s
    PROVE  IsReading(s[i]) <=> Packet(s[i])
<1>1. Packet(s[i]) => IsReading(s[i])
  BY DEF Packet, IsReading
<1>2. Other(s[i]) => ~IsReading(s[i])
  BY DEF Other, IsReading
<1> QED BY <1>1, <1>2 DEF Plain

(* Of the messages s, the scan has passed the first p bytes and taken the   *)
(* readings a from the messages which: in order, the first of the messages  *)
(* if that is a reading, and, of readings only, never passing over two.     *)
InOrder(s, a, which) ==
    /\ which \in [DOMAIN a -> Readings(s)]
    /\ \A i, j \in DOMAIN a : i < j => which[i] < which[j]
    /\ \A i \in DOMAIN a : a[i] = s[which[i]].reading

LastOf(a, which) == IF a = <<>> THEN 0 ELSE which[Len(a)]

FirstTaken(s, p, a, which) ==
    s # <<>> /\ IsReading(s[1]) => IF a = <<>> THEN p = 0 ELSE which[1] = 1

NoneMissed(s, p, a, which) ==
    (\A i \in DOMAIN s : IsReading(s[i])) =>
        /\ \A i \in 1..LastOf(a, which) - 1 : \E k \in DOMAIN a : which[k] \in {i, i + 1}
        /\ LastOf(a, which) < Len(s) => p <= Ends(s)[LastOf(a, which) + 1]

Passed(s, p, a, which) ==
    /\ InOrder(s, a, which)
    /\ Ends(s)[LastOf(a, which)] <= p
    /\ FirstTaken(s, p, a, which) /\ NoneMissed(s, p, a, which)

LEMMA LastOfType ==
    ASSUME NEW s \in Seq(Messages), NEW a \in Seq(Value \X Value),
           NEW which, InOrder(s, a, which)
    PROVE  /\ LastOf(a, which) \in 0..Len(s)
           /\ \A i \in DOMAIN a : which[i] \in 1..Len(s) /\ which[i] <= LastOf(a, which)
<1>0. DOMAIN a = 1..Len(a) /\ Len(a) \in Nat /\ (a # <<>> => Len(a) \in DOMAIN a)
  BY EmptySeq
<1>1. \A i \in DOMAIN a : which[i] \in 1..Len(s)
  <2>1. Readings(s) \subseteq 1..Len(s)
    BY DEF Readings
  <2> QED BY <2>1 DEF InOrder
<1>2. LastOf(a, which) \in 0..Len(s)
  BY <1>0, <1>1 DEF LastOf
<1>3. ASSUME NEW i \in DOMAIN a PROVE which[i] <= LastOf(a, which)
  <2>1. a # <<>> /\ LastOf(a, which) = which[Len(a)] /\ Len(a) \in DOMAIN a
    BY <1>0 DEF LastOf
  <2>2. which[i] \in 1..Len(s) /\ which[Len(a)] \in 1..Len(s)
    BY <1>1, <2>1
  <2>3. CASE i = Len(a)
    BY <2>1, <2>2, <2>3
  <2>4. CASE i # Len(a)
    <3>1. i < Len(a)
      BY <1>0, <2>4
    <3>2. which[i] < which[Len(a)]
      BY <2>1, <3>1 DEF InOrder
    <3> QED BY <2>1, <2>2, <3>2
  <2> QED BY <2>3, <2>4
<1> QED BY <1>1, <1>2, <1>3

(* Going on by a byte that does not start a packet.                         *)
LEMMA NotTaken ==
    ASSUME NEW s \in Seq(Messages), Plain(s), NEW a \in Seq(Value \X Value),
           NEW which, NEW p \in Nat, Passed(s, p, a, which),
           p < Len(Carried(s)),
           \A j \in 1..Len(s) : Packet(s[j]) => Ends(s)[j - 1] # p
    PROVE  Passed(s, p + 1, a, which)
<1> DEFINE last == LastOf(a, which)
           e == Ends(s)
<1>0. InOrder(s, a, which) /\ e[last] <= p /\ FirstTaken(s, p, a, which) /\ NoneMissed(s, p, a, which)
  BY DEF Passed
<1>1. last \in 0..Len(s)
  BY <1>0, LastOfType
<1>2. Len(s) \in Nat /\ DOMAIN s = 1..Len(s) /\ (\A i \in 0..Len(s) : e[i] \in Nat)
  BY EndsOrder
<1>3. e[last] <= p + 1
  BY <1>0, <1>1, <1>2
<1>4. FirstTaken(s, p + 1, a, which)
  <2> SUFFICES ASSUME s # <<>>, IsReading(s[1]), a = <<>> PROVE FALSE
    BY <1>0 DEF FirstTaken
  <2>1. p = 0
    BY <1>0 DEF FirstTaken
  <2>2. 1 \in 1..Len(s) /\ 1 - 1 = 0
    BY <1>2, EmptySeq
  <2>3. Packet(s[1])
    BY <1>2, <2>2, PlainReadings
  <2>4. e[0] = 0
    BY MessageLayout
  <2> QED BY <2>1, <2>2, <2>3, <2>4
<1>5. NoneMissed(s, p + 1, a, which)
  <2> SUFFICES ASSUME \A i \in DOMAIN s : IsReading(s[i]), last < Len(s)
               PROVE  p + 1 <= e[last + 1]
    BY <1>0 DEF NoneMissed
  <2>1. p <= e[last + 1]
    BY <1>0 DEF NoneMissed
  <2>2. last + 1 \in 0..Len(s)
    BY <1>1, <1>2
  <2>3. p # e[last + 1]
    <3>1. CASE last + 1 = Len(s)
      BY <3>1, MessageLayout
    <3>2. CASE last + 1 # Len(s)
      <4>1. last + 2 \in 1..Len(s) /\ (last + 2) - 1 = last + 1
        BY <1>1, <1>2, <2>2, <3>2
      <4>2. Packet(s[last + 2])
        BY <1>2, <4>1, PlainReadings
      <4> HIDE DEF last, e
      <4>3. Ends(s)[(last + 2) - 1] # p
        BY <4>1, <4>2
      <4> QED BY <4>1, <4>3 DEF e
    <3> QED BY <3>1, <3>2
  <2> HIDE DEF e
  <2> QED BY <1>2, <2>1, <2>2, <2>3
<1> QED BY <1>0, <1>3, <1>4, <1>5 DEF Passed

(* Taking the reading of the packet that starts where the scan is; the scan *)
(* goes on behind it, or one byte further.                                  *)
LEMMA Taken ==
    ASSUME NEW s \in Seq(Messages), Plain(s), NEW a \in Seq(Value \X Value),
           NEW which, NEW p \in Nat, Passed(s, p, a, which),
           NEW j \in 1..Len(s), Packet(s[j]), Ends(s)[j - 1] = p,
           NEW q \in Ends(s)[j]..Ends(s)[j] + 1
    PROVE  \E w : Passed(s, q, Append(a, s[j].reading), w)
<1> DEFINE last == LastOf(a, which)
           e == Ends(s)
           b == Append(a, s[j].reading)
           w == [i \in DOMAIN b |-> IF i = Len(b) THEN j ELSE which[i]]
<1>0. /\ InOrder(s, a, which) /\ e[last] <= p
      /\ FirstTaken(s, p, a, which) /\ NoneMissed(s, p, a, which)
  BY DEF Passed
<1>1. /\ last \in 0..Len(s)
      /\ \A i \in DOMAIN a : which[i] \in 1..Len(s) /\ which[i] <= last
  BY <1>0, LastOfType
<1>2. /\ Len(s) \in Nat /\ DOMAIN s = 1..Len(s)
      /\ \A i \in 0..Len(s) : e[i] \in Nat
      /\ \A i, k \in 0..Len(s) : i <= k => e[i] <= e[k]
      /\ \A i \in 1..Len(s) : Packet(s[i]) => e[i] >= e[i - 1] + 7
  <2>1. Len(s) \in Nat /\ DOMAIN s = 1..Len(s)
    OBVIOUS
  <2>2. \A i, k \in 0..Len(s) : i <= k => e[i] <= e[k]
    BY MessageLayout, Zenon
  <2>3. /\ \A i \in 0..Len(s) : e[i] \in Nat
        /\ \A i \in 1..Len(s) : Packet(s[i]) => e[i] >= e[i - 1] + 7
    BY EndsOrder, Zenon
  <2> QED BY <2>1, <2>2, <2>3
<1>3. /\ DOMAIN a = 1..Len(a) /\ Len(a) \in Nat /\ Len(b) = Len(a) + 1
      /\ DOMAIN b = 1..Len(a) + 1 /\ b # <<>>
      /\ \A i \in 1..Len(a) : b[i] = a[i]
      /\ b[Len(a) + 1] = s[j].reading
  <2>1. s[j] \in Messages /\ s[j].reading # <<>>
    BY <1>2, PlainReadings, ElementOfSeq DEF IsReading
  <2>2. PICK v \in Value \X Value : v = s[j].reading
    BY <2>1 DEF Messages, Value
  <2>3. b = Append(a, v)
    BY <2>2, Zenon
  <2>4. /\ Append(a, v) \in Seq(Value \X Value) /\ Append(a, v) # <<>>
        /\ Len(Append(a, v)) = Len(a) + 1
        /\ \A i \in 1..Len(a) : Append(a, v)[i] = a[i]
        /\ Append(a, v)[Len(a) + 1] = v
    <3>1. \A u \in Value \X Value :
             /\ Append(a, u) \in Seq(Value \X Value) /\ Append(a, u) # <<>>
             /\ Len(Append(a, u)) = Len(a) + 1
             /\ \A i \in 1..Len(a) : Append(a, u)[i] = a[i]
             /\ Append(a, u)[Len(a) + 1] = u
      BY AppendProperties
    <3> QED BY <3>1, Zenon
  <2> HIDE DEF b
  <2> QED BY <2>2, <2>3, <2>4
<1>4. /\ \A i \in 1..Len(a) : w[i] = which[i]
      /\ w[Len(a) + 1] = j
      /\ DOMAIN w = 1..Len(a) + 1
  BY <1>3
<1> HIDE DEF w, b, e, last
<1>5. last < j
  <2> SUFFICES ASSUME last >= j PROVE FALSE
    BY <1>1
  <2>1. j \in 0..Len(s) /\ j - 1 \in 0..Len(s) /\ j <= last
    BY <1>1, <1>2
  <2>2. e[j] <= e[last]
    BY <1>1, <1>2, <2>1
  <2>3. e[j] >= e[j - 1] + 7 /\ e[j - 1] = p
    BY <1>2 DEF e
  <2>4. e[j] \in Nat /\ e[last] \in Nat
    BY <1>1, <1>2, <2>1
  <2> QED BY <1>0, <2>2, <2>3, <2>4
<1>6. InOrder(s, b, w)
  <2>1. w \in [DOMAIN b -> Readings(s)]
    <3>1. j \in Readings(s)
      BY <1>2, PlainReadings DEF Readings
    <3>2. \A i \in 1..Len(a) : which[i] \in Readings(s)
      BY <1>0, <1>3 DEF InOrder
    <3>3. w = [i \in DOMAIN b |-> w[i]]
      BY DEF w
    <3>4. \A i \in DOMAIN b : w[i] \in Readings(s)
      BY <1>3, <1>4, <3>1, <3>2
    <3> QED BY <3>3, <3>4
  <2>2. ASSUME NEW i \in DOMAIN b, NEW k \in DOMAIN b, i < k PROVE w[i] < w[k]
    <3>1. i \in 1..Len(a) /\ (k \in 1..Len(a) \/ k = Len(a) + 1)
      BY <1>3, <2>2
    <3>2. CASE k \in 1..Len(a)
      BY <1>0, <1>3, <1>4, <2>2, <3>1, <3>2 DEF InOrder
    <3>3. CASE k = Len(a) + 1
      BY <1>1, <1>3, <1>4, <1>5, <3>1, <3>3
    <3> QED BY <3>1, <3>2, <3>3
  <2>3. ASSUME NEW i \in DOMAIN b PROVE b[i] = s[w[i]].reading
    <3>1. CASE i \in 1..Len(a)
      BY <1>0, <1>3, <1>4, <3>1 DEF InOrder
    <3>2. CASE i = Len(a) + 1
      BY <1>3, <1>4, <3>2
    <3> QED BY <1>3, <3>1, <3>2
  <2> QED BY <2>1, <2>2, <2>3 DEF InOrder
<1>7. LastOf(b, w) = j
  BY <1>3, <1>4 DEF LastOf
<1>8. e[j] <= q /\ q <= e[j] + 1 /\ q \in Nat
  <2>1. j \in 0..Len(s)
    BY <1>2
  <2> QED BY <1>2, <2>1 DEF e
<1>9. FirstTaken(s, q, b, w)
  <2> SUFFICES ASSUME s # <<>>, IsReading(s[1]) PROVE w[1] = 1
    BY <1>3 DEF FirstTaken
  <2>1. CASE a = <<>>
    <3>1. p = 0 /\ Len(a) = 0
      BY <1>0, <2>1 DEF FirstTaken
    <3>2. 1 \in 1..Len(s) /\ Packet(s[1])
      BY <1>2, PlainReadings, EmptySeq
    <3>3. e[1] >= e[0] + 7 /\ e[0] = 0
      BY <1>2, <3>2, MessageLayout DEF e
    <3>4. j = 1
      <4> SUFFICES ASSUME j # 1 PROVE FALSE
        OBVIOUS
      <4>1. j - 1 \in 0..Len(s) /\ 1 \in 0..Len(s) /\ 1 <= j - 1
        BY <1>2
      <4>2. e[1] <= e[j - 1] /\ e[j - 1] = 0
        BY <1>2, <3>1, <4>1 DEF e
      <4> QED BY <1>2, <3>3, <4>1, <4>2
    <3> QED BY <1>4, <3>1, <3>4
  <2>2. CASE a # <<>>
    <3>1. which[1] = 1 /\ 1 \in 1..Len(a)
      BY <1>0, <1>3, <2>2, EmptySeq DEF FirstTaken
    <3> QED BY <1>4, <3>1
  <2> QED BY <2>1, <2>2
<1>10. NoneMissed(s, q, b, w)
  <2> SUFFICES ASSUME \A i \in DOMAIN s : IsReading(s[i])
               PROVE  /\ \A i \in 1..j - 1 : \E k \in DOMAIN b : w[k] \in {i, i + 1}
                      /\ j < Len(s) => q <= e[j + 1]
    BY <1>7 DEF NoneMissed, e
  <2>1. \A i \in 1..Len(s) : e[i] >= e[i - 1] + 7
    BY <1>2, PlainReadings
  <2>2. /\ \A i \in 1..last - 1 : \E k \in DOMAIN a : which[k] \in {i, i + 1}
        /\ last < Len(s) => p <= e[last + 1]
    BY <1>0 DEF NoneMissed, e, last
  <2>3. j <= last + 2
    <3> SUFFICES ASSUME j > last + 2 PROVE FALSE
      BY <1>1
    <3>1. last + 1 \in 0..Len(s) /\ last + 2 \in 1..Len(s) /\ j - 1 \in 0..Len(s) /\ last + 2 \in 0..Len(s)
      BY <1>1, <1>2
    <3>2. e[last + 2] >= e[(last + 2) - 1] + 7 /\ (last + 2) - 1 = last + 1
      BY <1>1, <2>1, <3>1
    <3>3. e[last + 2] <= e[j - 1] /\ e[j - 1] = p
      <4>1. last + 2 <= j - 1
        BY <1>1, <1>2
      <4> QED BY <1>2, <3>1, <4>1 DEF e
    <3>4. p <= e[last + 1] /\ e[last + 1] \in Nat /\ e[last + 2] \in Nat
      BY <1>1, <1>2, <2>2, <3>1
    <3> QED BY <3>2, <3>3, <3>4
  <2>4. ASSUME NEW i \in 1..j - 1 PROVE \E k \in DOMAIN b : w[k] \in {i, i + 1}
    <3>1. CASE i \in 1..last - 1
      <4> PICK k \in DOMAIN a : which[k] \in {i, i + 1}
        BY <2>2, <3>1
      <4> QED BY <1>3, <1>4
    <3>2. CASE i = last
      <4>1. a # <<>> /\ last = which[Len(a)] /\ Len(a) \in 1..Len(a)
        BY <1>3, <3>2, EmptySeq DEF last, LastOf
      <4>2. w[Len(a)] = i
        BY <1>4, <3>2, <4>1, Zenon
      <4>3. Len(a) \in DOMAIN b
        BY <1>3, <4>1
      <4> QED BY <4>2, <4>3
    <3>3. CASE i = last + 1
      <4>1. j = i + 1
        BY <1>1, <1>2, <2>3, <3>3
      <4>2. Len(a) + 1 \in DOMAIN b /\ w[Len(a) + 1] = i + 1
        BY <1>3, <1>4, <4>1
      <4> QED BY <4>2
    <3> QED BY <1>1, <1>2, <2>3, <3>1, <3>2, <3>3
  <2>5. ASSUME j < Len(s) PROVE q <= e[j + 1]
    <3>1. j + 1 \in 1..Len(s) /\ (j + 1) - 1 = j /\ j \in 0..Len(s) /\ j + 1 \in 0..Len(s)
      BY <1>2, <2>5
    <3>2. e[j + 1] >= e[(j + 1) - 1] + 7
      BY <2>1, <3>1
    <3>3. e[j + 1] \in Nat /\ e[j] \in Nat
      BY <1>2, <3>1
    <3> QED BY <1>8, <3>1, <3>2, <3>3
  <2> QED BY <2>4, <2>5
<1>11. e[LastOf(b, w)] <= q
  BY <1>7, <1>8
<1> QED BY <1>6, <1>9, <1>10, <1>11 DEF Passed, e, b

-----------------------------------------------------------------------------
(* What unpacktlv makes of a header byte on such a connection.              *)

(* Message j of the connection starts at buf[current].                      *)
StartsHere(j) ==
    /\ Ends(sent)[j - 1] = Off + current
    /\ sent[j].bytes \in Seq(Bytes) /\ Len(sent[j].bytes) >= 1
    /\ sent[j].bytes[1] = PACK_HEADER
    /\ \A k \in 1..Len(sent[j].bytes) : k <= Avail => buf[current + k - 1] = sent[j].bytes[k]

LEMMA AtHeader ==
    ASSUME TypeOK, Held, Plain(sent), Header
    PROVE  Off + current < Len(Stream) /\ \E j \in 1..Len(sent) : StartsHere(j)
<1>1. /\ remain \in 0..BufSize /\ BufSize \in 12..125 /\ current \in Nat
      /\ sent \in Seq(Messages) /\ Len(Stream) \in Nat /\ Len(wire) \in Nat
      /\ current < remain /\ buf[current] = PACK_HEADER /\ Off \in Nat
  BY StreamTyped DEF TypeOK, Header, Held
<1>2. Off + remain <= Len(Stream)
  <2>1. Off = Len(Stream) - Len(wire) - remain
    BY DEF Off
  <2> HIDE DEF Off
  <2> QED BY <1>1, <2>1
<1> DEFINE p == Off + current + 1
<1>3. p \in 1..Len(Stream) /\ p - 1 = Off + current
  BY <1>1, <1>2
<1>4. Stream[p] = PACK_HEADER
  <2>1. current \in 0..remain - 1
    BY <1>1
  <2> QED BY <1>1, <2>1 DEF Held
<1>5. Off + current < Len(Stream)
  BY <1>1, <1>2
<1> HIDE DEF p
<1>6. PICK j \in 1..Len(sent) :
          /\ Ends(sent)[j - 1] = p - 1 /\ Ends(sent)[j] >= p
          /\ sent[j].bytes \in Seq(Bytes) /\ Len(sent[j].bytes) >= 1
          /\ sent[j].bytes[1] = PACK_HEADER
  BY <1>1, <1>3, <1>4, HeaderAt DEF Stream
<1>7. ASSUME NEW k \in 1..Len(sent[j].bytes), k <= Avail
      PROVE  buf[current + k - 1] = sent[j].bytes[k]
  <2>1. Stream[Ends(sent)[j - 1] + k] = sent[j].bytes[k]
    BY <1>1, MessageLayout DEF Stream
  <2>2. k \in Nat /\ k >= 1
    BY <1>6
  <2>3. current + k - 1 \in 0..remain - 1
    BY <1>1, <1>7, <2>2 DEF Avail
  <2>4. buf[current + k - 1] = Stream[Off + (current + k - 1) + 1]
    BY <2>3 DEF Held
  <2>5. Off + (current + k - 1) + 1 = Ends(sent)[j - 1] + k
    BY <1>1, <1>3, <1>6, <2>2
  <2> QED BY <2>1, <2>4, <2>5
<1>8. StartsHere(j)
  BY <1>3, <1>6, <1>7 DEF StartsHere
<1> QED BY <1>5, <1>8

(* A packet that is there in whole is found to be one.                      *)
LEMMA PacketJudged ==
    ASSUME TypeOK, Header, ~Partial, NEW j \in 1..Len(sent), StartsHere(j), Packet(sent[j])
    PROVE  /\ Length = Len(sent[j].bytes) /\ Length \in 7..12
           /\ Length <= Avail => ~TooLong /\ ~MayFail
           /\ buf[current + 1] = TEMPRATURE
           /\ <<signed(buf[current + 3]), signed(buf[current + 4])>> = sent[j].reading
<1> DEFINE b == sent[j].bytes
           n == Len(b)
<1>1. /\ remain \in 0..BufSize /\ BufSize \in 12..125 /\ current \in Nat
      /\ Avail \in Int /\ Avail >= 6 /\ Avail = remain - current
  BY BufSizeAssumption DEF TypeOK, Partial, Avail
<1>2. /\ n \in 7..12 /\ b[2] = TEMPRATURE /\ b[3] = n /\ b \in Seq(Bytes)
      /\ Crc(SubSeq(b, 1, n - 2)) = bytes_to_ushort(SubSeq(b, n - 1, n))
      /\ sent[j].reading = <<signed(b[4]), signed(b[5])>>
  BY DEF Packet, StartsHere
<1>3. \A k \in 1..n : k <= Avail => buf[current + k - 1] = b[k]
  BY DEF StartsHere
<1> HIDE DEF n, b
<1>4. /\ buf[current + 1] = b[2] /\ buf[current + 2] = b[3]
      /\ buf[current + 3] = b[4] /\ buf[current + 4] = b[5]
  <2>1. /\ 2 \in 1..n /\ 3 \in 1..n /\ 4 \in 1..n /\ 5 \in 1..n
    BY <1>2
  <2>2. /\ current + 2 - 1 = current + 1 /\ current + 3 - 1 = current + 2
        /\ current + 4 - 1 = current + 3 /\ current + 5 - 1 = current + 4
    BY <1>1
  <2>3. 2 <= Avail /\ 3 <= Avail /\ 4 <= Avail /\ 5 <= Avail
    BY <1>1
  <2> QED BY <1>3, <2>1, <2>2, <2>3
<1>5. Length = n
  BY <1>2, <1>4 DEF Length, signed
<1>6. ASSUME n <= Avail PROVE ~TooLong /\ ~MayFail
  <2>1. ~TooLong
    <3>1. \A x \in 7..12 : (x - 5) % 256 = x - 5 /\ x - 5 <= 7
      OBVIOUS
    <3>2. (n - 5) % 256 = n - 5 /\ n - 5 <= 7 /\ n \in Int
      <4>1. n \in 7..12
        BY <1>2
      <4>2. (n - 5) % 256 = n - 5 /\ n - 5 <= 7
        BY <3>1, <4>1, Zenon
      <4> QED BY <4>1, <4>2
    <3>3. TooLong => (n - 5) % 256 > BufSize - 3
      BY <1>5 DEF TooLong, byte
    <3>4. ~((n - 5) % 256 > BufSize - 3)
      BY <1>1, <3>2
    <3> QED BY <3>3, <3>4
  <2>2. ~Overread
    BY <1>1, <1>2, <1>5, <1>6 DEF Overread
  <2>3. Window(current, n - 2) = SubSeq(b, 1, n - 2)
    <3>1. /\ SubSeq(b, 1, n - 2) = [k \in 1..n - 2 |-> SubSeq(b, 1, n - 2)[k]]
          /\ \A k \in 1..n - 2 : SubSeq(b, 1, n - 2)[k] = b[k]
      BY <1>2 DEF n
    <3>2. ASSUME NEW k \in 1..n - 2 PROVE buf[current + k - 1] = b[k]
      BY <1>1, <1>2, <1>3, <1>6
    <3> QED BY <3>1, <3>2 DEF Window
  <2>4. Window(current + n - 2, 2) = SubSeq(b, n - 1, n)
    <3>1. /\ SubSeq(b, n - 1, n) = [k \in 1..2 |-> SubSeq(b, n - 1, n)[k]]
          /\ \A k \in 1..2 : SubSeq(b, n - 1, n)[k] = b[n - 2 + k]
      <4>1. /\ n - 1 \in 1..Len(b) + 1 /\ n \in n - 2..Len(b) /\ n - (n - 1) + 1 = 2
            /\ \A k \in 1..2 : (n - 1) + k - 1 = n - 2 + k
        BY <1>2 DEF n
      <4> DEFINE m == n - 1
      <4>2. n = m + 1 /\ m \in Nat /\ m >= 1
        BY <1>2
      <4> HIDE DEF m
      <4>3. m + 1 <= Len(b)
        BY <1>2, <4>2 DEF n
      <4>4. SubSeq(b, m, m + 1) = [k \in 1..2 |-> b[m + k - 1]]
        BY <1>2, <4>2, <4>3
      <4> QED BY <4>1, <4>2, <4>4 DEF m
    <3>2. ASSUME NEW k \in 1..2 PROVE buf[(current + n - 2) + k - 1] = b[n - 2 + k]
      <4>1. n - 2 + k \in 1..n /\ n - 2 + k <= Avail
        BY <1>1, <1>2, <1>6
      <4>2. current + (n - 2 + k) - 1 = (current + n - 2) + k - 1
        BY <1>1, <1>2
      <4> QED BY <1>3, <4>1, <4>2
    <3> QED BY <3>1, <3>2 DEF Window
  <2>5. CrcMatches
    BY <1>2, <1>5, <2>3, <2>4 DEF CrcMatches
  <2> QED BY <2>1, <2>2, <2>5 DEF MayFail
<1> QED BY <1>2, <1>4, <1>5, <1>6 DEF n, b

-----------------------------------------------------------------------------
(* No reading is invented, and no two readings in a row are passed over.    *)

(* How far the scan is in the stream.                                       *)
Pos == Off + IF at = "scan" THEN IF current < remain THEN current ELSE remain ELSE 0

PlainInv ==
    Plain(sent) => \E which : /\ InOrder(sent, accepted, which)
                              /\ Served => Passed(sent, Pos, accepted, which)

SInv == IInv /\ HeldInv /\ PlainInv

LEMMA NothingPassed ==
    ASSUME NEW s \in Seq(Messages)
    PROVE  \E which : Passed(s, 0, <<>>, which)
<1> DEFINE w == [i \in DOMAIN <<>> |-> i]
<1>1. DOMAIN <<>> = {}
  OBVIOUS
<1>2. InOrder(s, <<>>, w)
  BY <1>1 DEF InOrder
<1>3. LastOf(<<>>, w) = 0
  BY DEF LastOf
<1>4. Ends(s)[0] = 0 /\ Ends(s) \in [0..Len(s) -> Nat] /\ Len(s) \in Nat
  BY MessageLayout
<1> HIDE DEF w
<1>5. FirstTaken(s, 0, <<>>, w)
  BY DEF FirstTaken
<1>6. NoneMissed(s, 0, <<>>, w)
  <2>1. 1..0 - 1 = {}
    OBVIOUS
  <2>2. 0 < Len(s) => 0 <= Ends(s)[0 + 1]
    BY <1>4
  <2> QED BY <1>3, <2>1, <2>2 DEF NoneMissed
<1>7. Passed(s, 0, <<>>, w)
  BY <1>2, <1>3, <1>4, <1>5, <1>6 DEF Passed
<1> QED BY <1>7

LEMMA PosType ==
    ASSUME TypeOK, Held
    PROVE  /\ Pos \in Nat /\ Off \in Nat /\ Off + remain <= Len(Stream) /\ Len(Stream) \in Nat
           /\ remain \in 0..BufSize /\ BufSize \in 12..125 /\ current \in Nat
           /\ Len(wire) \in Nat
<1>1. /\ remain \in 0..BufSize /\ BufSize \in 12..125 /\ current \in Nat
      /\ Len(Stream) \in Nat /\ Len(wire) \in Nat /\ Off \in Nat
  BY StreamTyped DEF Held
<1>2. Off = Len(Stream) - Len(wire) - remain
  BY DEF Off
<1> HIDE DEF Off
<1> QED BY <1>1, <1>2 DEF Pos

(* Steps that pass over nothing.                                            *)
LEMMA PlainSame ==
    ASSUME PlainInv, Served, UNCHANGED <<sent, accepted>>, Pos' = Pos
    PROVE  PlainInv'
<1> SUFFICES ASSUME Plain(sent)
             PROVE  \E which : /\ InOrder(sent, accepted, which)
                               /\ Passed(sent, Pos, accepted, which)
  BY DEF PlainInv
<1> QED BY DEF PlainInv

(* Steps that pass over one byte.                                           *)
LEMMA PlainStep ==
    ASSUME TypeOK, PlainInv, Held, at = "scan", UNCHANGED <<sent, accepted>>,
           Pos = Off + current, Pos' = Pos + 1,
           Pos < Len(Stream),
           Plain(sent) => \A j \in 1..Len(sent) : Packet(sent[j]) => Ends(sent)[j - 1] # Off + current
    PROVE  PlainInv'
<1> SUFFICES ASSUME Plain(sent)
             PROVE  \E which : /\ InOrder(sent, accepted, which)
                               /\ Passed(sent, Pos + 1, accepted, which)
  BY DEF PlainInv
<1>1. PICK which : InOrder(sent, accepted, which) /\ Passed(sent, Pos, accepted, which)
  BY DEF PlainInv, Served
<1>2. sent \in Seq(Messages) /\ accepted \in Seq(Value \X Value) /\ Pos \in Nat
  BY PosType DEF TypeOK, Value
<1>3. Pos < Len(Carried(sent))
  BY DEF Stream
<1>4. \A j \in 1..Len(sent) : Packet(sent[j]) => Ends(sent)[j - 1] # Pos
  OBVIOUS
<1>5. Passed(sent, Pos + 1, accepted, which)
  BY <1>1, <1>2, <1>3, <1>4, NotTaken
<1> QED BY <1>1, <1>5

LEMMA PlainInit == Init => HeldInv /\ PlainInv
<1> SUFFICES ASSUME Init PROVE HeldInv /\ PlainInv
  OBVIOUS
<1>1. at = "accept" /\ sent = <<>> /\ accepted = <<>>
  BY DEF Init
<1>2. sent \in Seq(Messages)
  BY <1>1
<1>3. PICK which : Passed(sent, 0, accepted, which)
  BY <1>1, <1>2, NothingPassed
<1> QED BY <1>1, <1>3 DEF Passed, HeldInv, PlainInv, Served

(* The branches that go on at the next byte.                                *)
LEMMA PlainNext1 ==
    ASSUME TypeOK, HeldInv, PlainInv, NoHeader \/ LengthWrong \/ CrcWrong
    PROVE  PlainInv'
<1>1. /\ at = "scan" /\ at' = "scan" /\ current < remain /\ current' = current + 1
      /\ UNCHANGED <<buf, remain, wire, sent, accepted>>
  BY DEF NoHeader, LengthWrong, CrcWrong, Judged, Header, Next1, buffer, conn
<1>2. Held
  BY <1>1 DEF HeldInv, Served
<1>3. /\ Pos \in Nat /\ Off \in Nat /\ Off + remain <= Len(Stream) /\ Len(Stream) \in Nat
      /\ remain \in Nat /\ current \in Nat
  BY <1>2, PosType
<1>4. Off' = Off
  BY <1>1, <1>2, HeldSame
<1>5. Pos = Off + current
  BY <1>1 DEF Pos
<1>6. Pos' = Pos + 1
  <2>1. Pos' = Off' + IF current' < remain' THEN current' ELSE remain'
    BY <1>1 DEF Pos
  <2> QED BY <1>1, <1>3, <1>4, <1>5, <2>1
<1>7. Pos < Len(Stream)
  BY <1>1, <1>3, <1>5
<1>8. ASSUME Plain(sent), NEW j \in 1..Len(sent), Packet(sent[j]), Ends(sent)[j - 1] = Off + current
      PROVE  FALSE
  <2>0. sent \in Seq(Messages)
    BY DEF TypeOK
  <2>1. Header
    <3>1. CASE NoHeader
      <4>1. /\ Stream[Ends(sent)[j - 1] + 1] = sent[j].bytes[1]
            /\ sent[j].bytes[1] = PACK_HEADER
        <5>1. 1 \in 1..Len(sent[j].bytes)
          <6>1. Len(sent[j].bytes) \in 7..12
            BY <1>8 DEF Packet
          <6>2. \A n \in 7..12 : 1 \in 1..n
            OBVIOUS
          <6> QED BY <6>1, <6>2, Zenon
        <5> QED BY <1>8, <2>0, <5>1, MessageLayout DEF Stream, Packet
      <4>2. buf[current] = Stream[Off + current + 1]
        <5>1. current \in 0..remain - 1
          BY <1>1, <1>3
        <5> QED BY <1>2, <5>1 DEF Held
      <4> QED BY <1>8, <3>1, <4>1, <4>2 DEF NoHeader
    <3>2. CASE LengthWrong \/ CrcWrong
      BY <3>2 DEF LengthWrong, CrcWrong, Judged
    <3> QED BY <3>1, <3>2
  <2>2. ~Partial /\ ~Awaited /\ (TooLong \/ MayFail)
    BY <2>1 DEF NoHeader, LengthWrong, CrcWrong, Judged, Header
  <2>3. PICK i \in 1..Len(sent) : StartsHere(i)
    BY <1>2, <1>8, <2>1, AtHeader
  <2>4. i = j
    <3>1. Ends(sent)[i - 1] = Off + current /\ sent[i].bytes \in Seq(Bytes) /\ Len(sent[i].bytes) >= 1
      BY <2>3 DEF StartsHere
    <3>2. /\ Ends(sent)[i] = Ends(sent)[i - 1] + Len(sent[i].bytes)
          /\ \A k, m \in 0..Len(sent) : k <= m => Ends(sent)[k] <= Ends(sent)[m]
          /\ Len(sent) \in Nat /\ \A k \in 0..Len(sent) : Ends(sent)[k] \in Nat
      BY <2>0, MessageLayout, EndsOrder
    <3>3. Ends(sent)[j] >= Ends(sent)[j - 1] + 7
      BY <1>8, <2>0, EndsOrder
    <3>4. i \in 0..Len(sent) /\ j \in 0..Len(sent) /\ i - 1 \in 0..Len(sent) /\ j - 1 \in 0..Len(sent)
      BY <3>2
    <3>5. Ends(sent)[i] \in Nat /\ Ends(sent)[i] >= Off + current + 1
      <4>1. Len(sent[i].bytes) \in Nat /\ Len(sent[i].bytes) >= 1
        BY <3>1
      <4>2. Ends(sent)[i] = Off + current + Len(sent[i].bytes)
        BY <3>1, <3>2
      <4>3. \A x, y, n \in Nat : n >= 1 => x + y + n \in Nat /\ x + y + n >= x + y + 1
        OBVIOUS
      <4>4. /\ Off + current + Len(sent[i].bytes) \in Nat
            /\ Off + current + Len(sent[i].bytes) >= Off + current + 1
        BY <1>3, <4>1, <4>3
      <4> QED BY <4>2, <4>4
    <3>6. Ends(sent)[j] \in Nat /\ Ends(sent)[j] >= Off + current + 1
      <4>1. Ends(sent)[j] \in Nat
        BY <3>2, <3>4
      <4>2. Ends(sent)[j] >= Off + current + 7
        BY <1>8, <3>3
      <4>3. \A x, y, z \in Nat : z >= x + y + 7 => z >= x + y + 1
        OBVIOUS
      <4> QED BY <1>3, <4>1, <4>2, <4>3
    <3>7. ~(i < j)
      <4> SUFFICES ASSUME i < j PROVE FALSE
        OBVIOUS
      <4>1. i <= j - 1
        BY <3>2
      <4>2. Ends(sent)[i] <= Ends(sent)[j - 1]
        BY <3>2, <3>4, <4>1
      <4> QED BY <1>3, <1>8, <3>5, <4>2
    <3>8. ~(j < i)
      <4> SUFFICES ASSUME j < i PROVE FALSE
        OBVIOUS
      <4>1. j <= i - 1
        BY <3>2
      <4>2. Ends(sent)[j] <= Ends(sent)[i - 1]
        BY <3>2, <3>4, <4>1
      <4> QED BY <1>3, <3>1, <3>6, <4>2
    <3> QED BY <3>2, <3>7, <3>8
  <2>5. /\ Length \in 7..12 /\ (Length <= Avail => ~TooLong /\ ~MayFail)
    BY <1>8, <2>1, <2>2, <2>3, <2>4, PacketJudged
  <2>6. Length <= Avail
    <3>1. Avail \in Int
      BY <1>3 DEF Avail
    <3>2. ~(Length > Avail) \/ ~(Length - 5 < 8)
      BY <2>2 DEF Awaited
    <3> QED BY <2>5, <3>1, <3>2
  <2> QED BY <2>2, <2>5, <2>6
<1> HIDE DEF Pos
<1> QED BY <1>1, <1>2, <1>5, <1>6, <1>7, <1>8, PlainStep

(* Something of another kind starts like a packet, but has another tag.     *)
LEMMA OtherTag ==
    ASSUME TypeOK, Header, ~Partial, NEW j \in 1..Len(sent), StartsHere(j), Other(sent[j])
    PROVE  buf[current + 1] # TEMPRATURE
<1>1. current \in Nat /\ Avail \in Int /\ Avail >= 6
  BY BufSizeAssumption DEF TypeOK, Partial, Avail
<1>2. /\ sent[j].bytes \in Seq(Bytes) /\ Len(sent[j].bytes) >= 1
      /\ sent[j].bytes[1] = PACK_HEADER
  BY DEF StartsHere
<1>3. sent[j].bytes # <<>>
  BY <1>2
<1>4. Len(sent[j].bytes) >= 2 /\ sent[j].bytes[2] # TEMPRATURE
  BY <1>2, <1>3 DEF Other
<1>5. buf[current + 2 - 1] = sent[j].bytes[2]
  <2>1. 2 \in 1..Len(sent[j].bytes) /\ 2 <= Avail
    BY <1>1, <1>2, <1>4
  <2> QED BY <2>1 DEF StartsHere
<1>6. current + 2 - 1 = current + 1
  BY <1>1
<1> QED BY <1>4, <1>5, <1>6

LEMMA PlainUnknownTag ==
    ASSUME TypeOK, HeldInv, PlainInv, UnknownTag
    PROVE  PlainInv'
<1>1. /\ at = "scan" /\ at' = "scan" /\ current < remain /\ current' = 1 /\ Shift(current)
      /\ UNCHANGED <<wire, sent, accepted>> /\ Header /\ ~Partial
      /\ buf[current + 1] # TEMPRATURE
  BY DEF UnknownTag, Judged, Header, conn
<1>2. Held
  BY <1>1 DEF HeldInv, Served
<1>3. /\ Pos \in Nat /\ Off \in Nat /\ Off + remain <= Len(Stream) /\ Len(Stream) \in Nat
      /\ remain \in Nat /\ current \in Nat
  BY <1>2, PosType
<1>4. Off' = Off + current /\ remain' = remain - current
  <2>1. current \in 0..remain
    BY <1>1, <1>3
  <2> QED BY <1>1, <1>2, <2>1, HeldShift DEF Shift
<1>5. Pos = Off + current
  BY <1>1 DEF Pos
<1>6. Pos' = Pos + 1
  <2>1. Pos' = Off' + IF current' < remain' THEN current' ELSE remain'
    BY <1>1 DEF Pos
  <2>2. remain - current >= 6
    BY <1>1, <1>3 DEF Partial, Avail
  <2> QED BY <1>1, <1>3, <1>4, <1>5, <2>1, <2>2
<1>7. Pos < Len(Stream)
  BY <1>1, <1>3, <1>5
<1>8. ASSUME Plain(sent), NEW j \in 1..Len(sent), Packet(sent[j]), Ends(sent)[j - 1] = Off + current
      PROVE  FALSE
  <2>0. sent \in Seq(Messages)
    BY DEF TypeOK
  <2>1. /\ Stream[Ends(sent)[j - 1] + 2] = sent[j].bytes[2]
        /\ sent[j].bytes[2] = TEMPRATURE
    <3>1. 2 \in 1..Len(sent[j].bytes)
      <4>1. Len(sent[j].bytes) \in 7..12
        BY <1>8 DEF Packet
      <4>2. \A n \in 7..12 : 2 \in 1..n
        OBVIOUS
      <4> QED BY <4>1, <4>2, Zenon
    <3> QED BY <1>8, <2>0, <3>1, MessageLayout DEF Stream, Packet
  <2>2. buf[current + 1] = Stream[Off + (current + 1) + 1]
    <3>1. current + 1 \in 0..remain - 1
      BY <1>1, <1>3 DEF Partial, Avail
    <3> QED BY <1>2, <3>1 DEF Held
  <2>3. Off + (current + 1) + 1 = Off + current + 2
    BY <1>3
  <2> QED BY <1>1, <1>8, <2>1, <2>2, <2>3
<1> HIDE DEF Pos
<1> QED BY <1>1, <1>2, <1>5, <1>6, <1>7, <1>8, PlainStep

LEMMA PlainTemperature ==
    ASSUME TypeOK, HeldInv, PlainInv, Temperature
    PROVE  PlainInv'
<1>1. /\ at = "scan" /\ at' = "scan" /\ current < remain /\ current' = 1
      /\ Shift(current + Length) /\ UNCHANGED <<wire, sent>> /\ Header /\ ~Partial /\ Judged
      /\ buf[current + 1] = TEMPRATURE /\ Length <= remain - current
      /\ accepted' = Append(accepted, <<signed(buf[current + 3]), signed(buf[current + 4])>>)
  BY DEF Temperature, Printed, Judged, Header, Avail
<1>2. Held
  BY <1>1 DEF HeldInv, Served
<1>3. /\ Pos \in Nat /\ Off \in Nat /\ Off + remain <= Len(Stream) /\ Len(Stream) \in Nat
      /\ remain \in Nat /\ current \in Nat
  BY <1>2, PosType
<1>4. Length \in Nat /\ Length >= 5
  <2>1. Length \in Value /\ Length >= 5
    BY <1>1, JudgedLength, Zenon
  <2> QED BY <2>1 DEF Value
<1>5. Off' = Off + (current + Length) /\ remain' = remain - (current + Length)
  <2>1. current + Length \in 0..remain
    BY <1>1, <1>3, <1>4
  <2> QED BY <1>1, <1>2, <2>1, HeldShift DEF Shift
<1>6. Pos = Off + current
  BY <1>1 DEF Pos
<1>7. Pos' \in Pos + Length..Pos + Length + 1
  <2>1. Pos' = Off' + IF current' < remain' THEN current' ELSE remain'
    BY <1>1 DEF Pos
  <2> QED BY <1>1, <1>3, <1>4, <1>5, <1>6, <2>1
<1> SUFFICES ASSUME Plain(sent)
             PROVE  \E which : Passed(sent, Pos', accepted', which)
  BY <1>1 DEF PlainInv, Passed
<1>8. PICK which : Passed(sent, Pos, accepted, which)
  BY <1>1 DEF PlainInv, Served
<1>9. PICK j \in 1..Len(sent) : StartsHere(j)
  BY <1>1, <1>2, AtHeader
<1>10. Packet(sent[j])
  <2>1. ~Other(sent[j])
    BY <1>1, <1>9, OtherTag
  <2>2. j \in DOMAIN sent
    BY DEF TypeOK
  <2> QED BY <2>1, <2>2 DEF Plain
<1>11. /\ Length = Len(sent[j].bytes)
       /\ <<signed(buf[current + 3]), signed(buf[current + 4])>> = sent[j].reading
  BY <1>1, <1>9, <1>10, PacketJudged
<1>12. Ends(sent)[j - 1] = Pos /\ Ends(sent)[j] = Pos + Length
  <2>1. sent \in Seq(Messages)
    BY DEF TypeOK
  <2>2. Ends(sent)[j] = Ends(sent)[j - 1] + Len(sent[j].bytes)
    BY <2>1, MessageLayout
  <2>3. Ends(sent)[j - 1] = Off + current
    BY <1>9 DEF StartsHere
  <2> QED BY <1>6, <1>11, <2>2, <2>3
<1>13. Pos' \in Ends(sent)[j]..Ends(sent)[j] + 1
  BY <1>7, <1>12
<1>14. accepted' = Append(accepted, sent[j].reading)
  BY <1>1, <1>11
<1>15. sent \in Seq(Messages) /\ accepted \in Seq(Value \X Value)
  BY DEF TypeOK, Value
<1> QED BY <1>3, <1>8, <1>10, <1>12, <1>13, <1>14, <1>15, Taken

(* On such a connection no packet reaches beyond what was read.             *)
LEMMA PlainNegative ==
    ASSUME TypeOK, HeldInv, Negative
    PROVE  PlainInv'
<1>1. /\ at = "scan" /\ UNCHANGED sent /\ Header /\ ~Partial /\ ~Awaited
      /\ buf[current + 1] = TEMPRATURE /\ Length > Avail
  BY DEF Negative, Printed, Judged, Header
<1>2. Held
  BY <1>1 DEF HeldInv, Served
<1> SUFFICES ASSUME Plain(sent) PROVE FALSE
  BY <1>1 DEF PlainInv
<1>3. PICK j \in 1..Len(sent) : StartsHere(j)
  BY <1>1, <1>2, AtHeader
<1>4. Packet(sent[j])
  <2>1. ~Other(sent[j])
    BY <1>1, <1>3, OtherTag
  <2>2. j \in DOMAIN sent
    BY DEF TypeOK
  <2> QED BY <2>1, <2>2 DEF Plain
<1>5. Length \in 7..12
  BY <1>1, <1>3, <1>4, PacketJudged
<1> QED BY <1>1, <1>5 DEF Awaited

(* The rest: the connection, and the ends of unpacktlv.                     *)
LEMMA PlainConn ==
    ASSUME PlainInv, Accept \/ AcceptFails \/ Disconnect \/ Overrun
    PROVE  PlainInv'
<1>1. CASE Accept
  <2>1. sent' \in Seq(Messages) /\ accepted' = <<>> /\ at' = "read"
    BY <1>1, StreamsAssumption DEF Accept
  <2>2. PICK which : Passed(sent', 0, accepted', which)
    BY <2>1, NothingPassed
  <2>3. Pos' = 0
    <3>1. Off' = 0
      BY <1>1, HeldStart
    <3> QED BY <2>1, <3>1 DEF Pos
  <2> HIDE DEF Pos
  <2> QED BY <2>2, <2>3 DEF PlainInv, Passed
<1>2. CASE Disconnect
  <2>1. sent' = <<>> /\ accepted' = <<>> /\ at' = "accept" /\ sent' \in Seq(Messages)
    BY <1>2 DEF Disconnect
  <2>2. PICK which : Passed(sent', 0, accepted', which)
    BY <2>1, NothingPassed
  <2> QED BY <2>1, <2>2 DEF PlainInv, Passed, Served
<1>3. CASE AcceptFails \/ Overrun
  BY <1>3 DEF AcceptFails, Overrun, PlainInv, Served, conn
<1> QED BY <1>1, <1>2, <1>3

LEMMA PlainEnds ==
    ASSUME TypeOK, HeldInv, PlainInv, Read \/ TooLittle \/ Enough \/ Keep \/ ScanEnd
    PROVE  PlainInv'
<1>0. Served /\ Held /\ UNCHANGED <<sent, accepted>>
  BY DEF HeldInv, Served, Read, TooLittle, Enough, Keep, ScanEnd, Header, conn
<1>1. /\ Off \in Nat /\ remain \in Nat /\ current \in Nat
  BY <1>0, PosType
<1>2. Pos' = Pos
  <2>1. CASE Read
    <3>1. Off' = Off
      BY <1>0, <2>1, HeldRead
    <3> QED BY <2>1, <3>1 DEF Read, Pos
  <2>2. CASE TooLittle
    <3>1. Off' = Off
      BY <1>0, <2>2, HeldSame DEF TooLittle, buffer, conn
    <3> QED BY <2>2, <3>1 DEF TooLittle, Pos
  <2>3. CASE Enough
    <3>1. Off' = Off /\ at = "unpack" /\ at' = "scan" /\ current' = 0 /\ remain' = remain /\ remain >= 6
      BY <1>0, <2>3, HeldSame DEF Enough, buffer, conn
    <3>2. Pos = Off + 0 /\ Pos' = Off' + 0
      BY <1>1, <3>1 DEF Pos
    <3> QED BY <3>1, <3>2
  <2>4. CASE Keep
    <3>1. current \in 0..remain - 1 /\ Shift(current) /\ at' = "read"
      BY <2>4, KeepWaits
    <3>2. Off' = Off + current
      <4>1. current \in 0..remain /\ UNCHANGED <<wire, sent>>
        BY <1>1, <2>4, <3>1 DEF Keep, conn
      <4> QED BY <1>0, <3>1, <4>1, HeldShift
    <3>3. at = "scan" /\ current < remain
      BY <2>4 DEF Keep, Header
    <3>4. Pos = Off + current /\ Pos' = Off' + 0
      BY <3>1, <3>3 DEF Pos
    <3> QED BY <1>1, <3>2, <3>4
  <2>5. CASE ScanEnd
    <3>1. Off' = Off + remain
      BY <1>0, <2>5, HeldEnd
    <3>2. at = "scan" /\ ~(current < remain) /\ at' = "read"
      BY <1>1, <2>5 DEF ScanEnd
    <3>3. Pos = Off + remain /\ Pos' = Off' + 0
      BY <3>2 DEF Pos
    <3> QED BY <1>1, <3>1, <3>3
  <2> QED BY <2>1, <2>2, <2>3, <2>4, <2>5
<1> HIDE DEF Pos
<1> QED BY <1>0, <1>2, PlainSame

LEMMA SInvNext == SInv /\ [Next]_vars => SInv'
<1> SUFFICES ASSUME SInv, [Next]_vars PROVE SInv'
  OBVIOUS
<1>0. IInv /\ HeldInv /\ PlainInv /\ TypeOK
  BY DEF SInv, IInv
<1>1. IInv'
  BY <1>0, InvNext
<1>2. CASE Next
  <2>1. HeldInv'
    BY <1>0, <1>2, HeldNext
  <2>2. PlainInv'
    BY <1>0, <1>2, PlainConn, PlainEnds, PlainNext1, PlainUnknownTag, PlainTemperature, PlainNegative
       DEF Next, unpacktlv
  <2> QED BY <1>1, <2>1, <2>2 DEF SInv
<1>3. CASE UNCHANGED vars
  <2>1. UNCHANGED <<at, buf, remain, current, wire, sent, accepted>>
    BY <1>3 DEF vars, buffer, conn
  <2>2. HeldInv'
    BY <1>0, <2>1 DEF HeldInv, Held, Waiting, Served, Off, Stream
  <2>3. PlainInv'
    <3>1. Off' = Off
      BY <2>1 DEF Off, Stream
    <3>2. Pos' = Pos
      BY <2>1, <3>1 DEF Pos
    <3> HIDE DEF Pos
    <3> QED BY <1>0, <2>1, <3>2 DEF PlainInv, Served
  <2> QED BY <1>1, <2>2, <2>3 DEF SInv
<1> QED BY <1>2, <1>3

LEMMA SInvHolds == Spec => []SInv
<1>1. Init => SInv
  BY InvInit, PlainInit DEF SInv
<1> QED BY <1>1, SInvNext, PTL DEF Spec

(* However a connection of whole packets and other traffic is cut into      *)
(* reads: every reading accepted is one that was sent, none twice and none  *)
(* out of order.  (No exception is needed for a server that died: it does so*)
(* of longer packets.)                                                      *)
THEOREM NothingInvented == Spec => [](Plain(sent) => CarriedInOrder)
<1>1. SInv => (Plain(sent) => CarriedInOrder)
  BY DEF SInv, PlainInv, InOrder, CarriedInOrder
<1> QED BY <1>1, SInvHolds, PTL

(* What is not used when all has been read is too little for the packet     *)
(* that starts it.                                                          *)
LEMMA IdleRest ==
    ASSUME SInv, Plain(sent), Idle, NEW j \in 1..Len(sent), Packet(sent[j])
    PROVE  Off <= Ends(sent)[j - 1] =>
             \E i \in 1..Len(sent) : i <= j /\ Ends(sent)[i - 1] = Off /\ ~Packet(sent[i])
<1>0. TypeOK /\ Held /\ Waiting /\ at = "read" /\ wire = <<>>
  BY DEF SInv, IInv, HeldInv, Idle, Served
<1>1. /\ Off \in Nat /\ Len(Stream) \in Nat /\ remain \in 0..BufSize /\ BufSize \in 12..125
      /\ Len(wire) = 0
  BY <1>0, PosType
<1>2. Off + remain = Len(Stream)
  <2>1. Off = Len(Stream) - Len(wire) - remain
    BY DEF Off
  <2> HIDE DEF Off
  <2> QED BY <1>1, <2>1
<1>3. sent \in Seq(Messages)
  BY <1>0 DEF TypeOK
<1>4. /\ Len(sent) \in Nat /\ \A i \in 0..Len(sent) : Ends(sent)[i] \in Nat
      /\ \A i \in 0..Len(sent) : Ends(sent)[i] <= Len(Stream)
      /\ \A i \in 1..Len(sent) : Packet(sent[i]) => Ends(sent)[i] >= Ends(sent)[i - 1] + 7
      /\ \A i, k \in 0..Len(sent) : i <= k => Ends(sent)[i] <= Ends(sent)[k]
  BY <1>3, EndsOrder, MessageLayout DEF Stream
<1> SUFFICES ASSUME Off <= Ends(sent)[j - 1]
             PROVE  \E i \in 1..Len(sent) : i <= j /\ Ends(sent)[i - 1] = Off /\ ~Packet(sent[i])
  OBVIOUS
<1>5. remain >= 7
  <2>1. j \in 0..Len(sent) /\ j - 1 \in 0..Len(sent)
    BY <1>4
  <2>2. Ends(sent)[j] >= Ends(sent)[j - 1] + 7 /\ Ends(sent)[j] <= Len(Stream)
    BY <1>4, <2>1
  <2>3. Ends(sent)[j] \in Nat /\ Ends(sent)[j - 1] \in Nat
    BY <1>4, <2>1
  <2> QED BY <1>1, <1>2, <2>2, <2>3
<1>6. buf[0] = PACK_HEADER /\ remain < signed(buf[2])
  BY <1>0, <1>1, <1>5 DEF Waiting
<1>7. buf[0] = Stream[Off + 0 + 1] /\ buf[2] = Stream[Off + 2 + 1]
  <2>1. 0 \in 0..remain - 1 /\ 2 \in 0..remain - 1
    BY <1>1, <1>5
  <2> QED BY <1>0, <2>1 DEF Held
<1>8. Off + 1 \in 1..Len(Stream) /\ Off + 0 + 1 = Off + 1 /\ Off + 2 + 1 = Off + 3
  BY <1>1, <1>2, <1>5
<1>9. PICK i \in 1..Len(sent) : /\ Ends(sent)[i - 1] = (Off + 1) - 1
                                /\ Ends(sent)[i] >= Off + 1
  BY <1>3, <1>6, <1>7, <1>8, HeaderAt DEF Stream
<1>10. Ends(sent)[i - 1] = Off
  BY <1>1, <1>9
<1>11. ~Packet(sent[i])
  <2> SUFFICES ASSUME Packet(sent[i]) PROVE FALSE
    OBVIOUS
  <2>1. Len(sent[i].bytes) \in 7..12 /\ sent[i].bytes[3] = Len(sent[i].bytes)
    BY DEF Packet
  <2>2. \A n \in 7..12 : 3 \in 1..n /\ n \in Nat /\ n < 128
    OBVIOUS
  <2>3. 3 \in 1..Len(sent[i].bytes) /\ Len(sent[i].bytes) \in Nat /\ Len(sent[i].bytes) < 128
    BY <2>1, <2>2, Zenon
  <2>4. Stream[Ends(sent)[i - 1] + 3] = sent[i].bytes[3]
    BY <1>3, <2>3, MessageLayout DEF Stream
  <2>5. signed(buf[2]) = Len(sent[i].bytes)
    BY <1>7, <1>8, <1>10, <2>1, <2>3, <2>4 DEF signed
  <2>6. Ends(sent)[i] = Off + Len(sent[i].bytes)
    BY <1>3, <1>10, MessageLayout
  <2>7. Ends(sent)[i] <= Off + remain
    <3>1. i \in 0..Len(sent)
      BY <1>4
    <3> QED BY <1>2, <1>4, <3>1
  <2> QED BY <1>1, <1>6, <2>3, <2>5, <2>6, <2>7
<1>12. i <= j
  <2> SUFFICES ASSUME i > j PROVE FALSE
    BY <1>4
  <2>1. j <= i - 1 /\ j \in 0..Len(sent) /\ i - 1 \in 0..Len(sent) /\ j - 1 \in 0..Len(sent)
    BY <1>4
  <2>2. Ends(sent)[j] <= Ends(sent)[i - 1] /\ Ends(sent)[j] >= Ends(sent)[j - 1] + 7
    BY <1>4, <2>1
  <2>3. Ends(sent)[j] \in Nat /\ Ends(sent)[j - 1] \in Nat
    BY <1>4, <2>1
  <2> QED BY <1>1, <1>10, <2>2, <2>3
<1> QED BY <1>10, <1>11, <1>12

LEMMA SkipsFew ==
    ASSUME SInv, Plain(sent)
    PROVE  NoTwoSkipped
<1>1. sent \in Seq(Messages) /\ accepted \in Seq(Value \X Value) /\ TypeOK
  BY DEF SInv, IInv, TypeOK, Value
<1>2. Len(sent) \in Nat /\ DOMAIN sent = 1..Len(sent) /\ DOMAIN accepted = 1..Len(accepted)
  BY <1>1
<1>3. ASSUME Idle
      PROVE  Served /\ Held /\ Pos = Off
  <2>1. at = "read" /\ Served /\ Held
    BY <1>3 DEF Idle, SInv, HeldInv, Served
  <2>2. Off \in Nat
    BY <1>1, <2>1, PosType
  <2> QED BY <2>1, <2>2 DEF Pos
<1>4. ASSUME Idle
      PROVE  \E which : InOrder(sent, accepted, which) /\ Passed(sent, Pos, accepted, which)
  BY <1>3, <1>4 DEF SInv, PlainInv
<1>5. ASSUME Idle, sent # <<>>, IsAwaited(sent[1])
      PROVE  accepted # <<>> /\ accepted[1] = sent[1].reading
  <2>1. PICK which : InOrder(sent, accepted, which) /\ Passed(sent, Pos, accepted, which)
    BY <1>4, <1>5
  <2>2. 1 \in 1..Len(sent) /\ Packet(sent[1])
    BY <1>1, <1>2, <1>5, PlainReadings, EmptySeq DEF IsAwaited
  <2>3. accepted # <<>>
    <3> SUFFICES ASSUME accepted = <<>> PROVE FALSE
      OBVIOUS
    <3>1. Off = 0
      BY <1>3, <1>5, <2>1 DEF Passed, FirstTaken, IsAwaited
    <3>2. Ends(sent)[1 - 1] = 0
      BY <1>1, MessageLayout
    <3>3. PICK i \in 1..Len(sent) : i <= 1 /\ ~Packet(sent[i])
      BY <1>5, <2>2, <3>1, <3>2, IdleRest
    <3>4. i = 1
      BY <1>2, <3>3
    <3> QED BY <2>2, <3>3, <3>4
  <2>4. which[1] = 1
    BY <1>5, <2>1, <2>3 DEF Passed, FirstTaken, IsAwaited
  <2>5. 1 \in DOMAIN accepted
    BY <1>1, <1>2, <2>3, EmptySeq
  <2> QED BY <2>1, <2>3, <2>4, <2>5 DEF InOrder
<1>6. ASSUME Idle, \A i \in DOMAIN sent : IsAwaited(sent[i]), NEW i \in 1..Len(sent) - 1
      PROVE  \E j \in i..i + 1 : sent[j].reading \in Range(accepted)
  <2>1. PICK which : InOrder(sent, accepted, which) /\ Passed(sent, Pos, accepted, which)
    BY <1>4, <1>6
  <2> DEFINE last == LastOf(accepted, which)
  <2>2. last \in 0..Len(sent)
    BY <1>1, <2>1, LastOfType
  <2>3. \A m \in 1..Len(sent) : Packet(sent[m])
    BY <1>2, <1>6, PlainReadings DEF IsAwaited
  <2>4. last < Len(sent) => Pos <= Ends(sent)[last + 1]
    BY <1>6, <2>1 DEF Passed, NoneMissed, IsAwaited
  <2>5. \A m \in 1..last - 1 : \E k \in DOMAIN accepted : which[k] \in {m, m + 1}
    BY <1>6, <2>1 DEF Passed, NoneMissed, IsAwaited
  <2> HIDE DEF last
  <2>6. i <= last
    <3> SUFFICES ASSUME last < i PROVE FALSE
      BY <1>2, <2>2
    <3>1. last + 2 \in 1..Len(sent) /\ (last + 2) - 1 = last + 1 /\ last < Len(sent)
      BY <1>2, <2>2
    <3>2. Off <= Ends(sent)[(last + 2) - 1]
      BY <1>3, <1>6, <2>4, <3>1
    <3> QED BY <1>6, <2>3, <3>1, <3>2, IdleRest
  <2>7. \E k \in DOMAIN accepted : which[k] \in {i, i + 1}
    <3>1. CASE i < last
      <4>1. i \in 1..last - 1
        BY <1>2, <2>2, <3>1
      <4> QED BY <2>5, <4>1
    <3>2. CASE i = last
      <4>1. accepted # <<>> /\ last = which[Len(accepted)]
        BY <1>2, <3>2 DEF last, LastOf
      <4>2. Len(accepted) \in DOMAIN accepted
        BY <1>1, <1>2, <4>1, EmptySeq
      <4> QED BY <3>2, <4>1, <4>2
    <3> QED BY <1>2, <2>2, <2>6, <3>1, <3>2
  <2>8. PICK k \in DOMAIN accepted : which[k] \in {i, i + 1}
    BY <2>7
  <2>9. accepted[k] = sent[which[k]].reading /\ accepted[k] \in Range(accepted)
    BY <2>1, <2>8 DEF InOrder, Range
  <2>10. which[k] \in i..i + 1
    BY <1>2, <2>8
  <2> QED BY <2>9, <2>10
<1> QED BY <1>5, <1>6 DEF NoTwoSkipped

(* On such a connection the first message is accepted if it is a reading,   *)
(* and of readings alone no two in a row are lost, however they are cut.    *)
THEOREM SkipsNoTwo == Spec => [](Plain(sent) => NoTwoSkipped)
<1>1. SInv => (Plain(sent) => NoTwoSkipped)
  BY SkipsFew
<1> QED BY <1>1, SInvHolds, PTL

(* A two-byte checksum behind a packet is found where it was put.           *)
IsUshort(x) == x \in Nat /\ x < 65536

LEMMA UshortBytes ==
    ASSUME NEW x, IsUshort(x)
    PROVE  /\ ushort_to_bytes(x) \in Seq(Bytes) /\ Len(ushort_to_bytes(x)) = 2
           /\ bytes_to_ushort(ushort_to_bytes(x)) = x
<1> DEFINE hi == x \div 256
           lo == x % 256
<1>1. hi \in Nat /\ hi <= 255 /\ lo \in Nat /\ lo <= 255 /\ hi * 256 + lo = x
  BY SMT DEF IsUshort
<1> HIDE DEF hi, lo
<1>2. hi \in Bytes /\ lo \in Bytes
  BY <1>1 DEF Bytes
<1>3. <<hi, lo>> \in Seq(Bytes) /\ Len(<<hi, lo>>) = 2 /\ <<hi, lo>>[1] = hi /\ <<hi, lo>>[2] = lo
  BY <1>2
<1>4. ushort_to_bytes(x) = <<hi, lo>>
  BY DEF ushort_to_bytes, hi, lo
<1> QED BY <1>1, <1>3, <1>4 DEF bytes_to_ushort

LEMMA TailAt ==
    ASSUME NEW a \in Seq(Bytes), NEW z \in Seq(Bytes), Len(z) = 2
    PROVE  /\ a \o z \in Seq(Bytes) /\ Len(a \o z) = Len(a) + 2
           /\ \A k \in 1..Len(a) : (a \o z)[k] = a[k]
           /\ SubSeq(a \o z, 1, Len(a)) = a
           /\ SubSeq(a \o z, Len(a) + 1, Len(a) + 2) = z
<1> DEFINE b == a \o z
           n == Len(a)
<1>0. 1 \in 1..2 /\ 2 \in 1..2
  OBVIOUS
<1>1. /\ n \in Nat /\ b \in Seq(Bytes) /\ Len(b) = n + 2
      /\ \A k \in 1..n : b[k] = a[k]
      /\ \A k \in 1..Len(z) : b[n + k] = z[k]
  <2>1. /\ b \in Seq(Bytes) /\ Len(b) = Len(a) + Len(z)
        /\ \A k \in 1..Len(a) + Len(z) : b[k] = IF k <= Len(a) THEN a[k] ELSE z[k - Len(a)]
    BY ConcatProperties, Zenon
  <2>2. Len(a) \in Nat
    OBVIOUS
  <2> HIDE DEF b
  <2>3. ASSUME NEW k \in 1..Len(a) PROVE b[k] = a[k]
    <3>1. k \in 1..Len(a) + Len(z) /\ k <= Len(a)
      BY <2>2
    <3> QED BY <2>1, <3>1, Zenon
  <2>4. ASSUME NEW k \in 1..Len(z) PROVE b[Len(a) + k] = z[k]
    <3>1. Len(a) + k \in 1..Len(a) + Len(z) /\ ~(Len(a) + k <= Len(a)) /\ (Len(a) + k) - Len(a) = k
      BY <2>2
    <3> QED BY <2>1, <3>1, Zenon
  <2> QED BY <2>1, <2>2, <2>3, <2>4
<1>2. \A k \in 1..n : b[k] = a[k]
  BY <1>1
<1> HIDE DEF b, n
<1>3. b[n + 1] = z[1] /\ b[n + 2] = z[2]
  BY <1>0, <1>1, Zenon
<1> USE DEF n
<1>4. SubSeq(b, 1, n) = a
  <2>1. SubSeq(b, 1, n) \in Seq(Bytes) /\ Len(SubSeq(b, 1, n)) = n
    BY <1>1
  <2>2. \A k \in 1..n : SubSeq(b, 1, n)[k] = b[k]
    BY <1>1
  <2> QED BY <1>2, <2>1, <2>2, SeqEqual
<1> HIDE DEF n
<1>5. SubSeq(b, n + 1, n + 2) = z
  <2> DEFINE m == n + 1
             t == SubSeq(b, m, m + 1)
  <2>1. m \in Nat /\ m >= 1 /\ m + 1 = n + 2 /\ m + 1 <= Len(b)
    BY <1>1
  <2> HIDE DEF m
  <2>2. t = [k \in 1..2 |-> b[m + k - 1]]
    BY <1>1, <2>1
  <2> HIDE DEF t
  <2>3. m + 1 - 1 = n + 1 /\ m + 2 - 1 = n + 2
    BY <1>1, <2>1 DEF m
  <2>4. t[1] = z[1] /\ t[2] = z[2] /\ DOMAIN t = 1..2
    BY <1>0, <1>3, <2>2, <2>3
  <2>5. z = [k \in 1..2 |-> z[k]]
    OBVIOUS
  <2>6. \A k \in 1..2 : k = 1 \/ k = 2
    OBVIOUS
  <2>7. t = [k \in 1..2 |-> t[k]]
    BY <2>2
  <2>8. t = z
    BY <2>4, <2>5, <2>6, <2>7
  <2> QED BY <2>1, <2>8 DEF t, m
<1> QED BY <1>1, <1>2, <1>4, <1>5 DEF b, n

(* The packets the client makes are such packets, unless a header byte is   *)
(* in their value or checksum.                                              *)
LEMMA ClientPacket ==
    ASSUME NEW v \in Seq(Bytes), NEW n \in Nat, Len(v) = n, 2 <= n, n <= 7,
           NEW h, h = <<PACK_HEADER, TEMPRATURE, TLV_FIXED_SIZE + n>>,
           NEW c, IsUshort(c), c = Crc(h \o v)
    PROVE  Packet([bytes |-> packtlv(v, TEMPRATURE), reading |-> <<signed(v[1]), signed(v[2])>>])
<1> DEFINE b == packtlv(v, TEMPRATURE)
           a == h \o v
           z == ushort_to_bytes(c)
<1>2. b = a \o z
  <2>1. byte(3) = 3 /\ byte(5 + n) = 5 + n
    BY DEF byte
  <2>2. b = Sealed(<<PACK_HEADER, byte(3), byte(5 + n)>> \o v)
    BY DEF packtlv, TEMPRATURE
  <2>3. b = Sealed(h \o v)
    BY <2>1, <2>2 DEF TEMPRATURE
  <2> HIDE DEF b
  <2>4. Sealed(h \o v) = (h \o v) \o ushort_to_bytes(Crc(h \o v))
    BY DEF Sealed
  <2> QED BY <2>3, <2>4, Zenon
<1>3. z \in Seq(Bytes) /\ Len(z) = 2 /\ bytes_to_ushort(z) = c
  BY UshortBytes, Zenon
<1>4. h \in Seq(Bytes) /\ Len(h) = 3 /\ h[1] = 255 /\ h[2] = 3 /\ h[3] = 5 + n
  <2>1. 5 + n \in Bytes /\ 255 \in Bytes /\ 3 \in Bytes
    BY DEF Bytes
  <2> QED BY <2>1 DEF PACK_HEADER, TEMPRATURE
<1> HIDE DEF z, b
<1>5. /\ a \in Seq(Bytes) /\ Len(a) = 3 + n
      /\ a[1] = 255 /\ a[2] = 3 /\ a[3] = 5 + n /\ a[4] = v[1] /\ a[5] = v[2]
  BY <1>4
<1>8. Crc(a) = bytes_to_ushort(z)
  BY <1>3
<1> HIDE DEF a
<1>6. /\ Len(b) = Len(a) + 2
      /\ \A k \in 1..Len(a) : b[k] = a[k]
      /\ SubSeq(b, 1, Len(a)) = a
      /\ SubSeq(b, Len(a) + 1, Len(a) + 2) = z
  <2>1. /\ Len(a \o z) = Len(a) + 2
        /\ \A k \in 1..Len(a) : (a \o z)[k] = a[k]
        /\ SubSeq(a \o z, 1, Len(a)) = a
        /\ SubSeq(a \o z, Len(a) + 1, Len(a) + 2) = z
    <3>1. a \in Seq(Bytes) /\ z \in Seq(Bytes) /\ Len(z) = 2
      BY <1>3, <1>5
    <3> QED BY <3>1, TailAt
  <2> QED BY <1>2, <2>1, Zenon
<1>7. b[1] = 255 /\ b[2] = 3 /\ b[3] = 5 + n /\ b[4] = v[1] /\ b[5] = v[2]
  BY <1>5, <1>6
<1>9. /\ Len(b) = 5 + n /\ Len(b) - 2 = Len(a) /\ Len(b) - 1 = Len(a) + 1
  BY <1>5, <1>6
<1>10. SubSeq(b, 1, Len(b) - 2) = a /\ SubSeq(b, Len(b) - 1, Len(b)) = z
  BY <1>6, <1>9
<1>11. Len(b) \in 7..12
  <2>1. 5 + n \in 7..12
    OBVIOUS
  <2> QED BY <1>9, <2>1
<1> DEFINE m == [bytes |-> b, reading |-> <<signed(v[1]), signed(v[2])>>]
<1>12. m.bytes = b /\ m.reading = <<signed(b[4]), signed(b[5])>>
  BY <1>7
<1> HIDE DEF m
<1>13. Crc(SubSeq(b, 1, Len(b) - 2)) = bytes_to_ushort(SubSeq(b, Len(b) - 1, Len(b)))
  BY <1>8, <1>10, Zenon
<1>14. Packet(m)
  <2>1. Len(b) \in TLV_FIXED_SIZE + 2..TLV_FIXED_SIZE + MAXDATALEN - 1
    BY <1>11
  <2>2. b[1] = PACK_HEADER /\ b[2] = TEMPRATURE /\ b[3] = Len(b)
    BY <1>7, <1>9 DEF PACK_HEADER, TEMPRATURE
  <2> QED BY <1>12, <1>13, <2>1, <2>2, Zenon DEF Packet
<1> QED BY <1>14 DEF m, b

-----------------------------------------------------------------------------
(* Why unpacktlv returns on any contents of the buffer: a step of its loop  *)
(* that does not end it brings Left down, and Left is a natural number.     *)

Left == 2 * remain + 1 - current
InScan == at = "scan" => current <= remain + 1
VInv == IInv /\ InScan

LEMMA ScanStep ==
    ASSUME IInv, InScan, unpacktlv
    PROVE  InScan' /\ (at = "scan" /\ at' = "scan" => Left' \in Nat /\ Left' < Left)
<1>0. remain \in Nat /\ current \in Nat /\ TypeOK
  BY BufSizeAssumption DEF IInv, TypeOK
<1>1. CASE TooLittle \/ Enough \/ Keep \/ Negative \/ Overrun \/ ScanEnd
  BY <1>0, <1>1 DEF TooLittle, Enough, Keep, Negative, Overrun, ScanEnd, InScan, buffer
<1>2. CASE NoHeader \/ LengthWrong \/ CrcWrong
  <2>1. at = "scan" /\ current < remain /\ current' = current + 1 /\ remain' = remain
    BY <1>2 DEF NoHeader, LengthWrong, CrcWrong, Judged, Header, Next1, buffer
  <2> QED BY <1>0, <2>1 DEF InScan, Left
<1>3. CASE Temperature
  <2>1. Judged /\ Length <= remain - current
    BY <1>3 DEF Temperature, Printed, Avail
  <2>2. Length \in Value /\ Length >= 5
    BY <1>0, <2>1, JudgedLength, Zenon
  <2>3. remain' = remain - (current + Length) /\ current' = 1
    BY <1>3 DEF Temperature, Shift
  <2> HIDE DEF Left
  <2>4. Length \in Nat
    BY <2>2 DEF Value
  <2>5. remain' \in Nat /\ remain' + Length <= remain
    BY <1>0, <2>1, <2>3, <2>4
  <2>6. Left = 2 * remain + 1 - current /\ Left' = 2 * remain' + 1 - current'
    BY DEF Left
  <2>7. current <= remain
    BY <1>0, <2>1, <2>4
  <2>8. InScan'
    BY <2>3, <2>5 DEF InScan
  <2> QED BY <1>0, <2>2, <2>3, <2>4, <2>5, <2>6, <2>7, <2>8
<1>4. CASE UnknownTag
  <2>1. /\ remain' = remain - current /\ current' = 1 /\ remain - current >= 6
        /\ at = "scan"
    BY <1>0, <1>4 DEF UnknownTag, Shift, Judged, Header, Partial, Avail
  <2> QED BY <1>0, <2>1 DEF InScan, Left
<1> QED BY <1>1, <1>2, <1>3, <1>4 DEF unpacktlv

LEMMA ScanNext ==
    ASSUME VInv, [Next]_vars
    PROVE  VInv' /\ (at = "scan" /\ at' = "scan" => (Left' \in Nat /\ Left' < Left) \/ UNCHANGED vars)
<1>0. IInv /\ IInv' /\ InScan
  BY InvNext DEF VInv
<1>1. CASE unpacktlv
  BY <1>0, <1>1, ScanStep DEF VInv
<1>2. CASE Accept \/ AcceptFails \/ Read \/ Disconnect
  <2>1. at # "scan" /\ at' # "scan"
    BY <1>2 DEF Accept, AcceptFails, Read, Disconnect
  <2> QED BY <1>0, <2>1 DEF VInv, InScan
<1>3. CASE UNCHANGED vars
  BY <1>0, <1>3 DEF VInv, InScan, vars, buffer
<1> QED BY <1>1, <1>2, <1>3 DEF Next

(* Each turn of the loop of unpacktlv that does not end it brings Left down.*)
THEOREM ScanShortens ==
    Spec => [][at = "scan" /\ at' = "scan" => Left' \in Nat /\ Left' < Left]_vars
<1>1. Init => VInv
  BY InvInit DEF VInv, InScan, Init
<1>2. VInv /\ [Next]_vars => VInv'
  BY ScanNext
<1>3. VInv /\ [Next]_vars =>
          [at = "scan" /\ at' = "scan" => Left' \in Nat /\ Left' < Left]_vars
  <2> SUFFICES ASSUME VInv, [Next]_vars
               PROVE  [at = "scan" /\ at' = "scan" => Left' \in Nat /\ Left' < Left]_vars
    OBVIOUS
  <2> HIDE DEF Left
  <2> QED BY ScanNext
<1> QED BY <1>1, <1>2, <1>3, PTL DEF Spec

-----------------------------------------------------------------------------
(* Where a reading comes from, on any connection and with any checksum.     *)

(* What stands behind position p of s is a packet that reads v.             *)
PacketAt(s, p, v) ==
    /\ p + TLV_FIXED_SIZE <= Len(s)
    /\ signed(s[p + 3]) >= TLV_FIXED_SIZE /\ p + signed(s[p + 3]) <= Len(s)
    /\ s[p + 1] = PACK_HEADER /\ s[p + 2] = TEMPRATURE
    /\ Crc([i \in 1..signed(s[p + 3]) - 2 |-> s[p + i]]) =
       bytes_to_ushort([i \in 1..2 |-> s[p + signed(s[p + 3]) - 2 + i]])
    /\ v = <<signed(s[p + 4]), signed(s[p + 5])>>
EndAt(s, p) == p + signed(s[p + 3])

(* The readings a come from packets of s, one behind the other, and the     *)
(* last of them ends by e.                                                  *)
ReadOff(s, a, where, e) ==
    /\ where \in [DOMAIN a -> Nat]
    /\ \A i \in DOMAIN a : PacketAt(s, where[i], a[i]) /\ EndAt(s, where[i]) <= e
    /\ \A i, j \in DOMAIN a : i < j => EndAt(s, where[i]) <= where[j]

SourceInv == at # "dead" =>
    \E where : ReadOff(Stream, accepted, where, IF Served THEN Off ELSE Len(Stream))
QInv == IInv /\ HeldInv /\ SourceInv

(* One more packet behind the others.                                       *)
LEMMA ReadOffStep ==
    ASSUME NEW s, NEW a \in Seq(Value \X Value), NEW where, NEW e \in Nat, NEW p \in Nat,
           NEW v \in Value \X Value, NEW f \in Nat,
           \A i \in DOMAIN a : EndAt(s, where[i]) \in Int,
           ReadOff(s, a, where, e), e <= p, PacketAt(s, p, v), EndAt(s, p) = f,
           signed(s[p + 3]) \in Int
    PROVE  \E w : ReadOff(s, Append(a, v), w, f)
<1> DEFINE b == Append(a, v)
           w == [i \in DOMAIN b |-> IF i = Len(b) THEN p ELSE where[i]]
<1>1. /\ DOMAIN a = 1..Len(a) /\ Len(a) \in Nat /\ Len(b) = Len(a) + 1
      /\ DOMAIN b = 1..Len(a) + 1
      /\ \A i \in 1..Len(a) : b[i] = a[i]
      /\ b[Len(a) + 1] = v
  <2>1. \A u \in Value \X Value :
           /\ DOMAIN a = 1..Len(a) /\ Len(a) \in Nat /\ Len(Append(a, u)) = Len(a) + 1
           /\ DOMAIN Append(a, u) = 1..Len(a) + 1
           /\ \A i \in 1..Len(a) : Append(a, u)[i] = a[i]
           /\ Append(a, u)[Len(a) + 1] = u
    BY AppendProperties
  <2> QED BY <2>1, Zenon
<1>2. /\ \A i \in 1..Len(a) : w[i] = where[i]
      /\ w[Len(a) + 1] = p
      /\ DOMAIN w = 1..Len(a) + 1 /\ w = [i \in DOMAIN b |-> w[i]]
  BY <1>1
<1>3. e <= f
  <2>1. f = p + signed(s[p + 3]) /\ signed(s[p + 3]) >= 5
    BY DEF EndAt, PacketAt
  <2> QED BY <2>1
<1> HIDE DEF b, w
<1>4. w \in [DOMAIN b -> Nat]
  <2>1. \A i \in 1..Len(a) : where[i] \in Nat
    BY <1>1 DEF ReadOff
  <2>2. ASSUME NEW i \in DOMAIN b PROVE w[i] \in Nat
    <3>1. i \in 1..Len(a) \/ i = Len(a) + 1
      BY <1>1
    <3>2. CASE i \in 1..Len(a)
      BY <1>2, <2>1, <3>2
    <3>3. CASE i = Len(a) + 1
      BY <1>2, <3>3
    <3> QED BY <3>1, <3>2, <3>3
  <2> QED BY <1>2, <2>2
<1>5. ASSUME NEW i \in DOMAIN b PROVE PacketAt(s, w[i], b[i]) /\ EndAt(s, w[i]) <= f
  <2>1. CASE i \in 1..Len(a)
    <3>1. PacketAt(s, where[i], a[i]) /\ EndAt(s, where[i]) <= e /\ EndAt(s, where[i]) \in Int
      BY <1>1, <2>1 DEF ReadOff
    <3>2. w[i] = where[i] /\ b[i] = a[i]
      BY <1>1, <1>2, <2>1
    <3>3. EndAt(s, where[i]) <= f
      BY <1>3, <3>1
    <3> QED BY <3>1, <3>2, <3>3, Zenon
  <2>2. CASE i = Len(a) + 1
    <3>1. w[i] = p /\ b[i] = v /\ f <= f
      BY <1>1, <1>2, <2>2
    <3> QED BY <3>1, Zenon
  <2> QED BY <1>1, <2>1, <2>2
<1>6. ASSUME NEW i \in DOMAIN b, NEW j \in DOMAIN b, i < j PROVE EndAt(s, w[i]) <= w[j]
  <2>1. i \in 1..Len(a) /\ w[i] = where[i] /\ (j \in 1..Len(a) \/ j = Len(a) + 1)
    <3>1. i \in 1..Len(a) + 1 /\ j \in 1..Len(a) + 1
      BY <1>1
    <3>2. i \in 1..Len(a) /\ (j \in 1..Len(a) \/ j = Len(a) + 1)
      BY <1>1, <1>6, <3>1
    <3> QED BY <1>2, <3>2
  <2>2. EndAt(s, where[i]) <= e /\ EndAt(s, where[i]) \in Int
    BY <1>1, <2>1 DEF ReadOff
  <2>3. CASE j \in 1..Len(a)
    <3>1. EndAt(s, where[i]) <= where[j] /\ w[j] = where[j]
      BY <1>1, <1>2, <1>6, <2>1, <2>3 DEF ReadOff
    <3> QED BY <2>1, <3>1, Zenon
  <2>4. CASE j = Len(a) + 1
    <3>1. EndAt(s, where[i]) <= p /\ w[j] = p
      BY <1>2, <2>2, <2>4
    <3> QED BY <2>1, <3>1, Zenon
  <2> QED BY <2>1, <2>3, <2>4
<1>7. ReadOff(s, b, w, f)
  BY <1>4, <1>5, <1>6 DEF ReadOff
<1> QED BY <1>7 DEF b

LEMMA ReadOffFurther ==
    ASSUME NEW s, NEW a, NEW where, NEW e \in Nat, NEW f \in Nat, e <= f,
           \A i \in DOMAIN a : EndAt(s, where[i]) \in Int,
           ReadOff(s, a, where, e)
    PROVE  ReadOff(s, a, where, f)
  BY DEF ReadOff

(* The positions of packets in a stream of bytes are numbers.               *)
LEMMA EndsTyped ==
    ASSUME NEW s \in Seq(Bytes), NEW a, NEW where, NEW e, ReadOff(s, a, where, e)
    PROVE  \A i \in DOMAIN a : EndAt(s, where[i]) \in Int
<1> TAKE i \in DOMAIN a
<1>1. where[i] \in Nat /\ PacketAt(s, where[i], a[i])
  BY DEF ReadOff
<1>2. PICK p \in Nat : p = where[i]
  BY <1>1
<1>3. signed(s[p + 3]) \in Int
  <2>1. p + 3 \in 1..Len(s)
    <3>1. p + 5 <= Len(s) /\ Len(s) \in Nat
      BY <1>1, <1>2 DEF PacketAt
    <3> QED BY <3>1
  <2>2. s[p + 3] \in Bytes
    BY <2>1
  <2>3. signed(s[p + 3]) \in Value
    BY <2>2, SignedType
  <2>4. \A u \in Value : u \in Int
    BY DEF Value
  <2> QED BY <2>3, <2>4, Zenon
<1>4. p + signed(s[p + 3]) \in Int
  BY <1>3
<1> QED BY <1>2, <1>4, Zenon DEF EndAt

LEMMA NothingRead == \A s, e : ReadOff(s, <<>>, [i \in DOMAIN <<>> |-> 0], e)
<1> TAKE s, e
<1>1. DOMAIN <<>> = {}
  OBVIOUS
<1> QED BY <1>1 DEF ReadOff

(* A packet that does not reach beyond what was read is a packet of the     *)
(* stream, at the place where its header is.                                *)
LEMMA AcceptedPacket ==
    ASSUME TypeOK, Held, Temperature
    PROVE  /\ PacketAt(Stream, Off + current,
                       <<signed(buf[current + 3]), signed(buf[current + 4])>>)
           /\ signed(Stream[Off + current + 3]) = Length
           /\ Length \in Nat /\ current + Length \in 0..remain /\ Length >= 5
<1>1. /\ Judged /\ Header /\ MayMatch /\ buf[current] = PACK_HEADER
      /\ buf[current + 1] = TEMPRATURE /\ Length <= remain - current
  BY DEF Temperature, Printed, Judged, Header, Avail
<1>2. /\ Off \in Nat /\ Off + remain <= Len(Stream) /\ Len(Stream) \in Nat
      /\ remain \in Nat /\ remain <= BufSize /\ BufSize \in Nat /\ current \in Nat
  <2>1. /\ Off \in Nat /\ Off + remain <= Len(Stream) /\ Len(Stream) \in Nat
        /\ remain \in 0..BufSize /\ BufSize \in 12..125 /\ current \in Nat
    BY PosType, Zenon
  <2> HIDE DEF Off
  <2> QED BY <2>1
<1>3. current + 5 < remain /\ Length \in Nat /\ Length >= 5
  <2>1. current + 5 < remain /\ Length \in Value /\ Length >= 5
    BY <1>1, JudgedLength, Zenon
  <2> QED BY <2>1 DEF Value
<1>4. CrcMatches
  <2>1. ~Overread
    BY <1>1, <1>2, <1>3 DEF Overread
  <2> QED BY <1>1, <2>1 DEF MayMatch
<1>5. ASSUME NEW k \in 1..remain - current
      PROVE  buf[current + k - 1] = Stream[Off + current + k]
  <2>1. current + k - 1 \in 0..remain - 1
    BY <1>2
  <2>2. buf[current + k - 1] = Stream[Off + (current + k - 1) + 1]
    BY <2>1 DEF Held
  <2>3. Off + (current + k - 1) + 1 = Off + current + k
    BY <1>2
  <2> QED BY <2>2, <2>3
<1> DEFINE p == Off + current
<1>6. /\ buf[current] = Stream[p + 1] /\ buf[current + 1] = Stream[p + 2]
      /\ buf[current + 2] = Stream[p + 3] /\ buf[current + 3] = Stream[p + 4]
      /\ buf[current + 4] = Stream[p + 5]
  <2>1. \A k \in {1, 2, 3, 4, 5} : k \in 1..remain - current
    BY <1>2, <1>3
  <2>2. \A k \in {1, 2, 3, 4, 5} : buf[current + k - 1] = Stream[p + k]
    BY <1>5, <2>1
  <2>3. /\ current + 1 - 1 = current /\ current + 2 - 1 = current + 1
        /\ current + 3 - 1 = current + 2 /\ current + 4 - 1 = current + 3
        /\ current + 5 - 1 = current + 4
    BY <1>2
  <2> HIDE DEF p
  <2> QED BY <2>2, <2>3
<1>7. signed(Stream[p + 3]) = Length
  BY <1>6 DEF Length
<1>8. p \in Nat /\ p + 5 <= Len(Stream) /\ p + Length <= Len(Stream)
  BY <1>1, <1>2, <1>3
<1> HIDE DEF p, Length, Off
<1>9. Window(current, Length - 2) = [i \in 1..Length - 2 |-> Stream[p + i]]
  <2>1. ASSUME NEW i \in 1..Length - 2 PROVE buf[current + i - 1] = Stream[p + i]
    <3>1. i \in 1..remain - current
      BY <1>1, <1>2, <1>3
    <3> QED BY <1>5, <3>1 DEF p
  <2> QED BY <2>1 DEF Window
<1>10. Window(current + Length - 2, 2) = [i \in 1..2 |-> Stream[p + Length - 2 + i]]
  <2>1. ASSUME NEW i \in 1..2
        PROVE  buf[current + Length - 2 + i - 1] = Stream[p + Length - 2 + i]
    <3>1. Length - 2 + i \in 1..remain - current
      BY <1>1, <1>2, <1>3
    <3>2. buf[current + (Length - 2 + i) - 1] = Stream[p + (Length - 2 + i)]
      BY <1>5, <3>1 DEF p
    <3>3. /\ current + (Length - 2 + i) - 1 = current + Length - 2 + i - 1
          /\ p + (Length - 2 + i) = p + Length - 2 + i
      BY <1>2, <1>3, <1>8
    <3> QED BY <3>2, <3>3
  <2> QED BY <2>1 DEF Window
<1>11. Crc([i \in 1..Length - 2 |-> Stream[p + i]]) =
       bytes_to_ushort([i \in 1..2 |-> Stream[p + Length - 2 + i]])
  BY <1>4, <1>9, <1>10, Zenon DEF CrcMatches
<1>12. <<signed(buf[current + 3]), signed(buf[current + 4])>> =
       <<signed(Stream[p + 4]), signed(Stream[p + 5])>>
  BY <1>6, Zenon
<1>13. Stream[p + 1] = PACK_HEADER /\ Stream[p + 2] = TEMPRATURE
  BY <1>1, <1>6
<1>14. p + TLV_FIXED_SIZE <= Len(Stream) /\ Length >= TLV_FIXED_SIZE
  BY <1>3, <1>8
<1>15. PacketAt(Stream, p, <<signed(buf[current + 3]), signed(buf[current + 4])>>)
  BY <1>7, <1>8, <1>11, <1>12, <1>13, <1>14, Zenon DEF PacketAt
<1>16. current + Length \in 0..remain
  BY <1>1, <1>2, <1>3
<1> QED BY <1>3, <1>7, <1>15, <1>16, Zenon DEF p

LEMMA SourceNext ==
    ASSUME IInv, HeldInv, SourceInv, Next
    PROVE  SourceInv'
<1>0. TypeOK /\ accepted \in Seq(Value \X Value) /\ Stream \in Seq(Bytes) /\ Len(Stream) \in Nat
  BY StreamTyped DEF IInv, TypeOK, Value
<1>d. CASE at' = "dead"
  BY <1>d DEF SourceInv
<1> SUFFICES ASSUME at' # "dead" PROVE SourceInv'
  BY <1>d
<1>1. PICK where : ReadOff(Stream, accepted, where, IF Served THEN Off ELSE Len(Stream))
  <2>1. at # "dead"
    BY DEF Next, Accept, AcceptFails, Read, Disconnect, unpacktlv, TooLittle, Enough, NoHeader,
           Keep, LengthWrong, CrcWrong, Temperature, Negative, Printed, Overrun, UnknownTag,
           ScanEnd, Judged, Header
  <2> QED BY <2>1 DEF SourceInv
<1>2. \A i \in DOMAIN accepted : EndAt(Stream, where[i]) \in Int
  BY <1>0, <1>1, EndsTyped
<1>3. CASE Accept \/ Disconnect
  <2>1. accepted' = <<>>
    BY <1>3 DEF Accept, Disconnect
  <2> QED BY <2>1, NothingRead, Zenon DEF SourceInv
<1>4. CASE AcceptFails \/ Overrun \/ Negative
  BY <1>4 DEF AcceptFails, Overrun, Negative
<1>5. ASSUME Served, NEW f \in Nat, Off <= f, Stream' = Stream, accepted' = accepted,
             f = IF Served' THEN Off' ELSE Len(Stream')
      PROVE  SourceInv'
  <2>1. ReadOff(Stream, accepted, where, Off) /\ Off \in Nat
    BY <1>1, <1>5 DEF HeldInv, Held
  <2>2. ReadOff(Stream, accepted, where, f)
    BY <1>2, <1>5, <2>1, ReadOffFurther
  <2> QED BY <1>5, <2>2, Zenon DEF SourceInv
<1>6. ASSUME Served PROVE Held /\ Off \in Nat /\ Off <= Len(Stream)
  <2>1. Held
    BY <1>6 DEF HeldInv
  <2>2. Off \in Nat /\ Off + remain <= Len(Stream) /\ remain \in 0..BufSize /\ BufSize \in 12..125
    BY <1>0, <2>1, PosType
  <2> HIDE DEF Off
  <2> QED BY <1>0, <2>1, <2>2
<1>8. CASE Read
  <2>1. Served /\ Served' /\ accepted' = accepted
    BY <1>8 DEF Read, Served
  <2>2. Off' = Off /\ Stream' = Stream
    BY <1>0, <1>6, <1>8, <2>1, HeldRead
  <2>3. Off <= Off'
    BY <1>6, <2>1, <2>2
  <2> QED BY <1>5, <1>6, <2>1, <2>2, <2>3, Zenon
<1>9. CASE TooLittle \/ Enough \/ NoHeader \/ LengthWrong \/ CrcWrong
  <2>1. Served /\ Served' /\ UNCHANGED <<buf, remain, wire, sent, accepted>>
    BY <1>9 DEF TooLittle, Enough, NoHeader, LengthWrong, CrcWrong, Judged, Header, Next1,
                Served, buffer, conn
  <2>2. Off' = Off /\ Stream' = Stream
    BY <1>6, <2>1, HeldSame
  <2>3. Off <= Off'
    BY <1>6, <2>1, <2>2
  <2> QED BY <1>5, <1>6, <2>1, <2>2, <2>3, Zenon
<1>10. CASE Keep \/ UnknownTag
  <2>1. /\ Served /\ Served' /\ UNCHANGED <<wire, sent, accepted>> /\ Shift(current)
        /\ current < remain
    BY <1>10 DEF Keep, UnknownTag, Judged, Header, Served, conn
  <2>2. current \in 0..remain /\ current \in Nat
    BY <1>0, <2>1 DEF TypeOK
  <2>3. Off' = Off + current /\ Stream' = Stream
    BY <1>0, <1>6, <2>1, <2>2, HeldShift
  <2>4. Off <= Off' /\ Off' \in Nat
    <3> HIDE DEF Off
    <3> QED BY <1>6, <2>1, <2>2, <2>3
  <2> QED BY <1>5, <2>1, <2>3, <2>4, Zenon
<1>11. CASE ScanEnd
  <2>1. Served /\ Served' /\ accepted' = accepted
    BY <1>11 DEF ScanEnd, Served, conn
  <2>2. Off' = Off + remain /\ Stream' = Stream
    BY <1>0, <1>6, <1>11, <2>1, HeldEnd
  <2>3. Off <= Off' /\ Off' \in Nat
    <3> HIDE DEF Off
    <3>1. remain \in 0..BufSize /\ BufSize \in 12..125
      BY <1>0, StreamTyped
    <3> QED BY <1>6, <2>1, <2>2, <3>1
  <2> QED BY <1>5, <2>1, <2>2, <2>3, Zenon
<1>12. CASE Temperature
  <2> DEFINE v == <<signed(buf[current + 3]), signed(buf[current + 4])>>
             q == Off + current
  <2>1. /\ Served /\ Served' /\ UNCHANGED <<wire, sent>> /\ Shift(current + Length)
        /\ accepted' = Append(accepted, v) /\ current < remain
    BY <1>12 DEF Temperature, Printed, Judged, Header, Served
  <2>2. /\ PacketAt(Stream, q, v) /\ signed(Stream[q + 3]) = Length
        /\ Length \in Nat /\ current + Length \in 0..remain
    BY <1>0, <1>6, <1>12, <2>1, AcceptedPacket
  <2>3. Off' = Off + (current + Length) /\ Stream' = Stream
    BY <1>0, <1>6, <2>1, <2>2, HeldShift
  <2>4. current \in Nat /\ remain \in Nat /\ buf \in [0..BufSize - 1 -> Bytes] /\ BufSize \in Nat
        /\ remain <= BufSize
    <3>1. /\ remain \in 0..BufSize /\ BufSize \in 12..125 /\ current \in Nat
          /\ buf \in [0..BufSize - 1 -> Bytes]
      BY <1>0, StreamTyped, Zenon
    <3> QED BY <3>1
  <2>5. v \in Value \X Value
    <3>1. current + 5 < remain
      BY <1>0, <1>12, JudgedLength DEF Temperature, Printed
    <3>2. buf[current + 3] \in Bytes /\ buf[current + 4] \in Bytes
      BY <2>4, <3>1
    <3>3. signed(buf[current + 3]) \in Value /\ signed(buf[current + 4]) \in Value
      BY <3>2, SignedType
    <3> QED BY <3>3, Zenon
  <2> HIDE DEF v, q, Off, Length
  <2>6. q \in Nat /\ Off \in Nat /\ Off <= q /\ q + Length = Off' /\ Off' \in Nat
    <3>1. Off \in Nat
      BY <1>6, <2>1
    <3> QED BY <2>2, <2>3, <2>4, <3>1 DEF q
  <2>7. EndAt(Stream, q) = Off' /\ signed(Stream[q + 3]) \in Int
    BY <2>2, <2>6 DEF EndAt
  <2>8. ReadOff(Stream, accepted, where, Off)
    BY <1>1, <2>1
  <2>9. \E w : ReadOff(Stream, Append(accepted, v), w, Off')
    BY <1>0, <1>2, <2>2, <2>5, <2>6, <2>7, <2>8, ReadOffStep
  <2> QED BY <2>1, <2>3, <2>9, Zenon DEF SourceInv
<1> QED BY <1>3, <1>4, <1>8, <1>9, <1>10, <1>11, <1>12 DEF Next, unpacktlv

LEMMA QInvNext == QInv /\ [Next]_vars => QInv'
<1> SUFFICES ASSUME QInv, [Next]_vars PROVE QInv'
  OBVIOUS
<1>1. IInv'
  BY InvNext DEF QInv
<1>2. CASE Next
  BY <1>1, <1>2, HeldNext, SourceNext DEF QInv
<1>3. CASE UNCHANGED vars
  <2>1. UNCHANGED <<at, buf, remain, current, wire, sent, accepted>>
    BY <1>3 DEF vars, buffer, conn
  <2>2. HeldInv'
    BY <2>1 DEF QInv, HeldInv, Held, Waiting, Served, Off, Stream
  <2>3. SourceInv'
    <3>1. Off' = Off /\ Stream' = Stream /\ Served' = Served /\ accepted' = accepted
      BY <2>1, Zenon DEF Off, Stream, Served
    <3>2. SourceInv' = SourceInv
      BY <2>1, <3>1, Zenon DEF SourceInv
    <3> QED BY <3>2 DEF QInv
  <2> QED BY <1>1, <2>2, <2>3 DEF QInv
<1> QED BY <1>2, <1>3

(* Whatever a connection carries and however it is cut into reads, until the*)
(* server dies: every reading accepted stands in a packet of this connection*)
(* (header, tag, length and checksum are bytes that follow each other in its*)
(* stream), and the packets follow each other in the order of the readings, *)
(* without sharing a byte.  So of what is accepted, all but the reading the *)
(* server dies of is what the connection carried; that one's checksum may   *)
(* cover what was left in the buffer.                                       *)
THEOREM AcceptedFromStream ==
    Spec => [](at # "dead" => \E where : ReadOff(Stream, accepted, where, Len(Stream)))
<1>1. Init => QInv
  <2> SUFFICES ASSUME Init PROVE QInv
    OBVIOUS
  <2>1. accepted = <<>> /\ IInv /\ HeldInv
    BY InvInit, PlainInit DEF Init
  <2>2. SourceInv
    BY <2>1, NothingRead, Zenon DEF SourceInv
  <2> QED BY <2>1, <2>2 DEF QInv
<1>2. QInv => (at # "dead" => \E where : ReadOff(Stream, accepted, where, Len(Stream)))
  <2> SUFFICES ASSUME QInv, at # "dead" PROVE \E where : ReadOff(Stream, accepted, where, Len(Stream))
    OBVIOUS
  <2>1. TypeOK /\ HeldInv /\ Stream \in Seq(Bytes) /\ Len(Stream) \in Nat
    BY StreamTyped DEF QInv, IInv
  <2>2. PICK where : ReadOff(Stream, accepted, where, IF Served THEN Off ELSE Len(Stream))
    BY DEF QInv, SourceInv
  <2>3. CASE Served
    <3>1. Held
      BY <2>1, <2>3 DEF HeldInv
    <3>2. Off \in Nat /\ Off + remain <= Len(Stream) /\ remain \in 0..BufSize /\ BufSize \in 12..125
      BY <2>1, <3>1, PosType
    <3>3. Off <= Len(Stream)
      <4> HIDE DEF Off
      <4> QED BY <2>1, <3>2
    <3>4. ReadOff(Stream, accepted, where, Off)
      BY <2>2, <2>3
    <3>5. \A i \in DOMAIN accepted : EndAt(Stream, where[i]) \in Int
      BY <2>1, <3>4, EndsTyped
    <3>6. ReadOff(Stream, accepted, where, Len(Stream))
      BY <2>1, <3>2, <3>3, <3>4, <3>5, ReadOffFurther
    <3> QED BY <3>6
  <2>4. CASE ~Served
    BY <2>2, <2>4
  <2> QED BY <2>3, <2>4
<1> QED BY <1>1, <1>2, QInvNext, PTL DEF Spec
=============================================================================
