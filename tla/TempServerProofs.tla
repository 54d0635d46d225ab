--------------------------- MODULE TempServerProofs ---------------------------
(* Theorems about TempServer, for any set of connections and any number of  *)
(* descriptors.                                                             *)
EXTENDS TempServer, WellFoundedInduction, TLAPS

USE ConnsAssumption, MaxFdAssumption
USE DEF accepted, frame, threads, files, process, Goto, Move, Main, Fds, junk, listen_fd

(* accept has a lowest free descriptor to return, if there is a free one.   *)
LEMMA LowestIsFree == Free # {} => Lowest \in Free
<1> SUFFICES ASSUME Free # {} PROVE Lowest \in Free
  OBVIOUS
<1> DEFINE Below == OpToRel(<, Nat)
<1>1. Free \subseteq Nat
  BY DEF Free
<1>2. IsWellFoundedOn(Below, Nat)
  BY NatLessThanWellFounded
<1>3. PICK f \in Free : \A g \in Free : <<g, f>> \notin Below
  <2> HIDE DEF Below
  <2> QED BY <1>1, <1>2, WFMin, Zenon
<1>4. \A g \in Free : f <= g
  <2> SUFFICES ASSUME NEW g \in Free, g < f PROVE FALSE
    BY <1>1
  <2>1. <<g, f>> \in Below
    BY <1>1 DEF OpToRel
  <2> QED BY <1>3, <2>1
<1> QED BY <1>4 DEF Lowest

-----------------------------------------------------------------------------
(* Type correctness. *)

LEMMA TypeMain ==
    ASSUME TypeOK, MainNext
    PROVE  TypeOK'
<1> USE DEF TypeOK
<1>1. CASE Loop \/ AcceptFails \/ CreateFails \/ AttrFails \/ Test \/ Sleep
  BY <1>1 DEF Loop, AcceptFails, CreateFails, AttrFails, Test, Sleep
<1>2. CASE Accept
  <2>1. Lowest \in Fds
    BY <1>2, LowestIsFree DEF Accept, Free
  <2>2. new_conn' \in Conns
    BY <1>2 DEF Accept
  <2> QED BY <1>2, <2>1, <2>2 DEF Accept
<1>3. CASE Start \/ Return
  BY <1>3 DEF Start, Return
<1>4. CASE Create
  BY <1>4 DEF Create, ThreadLocations
<1>5. CASE AcceptLoses
  BY <1>5 DEF AcceptLoses
<1> QED BY <1>1, <1>2, <1>3, <1>4, <1>5 DEF MainNext

LEMMA TypeThread ==
    ASSUME TypeOK, NEW c \in Conns, ThreadNext(c)
    PROVE  TypeOK'
<1> USE DEF TypeOK, ThreadLocations
<1>1. CASE Load(c)
  <2>1. Named(c) \subseteq Conns \cup {"none", "file"}
    BY DEF Named
  <2> QED BY <1>1, <2>1 DEF Load
<1>2. CASE Receive(c)
  BY <1>2 DEF Receive
<1>3. CASE ReceiveFile(c) \/ ReceiveNothing(c) \/ Open(c)
  BY <1>3, ZenonT(30) DEF ReceiveFile, ReceiveNothing, Open
<1>7. CASE OpenFails(c) \/ InsertBusy(c)
  BY <1>7, ZenonT(30) DEF OpenFails, InsertBusy
<1>6. CASE Insert(c) \/ CommitFails(c) \/ Over(c)
  BY <1>6, ZenonT(30) DEF Insert, CommitFails, Over
<1>4. CASE Drop(c) \/ Close(c)
  <2>1. owner' \in [Fds -> Conns \cup {"free", "listener"}]
    BY <1>4 DEF Drop, Close, CloseFd
  <2> QED BY <1>4, <2>1, ZenonT(30) DEF Drop, Close
<1>5. CASE Commit(c)
  <2>1. stored' \in [Conns -> Nat]
    <3>1. \A d \in Conns : stored[d] + 1 \in Nat
      OBVIOUS
    <3> QED BY <1>5, <3>1 DEF Commit, Inserted
  <2> QED BY <1>5, <2>1 DEF Commit
<1> QED BY <1>1, <1>2, <1>3, <1>4, <1>5, <1>6, <1>7 DEF ThreadNext

LEMMA TypeClient ==
    ASSUME TypeOK, NEW c \in Conns, ClientConnect(c) \/ ClientSend(c) \/ ClientDies(c)
    PROVE  TypeOK'
  BY SMTT(20) DEF TypeOK, ClientConnect, ClientSend, ClientDies, Client

LEMMA TypeNext == TypeOK /\ [Next]_vars => TypeOK'
<1> SUFFICES ASSUME TypeOK, [Next]_vars PROVE TypeOK'
  OBVIOUS
<1>1. CASE UNCHANGED vars
  BY <1>1 DEF TypeOK, vars
<1>2. CASE sig_usr
  BY <1>2 DEF TypeOK, sig_usr
<1> QED BY <1>1, <1>2, TypeMain, TypeThread, TypeClient DEF Next

LEMMA TypeInit == Init => TypeOK
<1> SUFFICES ASSUME Init PROVE TypeOK
  OBVIOUS
<1>1. /\ owner \in [Fds -> Conns \cup {"free", "listener"}]
      /\ net \in [Conns -> {"idle", "open", "data", "eof"}]
      /\ thread \in [Conns -> ThreadLocations]
      /\ target \in [Conns -> Conns \cup {"none", "file"}]
      /\ stored \in [Conns -> Nat]
  BY DEF Init, ThreadLocations
<1>2. /\ arg_fd \in Fds \cup {junk} /\ new_fd \in Fds \cup {junk}
      /\ pending \subseteq Conns
  BY DEF Init
<1> QED BY <1>1, <1>2 DEF Init, TypeOK

(* Every variable of the server keeps its type. *)
THEOREM TypeCorrect == Spec => []TypeOK
BY TypeInit, TypeNext, PTL DEF Spec

-----------------------------------------------------------------------------
(* Every reading is stored at most once, whatever the timing: the bytes of  *)
(* a connection go to one thread, and that thread is the only one that may  *)
(* still insert them.                                                       *)

OnlyCarrier ==
    \A c, d \in Conns :
        /\ Carries(c, d) => net[d] = "eof" /\ stored[d] = 0
        /\ \A e \in Conns : Carries(c, d) /\ Carries(e, d) => c = e

SInv == TypeOK /\ StoredOnce /\ OnlyCarrier

LEMMA StoredInit == Init => SInv
  BY TypeInit DEF Init, SInv, StoredOnce, OnlyCarrier, Carries

LEMMA StoredMain ==
    ASSUME SInv, TypeOK', MainNext
    PROVE  SInv'
<1> USE DEF SInv, StoredOnce, OnlyCarrier, Carries
<1>1. CASE Create
  <2>1. \A c \in Conns : thread'[c] # "load" => thread'[c] = thread[c]
    BY <1>1 DEF Create, TypeOK
  <2> QED BY <1>1, <2>1 DEF Create
<1>2. CASE MainNext /\ ~Create
  <2>1. UNCHANGED <<net, threads, files>>
    BY <1>2 DEF MainNext, Loop, Accept, AcceptFails, AcceptLoses, Start, CreateFails, AttrFails,
                Test, Sleep, Return
  <2> QED BY <2>1
<1> QED BY <1>1, <1>2

LEMMA StoredThread ==
    ASSUME SInv, TypeOK', NEW c \in Conns, ThreadNext(c)
    PROVE  SInv'
<1> USE DEF SInv, StoredOnce, OnlyCarrier, Carries
<1>0. thread \in [Conns -> ThreadLocations] /\ target \in [Conns -> Conns \cup {"none", "file"}]
  BY DEF TypeOK
<1>1. CASE Load(c)
  BY <1>0, <1>1 DEF Load
<1>6. CASE ReceiveFile(c)
  <2>1. UNCHANGED <<net, target, stored>> /\ target[c] \notin Conns
    BY <1>6 DEF ReceiveFile
  <2>2. \A e \in Conns : thread'[e] = IF e = c THEN "open" ELSE thread[e]
    BY <1>0, <1>6 DEF ReceiveFile
  <2> QED BY <2>1, <2>2
<1>2. CASE Receive(c)
  <2> DEFINE t == target[c]
  <2>1. t \in Conns /\ net[t] = "data" /\ stored[t] = 0
    BY <1>0, <1>2 DEF Receive, TypeOK
  <2>2. \A e \in Conns : ~Carries(e, t)
    BY <2>1
  <2>3. \A e \in Conns : thread'[e] = IF e = c THEN "open" ELSE thread[e]
    BY <1>0, <1>2 DEF Receive
  <2>4. \A d \in Conns : net'[d] = IF d = t THEN "eof" ELSE net[d]
    BY <1>2, <2>1 DEF Receive, TypeOK
  <2>5. UNCHANGED <<target, stored>>
    BY <1>2 DEF Receive
  <2> HIDE DEF t
  <2> QED BY <2>1, <2>2, <2>3, <2>4, <2>5 DEF t
<1>3. CASE ReceiveNothing(c) \/ Drop(c) \/ Open(c) \/ Insert(c) \/ InsertBusy(c)
           \/ CommitFails(c) \/ Close(c) \/ Over(c)
  <2>1. UNCHANGED <<net, target, stored>>
    BY <1>3 DEF ReceiveNothing, Drop, Open, Insert, InsertBusy, CommitFails, Close, Over
  <2>2. \A e \in Conns : thread'[e] \in {"open", "insert", "commit"} =>
                             thread[e] \in {"open", "insert", "commit"}
    BY <1>0, <1>3 DEF ReceiveNothing, Drop, Open, Insert, InsertBusy, CommitFails, Close, Over
  <2> QED BY <2>1, <2>2
<1>4. CASE OpenFails(c)
  BY <1>4 DEF OpenFails
<1>5. CASE Commit(c)
  <2> DEFINE t == target[c]
  <2>1. \A d \in Conns : d = t => net[d] = "eof" /\ stored[d] = 0
    BY <1>5 DEF Commit
  <2>2. \A d \in Conns : stored'[d] = IF d = t THEN 1 ELSE stored[d]
    BY <1>5, <2>1 DEF Commit, Inserted, TypeOK
  <2>3. \A e \in Conns : thread'[e] = IF e = c THEN "close" ELSE thread[e]
    BY <1>0, <1>5 DEF Commit
  <2>4. UNCHANGED <<target, net>>
    BY <1>5 DEF Commit
  <2>5. \A e, d \in Conns : d = t /\ e # c => ~Carries(e, d)
    BY <1>5, <2>1 DEF Commit
  <2> HIDE DEF t
  <2> QED BY <2>1, <2>2, <2>3, <2>4, <2>5
<1> QED BY <1>1, <1>2, <1>3, <1>4, <1>5, <1>6 DEF ThreadNext

LEMMA StoredNext == SInv /\ [Next]_vars => SInv'
<1> SUFFICES ASSUME SInv, [Next]_vars PROVE SInv'
  OBVIOUS
<1>0. TypeOK'
  BY TypeNext DEF SInv
<1> USE DEF SInv, StoredOnce, OnlyCarrier, Carries
<1>1. CASE UNCHANGED vars
  BY <1>0, <1>1 DEF vars
<1>2. CASE sig_usr
  BY <1>0, <1>2 DEF sig_usr
<1>3. ASSUME NEW c \in Conns, ClientConnect(c) \/ ClientSend(c) \/ ClientDies(c)
      PROVE  SInv'
  <2>1. UNCHANGED <<threads, files>> /\ net[c] # "eof"
    BY <1>3 DEF ClientConnect, ClientSend, ClientDies, Client
  <2>2. \A d \in Conns : net[d] = "eof" => net'[d] = "eof"
    BY <1>3, <2>1 DEF ClientConnect, ClientSend, ClientDies, Client, TypeOK
  <2> QED BY <1>0, <2>1, <2>2
<1> QED BY <1>0, <1>1, <1>2, <1>3, StoredMain, StoredThread DEF Next

(* No reading is inserted twice, even by threads that took each other's     *)
(* descriptors out of the shared frame.                                     *)
THEOREM StoredOnceHolds == Spec => []StoredOnce
<1>1. SInv => StoredOnce
  BY DEF SInv
<1> QED BY <1>1, StoredInit, StoredNext, PTL DEF Spec

-----------------------------------------------------------------------------
(* The server keeps the promise of module Reading, whatever the timing.     *)

(* A connection has no thread before main() creates it. *)
Unserved ==
    /\ \A c \in Conns : c \in pending \/ net[c] = "idle" =>
          thread[c] = "none" /\ (main \in {"start", "create"} => new_conn # c)
    /\ \A c \in pending : net[c] # "idle"
    /\ main \in {"start", "create"} => new_conn \in Conns /\ thread[new_conn] = "none"

LEMMA UnservedNext ==
    ASSUME TypeOK, TypeOK', Unserved, [Next]_vars
    PROVE  Unserved'
<1> USE DEF Unserved
<1>0. thread \in [Conns -> ThreadLocations] /\ pending \subseteq Conns
      /\ net \in [Conns -> {"idle", "open", "data", "eof"}]
  BY DEF TypeOK
<1>1. CASE UNCHANGED vars
  BY <1>1 DEF vars
<1>2. CASE sig_usr
  BY <1>2 DEF sig_usr
<1>3. ASSUME NEW c \in Conns, ClientConnect(c) \/ ClientSend(c) \/ ClientDies(c)
      PROVE  Unserved'
  <2>1. UNCHANGED <<main, new_conn, thread>>
    BY <1>3 DEF ClientConnect, ClientSend, ClientDies, Client
  <2>2. /\ \A d \in Conns : net'[d] = "idle" => net[d] = "idle"
        /\ net'[c] # "idle"
    BY <1>0, <1>3 DEF ClientConnect, ClientSend, ClientDies, Client
  <2>3. \A d \in pending' : d \in pending \/ (d = c /\ net[c] = "idle")
    BY <1>3 DEF ClientConnect, ClientSend, ClientDies, Client
  <2>4. \A d \in pending' : net'[d] # "idle"
    BY <1>0, <2>2, <2>3
  <2> QED BY <2>1, <2>2, <2>3, <2>4
<1>4. ASSUME NEW c \in Conns, ThreadNext(c)
      PROVE  Unserved'
  <2>1. UNCHANGED <<main, new_conn, pending>> /\ thread[c] # "none"
    BY <1>4 DEF ThreadNext, Load, Receive, ReceiveFile, ReceiveNothing, Drop, Open, OpenFails,
                Insert, InsertBusy, Commit, CommitFails, Close, Over
  <2>2. \A d \in Conns : thread[d] = "none" => thread'[d] = "none"
    BY <1>0, <1>4 DEF ThreadNext, Load, Receive, ReceiveFile, ReceiveNothing, Drop, Open, OpenFails,
                Insert, InsertBusy, Commit, CommitFails, Close, Over
  <2>3. \A d \in Conns : net'[d] = "idle" <=> net[d] = "idle"
    BY <1>0, <1>4 DEF ThreadNext, Load, Receive, ReceiveFile, ReceiveNothing, Drop, Open, OpenFails,
                Insert, InsertBusy, Commit, CommitFails, Close, Over
  <2> QED BY <1>0, <2>1, <2>2, <2>3
<1>5. CASE Accept
  <2>1. PICK c \in pending : pending' = pending \ {c} /\ new_conn' = c
    BY <1>5 DEF Accept
  <2>2. UNCHANGED <<net, thread>> /\ main' = "start"
    BY <1>5 DEF Accept
  <2> QED BY <1>0, <2>1, <2>2
<1>6. CASE Create
  <2>1. /\ UNCHANGED <<net, pending>> /\ main' = "test" /\ main = "create"
        /\ \A d \in Conns : d # new_conn => thread'[d] = thread[d]
    BY <1>0, <1>6 DEF Create
  <2> QED BY <1>0, <2>1
<1>7. CASE Loop \/ AcceptFails \/ AcceptLoses \/ Start \/ CreateFails \/ AttrFails \/ Test
           \/ Sleep \/ Return
  <2>1. /\ UNCHANGED <<net, thread, new_conn>> /\ pending' \subseteq pending
        /\ main' \in {"start", "create"} => main \in {"start", "create"}
    BY <1>7 DEF Loop, AcceptFails, AcceptLoses, Start, CreateFails, AttrFails, Test, Sleep, Return
  <2> QED BY <1>0, <2>1
<1> QED BY <1>1, <1>2, <1>3, <1>4, <1>5, <1>6, <1>7 DEF Next, MainNext

KInv == SInv /\ Unserved

LEMMA KeptInit == Init => KInv
  BY StoredInit DEF Init, KInv, Unserved

LEMMA KeptNext == KInv /\ [Next]_vars => KInv'
<1> SUFFICES ASSUME KInv, [Next]_vars PROVE KInv'
  OBVIOUS
<1>1. SInv'
  BY StoredNext DEF KInv
<1>2. TypeOK /\ TypeOK' /\ Unserved
  BY <1>1 DEF KInv, SInv
<1> QED BY <1>1, <1>2, UnservedNext DEF KInv

Same(d) == Stage(d)' = Stage(d)

(* The steps of Reading, as changes of one stage. *)
Moves(c) ==
    /\ \A d \in Conns : d # c => Same(d)
    /\ \/ Stage(c) = "unsent" /\ Stage(c)' \in {"sent", "lost"}
       \/ Stage(c) = "sent" /\ Stage(c)' \in {"stored", "lost"}

LEMMA StageMoves ==
    ASSUME (\A d \in Conns : Same(d)) \/ (\E c \in Conns : Moves(c))
    PROVE  [R!Next]_([c \in Conns |-> Stage(c)])
<1>1. CASE \A d \in Conns : Same(d)
  <2>1. [d \in Conns |-> Stage(d)]' = [d \in Conns |-> Stage(d)]
    BY <1>1 DEF Same
  <2> QED BY <2>1
<1>2. ASSUME NEW c \in Conns, Moves(c) PROVE R!Next
  <2> DEFINE s == [d \in Conns |-> Stage(d)]
  <2>1. s[c] = Stage(c)
    OBVIOUS
  <2>2. s' = [s EXCEPT ![c] = Stage(c)']
    BY <1>2 DEF Moves, Same
  <2>3. R!Send(c) \/ R!Record(c) \/ R!Lose(c)
    <3> HIDE DEF s
    <3>1. CASE Stage(c) = "unsent" /\ Stage(c)' = "sent"
      BY <2>1, <2>2, <3>1 DEF R!Send, R!Step, s
    <3>2. CASE Stage(c) = "sent" /\ Stage(c)' = "stored"
      BY <2>1, <2>2, <3>2 DEF R!Record, R!Step, s
    <3>3. CASE Stage(c) \in {"unsent", "sent"} /\ Stage(c)' = "lost"
      BY <2>1, <2>2, <3>3 DEF R!Lose, R!Step, s
    <3> QED BY <1>2, <3>1, <3>2, <3>3 DEF Moves
  <2> QED BY <2>3 DEF R!Next
<1> QED BY <1>1, <1>2

(* Nothing that the stages are read from changes in a step of main(). *)
LEMMA StageMain ==
    ASSUME KInv, MainNext
    PROVE  \A d \in Conns : Same(d)
<1> USE DEF KInv, SInv, Unserved, TypeOK, Same, Stage, OnItsWay, Carries
<1>1. \A c, d \in Conns : Carries(c, d)' <=> Carries(c, d)
  <2>1. CASE Create
    BY <2>1 DEF Create, ThreadLocations
  <2>2. CASE ~Create
    BY <2>2 DEF MainNext, Loop, Accept, AcceptFails, AcceptLoses, Start, CreateFails,
                AttrFails, Test, Sleep, Return
  <2> QED BY <2>1, <2>2
<1>2. UNCHANGED <<net, stored>>
  BY DEF MainNext, Loop, Accept, AcceptFails, AcceptLoses, Start, Create, CreateFails,
         AttrFails, Test, Sleep, Return
<1> HIDE DEF Carries
<1> QED BY <1>1, <1>2

LEMMA StageThread ==
    ASSUME SInv, NEW c \in Conns, ThreadNext(c)
    PROVE  (\A d \in Conns : Same(d)) \/ (\E t \in Conns : Moves(t))
<1> USE DEF SInv, StoredOnce, OnlyCarrier
<1>0. /\ thread \in [Conns -> ThreadLocations] /\ target \in [Conns -> Conns \cup {"none", "file"}]
      /\ net \in [Conns -> {"idle", "open", "data", "eof"}]
      /\ stored \in [Conns -> Nat]
  BY DEF TypeOK
<1>1. CASE Load(c) \/ ReceiveFile(c) \/ ReceiveNothing(c) \/ Drop(c) \/ Open(c) \/ OpenFails(c)
           \/ Insert(c) \/ Close(c) \/ Over(c)
  <2>1. UNCHANGED <<net, stored>>
    BY <1>1 DEF Load, ReceiveFile, ReceiveNothing, Drop, Open, OpenFails, Insert, Close, Over
  <2>2. \A e, d \in Conns : Carries(e, d)' <=> Carries(e, d)
    BY <1>0, <1>1 DEF Carries, Load, ReceiveFile, ReceiveNothing, Drop, Open, OpenFails, Insert, Close, Over
  <2> QED BY <2>1, <2>2 DEF Same, Stage, OnItsWay
<1>2. CASE Receive(c)
  <2>1. PICK t \in Conns : t = target[c] /\ net[t] = "data" /\ net' = [net EXCEPT ![t] = "eof"]
    BY <1>0, <1>2 DEF Receive
  <2>2. UNCHANGED <<target, stored>> /\ \A e \in Conns :
            thread'[e] = IF e = c THEN "open" ELSE thread[e]
    BY <1>0, <1>2 DEF Receive
  <2>3. thread[c] = "read"
    BY <1>2 DEF Receive
  <2>4. \A e, d \in Conns : Carries(e, d)' <=> Carries(e, d) \/ (e = c /\ d = t)
    BY <2>1, <2>2, <2>3 DEF Carries
  <2>5. \A d \in Conns : OnItsWay(d)' <=> OnItsWay(d)
    BY <1>0, <2>1, <2>4 DEF OnItsWay
  <2>6. \A d \in Conns : net'[d] = net[d] \/ (d = t /\ OnItsWay(d))
    BY <1>0, <2>1 DEF OnItsWay
  <2> QED BY <2>2, <2>5, <2>6 DEF Same, Stage
<1>4. CASE (InsertBusy(c) \/ Commit(c) \/ CommitFails(c)) /\ target[c] \notin Conns
  <2>1. UNCHANGED <<target, net>> /\ \A e \in Conns : e # c => thread'[e] = thread[e]
    BY <1>0, <1>4 DEF InsertBusy, Commit, CommitFails
  <2>2. \A d \in Conns : stored'[d] = stored[d]
    BY <1>4 DEF InsertBusy, Commit, CommitFails, Inserted
  <2>3. \A e, d \in Conns : Carries(e, d)' <=> Carries(e, d)
    BY <1>4, <2>1 DEF Carries
  <2> QED BY <2>1, <2>2, <2>3 DEF Same, Stage, OnItsWay
<1>3. CASE (InsertBusy(c) \/ Commit(c) \/ CommitFails(c)) /\ target[c] \in Conns
  <2>1. PICK t \in Conns : t = target[c]
    BY <1>3 DEF InsertBusy, Commit, CommitFails
  <2>2. /\ UNCHANGED <<target, net>> /\ thread[c] \in {"insert", "commit"}
        /\ \A e \in Conns : thread'[e] = IF e = c THEN "close" ELSE thread[e]
        /\ \A d \in Conns : stored'[d] = stored[d] \/ (d = t /\ stored'[d] = stored[d] + 1)
    BY <1>0, <1>3, <2>1 DEF InsertBusy, Commit, CommitFails, Inserted
  <2>3. Carries(c, t) /\ net[t] = "eof" /\ stored[t] = 0
    BY <2>1, <2>2 DEF Carries
  <2>4. \A e, d \in Conns : Carries(e, d)' <=> Carries(e, d) /\ ~(e = c /\ d = t)
    BY <2>1, <2>2 DEF Carries
  <2>5. \A d \in Conns : d # t => (OnItsWay(d)' <=> OnItsWay(d))
    BY <2>2, <2>4 DEF OnItsWay
  <2>6. OnItsWay(t) /\ ~OnItsWay(t)'
    BY <2>2, <2>3, <2>4 DEF OnItsWay
  <2>7. \A d \in Conns : d # t => Same(d)
    BY <1>0, <2>2, <2>5 DEF Same, Stage
  <2>8. Stage(t) = "sent" /\ Stage(t)' \in {"stored", "lost"}
    BY <1>0, <2>2, <2>3, <2>6 DEF Stage
  <2> QED BY <2>7, <2>8 DEF Moves
<1> QED BY <1>1, <1>2, <1>3, <1>4 DEF ThreadNext

LEMMA StageClient ==
    ASSUME SInv, NEW c \in Conns, ClientConnect(c) \/ ClientSend(c) \/ ClientDies(c)
    PROVE  (\A d \in Conns : Same(d)) \/ (\E t \in Conns : Moves(t))
<1> USE DEF SInv, StoredOnce, OnlyCarrier
<1>0. net \in [Conns -> {"idle", "open", "data", "eof"}] /\ stored \in [Conns -> Nat]
  BY DEF TypeOK
<1>1. UNCHANGED <<thread, target, stored>> /\ net[c] \in {"idle", "open"}
  BY DEF ClientConnect, ClientSend, ClientDies, Client
<1>2. \A e, d \in Conns : Carries(e, d)' <=> Carries(e, d)
  BY <1>1 DEF Carries
<1>3. stored[c] = 0 /\ \A e \in Conns : ~Carries(e, c)
  BY <1>0, <1>1
<1>4. \A d \in Conns : d # c => net'[d] = net[d]
  BY <1>0 DEF ClientConnect, ClientSend, ClientDies, Client
<1>5. \A d \in Conns : d # c => Same(d)
  BY <1>1, <1>2, <1>4 DEF Same, Stage, OnItsWay
<1>6. Stage(c) = "unsent"
  BY <1>1, <1>3 DEF Stage, OnItsWay
<1>7. \A e \in Conns : ~Carries(e, c)'
  BY <1>2, <1>3
<1>8. CASE ClientConnect(c)
  <2>1. net'[c] = "open"
    BY <1>0, <1>8 DEF ClientConnect, Client
  <2>2. Same(c)
    BY <1>1, <1>3, <1>6, <1>7, <2>1 DEF Same, Stage, OnItsWay
  <2> QED BY <1>5, <2>2
<1>9. CASE ClientSend(c) \/ ClientDies(c)
  <2>1. net'[c] \in {"data", "eof"}
    BY <1>0, <1>9 DEF ClientSend, ClientDies, Client
  <2>2. Stage(c)' \in {"sent", "lost"}
    BY <1>1, <1>3, <1>7, <2>1 DEF Stage, OnItsWay
  <2> QED BY <1>5, <1>6, <2>2 DEF Moves
<1> QED BY <1>8, <1>9

LEMMA StageNext == KInv /\ [Next]_vars => [R!Next]_([c \in Conns |-> Stage(c)])
<1> SUFFICES ASSUME KInv, [Next]_vars
             PROVE  (\A d \in Conns : Same(d)) \/ (\E t \in Conns : Moves(t))
  BY StageMoves
<1>1. CASE UNCHANGED vars
  BY <1>1 DEF vars, Same, Stage, OnItsWay, Carries
<1>2. CASE sig_usr
  BY <1>2 DEF sig_usr, Same, Stage, OnItsWay, Carries
<1> QED BY <1>1, <1>2, StageMain, StageThread, StageClient DEF Next, KInv

(* TempServer implements Reading: no reading is stored before it was sent,  *)
(* stored twice, or stored after it was lost.                               *)
THEOREM ReadingKeptHolds == Spec => ReadingKept
<1>1. Init => R!Init
  BY DEF Init, R!Init, Stage, OnItsWay, Carries
<1>2. KInv /\ [Next]_vars => [R!Next]_([c \in Conns |-> Stage(c)])
  BY StageNext
<1> QED BY <1>1, <1>2, KeptInit, KeptNext, PTL DEF Spec, ReadingKept, R!Spec

-----------------------------------------------------------------------------
(* While no thread is late the frame works as a mailbox: there is at most   *)
(* one thread at a time, and only while main is in pthread_start.           *)

AtWork == {"load", "read", "drop", "open", "insert", "commit", "close"}

(* At most one thread, and none outside of the wait in pthread_start; *)
OneThread ==
    /\ \A c \in Conns : Busy(c) => main \in {"test", "sleep"}
    /\ \A c, d \in Conns : Busy(c) /\ Busy(d) => c = d
    /\ main = "test" /\ p_over = 1 => \A c \in Conns : ~Busy(c)

(* the frame holds its descriptor until it has closed it; *)
Holds ==
    \A c \in Conns :
        /\ thread[c] \in AtWork => arg_fd \in Fds /\ owner[arg_fd] = c
        /\ thread[c] \in AtWork \ {"load"} => target[c] = c

(* a connection is accepted once and has one descriptor, and nobody closes  *)
(* the listening socket;                                                    *)
Fresh ==
    \A c \in Conns :
        c \in pending \/ net[c] = "idle" =>
            thread[c] = "none" /\ (\A f \in Fds : owner[f] # c)

Given ==
    /\ \A c \in pending : net[c] # "idle"
    /\ main \in {"start", "create"} =>
          /\ new_fd \in Fds /\ owner[new_fd] = new_conn
          /\ new_conn \in Conns /\ thread[new_conn] = "none"
    /\ main = "create" => arg_fd = new_fd /\ p_over = 0

OneFd ==
    /\ \A f, g \in Fds : owner[f] = owner[g] /\ owner[f] # "free" => f = g
    /\ Listening

(* an open descriptor belongs to a thread that will close it, or to no      *)
(* thread at all; and the database is locked by a thread.                   *)
Closes ==
    /\ \A f \in Fds : owner[f] \in Conns => thread[owner[f]] \in AtWork \cup {"none"}
    /\ db # "free" => thread[db] = "commit"

OInv == TypeOK /\ OneThread /\ Holds /\ Fresh /\ Given /\ OneFd /\ Closes

(* All this until a thread is late; nothing is claimed afterwards. *)
PromptInv == TypeOK /\ (~late => OInv)

LEMMA OwnInit == Init => OInv
<1> SUFFICES ASSUME Init PROVE OInv
  OBVIOUS
<1>1. TypeOK
  BY TypeInit
<1> QED BY <1>1 DEF Init, OInv, OneThread, Holds, Fresh, Given, OneFd, Closes, Listening, Busy,
                    AtWork

LEMMA OwnMain ==
    ASSUME OInv, TypeOK', MainNext, ~late'
    PROVE  OInv'
<1> USE DEF OInv, OneThread, Holds, Fresh, Given, OneFd, Closes, Listening, Busy, AtWork
<1>0. /\ owner \in [Fds -> Conns \cup {"free", "listener"}] /\ thread \in [Conns -> ThreadLocations]
      /\ pending \subseteq Conns
  BY DEF TypeOK
<1>1. CASE Loop \/ AcceptFails \/ CreateFails \/ AttrFails \/ Test \/ Sleep
  <2>1. UNCHANGED <<accepted, frame, owner, pending, net, threads, files>>
    BY <1>1 DEF Loop, AcceptFails, CreateFails, AttrFails, Test, Sleep
  <2>2. /\ main' \notin {"start", "create"}
        /\ \A c \in Conns : Busy(c) => main' \in {"test", "sleep"}
    BY <1>1 DEF Loop, AcceptFails, CreateFails, AttrFails, Test, Sleep, TypeOK
  <2>3. main' = "test" => main = "create"
    BY <1>1 DEF Loop, AcceptFails, CreateFails, AttrFails, Test, Sleep
  <2> QED BY <2>1, <2>2, <2>3
<1>2. CASE Accept
  <2>1. Lowest \in Fds /\ owner[Lowest] = "free"
    BY <1>2, LowestIsFree DEF Accept, Free
  <2> PICK c \in pending : /\ pending' = pending \ {c} /\ new_conn' = c
                           /\ owner' = [owner EXCEPT ![Lowest] = c]
    BY <1>2 DEF Accept
  <2>2. /\ c \in Conns /\ c # "free" /\ thread[c] = "none" /\ (\A f \in Fds : owner[f] # c)
        /\ Lowest # listen_fd /\ listen_fd \in Fds
    BY <1>0, <2>1
  <2>3. \A f \in Fds : owner'[f] = IF f = Lowest THEN c ELSE owner[f]
    BY <1>0
  <2>4. /\ UNCHANGED <<frame, net, threads, files>> /\ main = "accept" /\ main' = "start"
        /\ new_fd' = Lowest
    BY <1>2 DEF Accept
  <2>5. \A d \in Conns : ~Busy(d)
    BY <2>4
  <2> HIDE DEF Fds
  <2>6. OneThread' /\ Holds'
    BY <1>0, <2>2, <2>4, <2>5
  <2>7. Given' /\ Closes'
    BY <1>0, <2>1, <2>2, <2>3, <2>4
  <2>8. Fresh' /\ OneFd'
    BY <1>0, <2>2, <2>3, <2>4
  <2> QED BY <2>6, <2>7, <2>8
<1>3. CASE Start \/ Return
  <2>1. /\ UNCHANGED <<accepted, owner, pending, net, threads, files>>
        /\ main \in {"start", "return"}
        /\ main' = "create" => main = "start" /\ arg_fd' = new_fd /\ p_over' = 0
        /\ main' \in {"create", "loop"}
    BY <1>3 DEF Start, Return
  <2>2. \A c \in Conns : ~Busy(c)
    BY <2>1
  <2> QED BY <2>1, <2>2
<1>4. CASE Create
  <2> DEFINE c == new_conn
  <2>1. /\ c \in Conns /\ thread[c] = "none" /\ arg_fd = new_fd /\ new_fd \in Fds
        /\ \A d \in Conns : ~Busy(d)
    BY <1>4 DEF Create
  <2>2. \A d \in Conns : thread'[d] = IF d = c THEN "load" ELSE thread[d]
    BY <1>0, <1>4 DEF Create
  <2>3. /\ UNCHANGED <<accepted, frame, owner, pending, net, target, files>>
        /\ main = "create" /\ main' = "test"
    BY <1>4 DEF Create
  <2>4. p_over = 0
    BY <1>4 DEF Create
  <2>5. /\ owner[arg_fd] = c /\ arg_fd \in Fds
        /\ c \notin pending /\ net[c] # "idle" /\ (db # "free" => db # c)
    <3>1. owner[new_fd] = c
      BY <1>4 DEF Create
    <3>2. c \notin pending /\ net[c] # "idle"
      BY <2>1, <3>1
    <3> QED BY <2>1, <3>1, <3>2
  <2> HIDE DEF c, Fds
  <2>6. OneThread' /\ Given' /\ OneFd'
    BY <2>1, <2>2, <2>3, <2>4
  <2>7. Holds'
    BY <1>0, <2>1, <2>2, <2>3, <2>5
  <2>8. Fresh'
    BY <2>2, <2>3, <2>5
  <2>9. Closes'
    <3>1. \A d \in Conns : thread[d] \in AtWork \cup {"none"} => thread'[d] \in AtWork \cup {"none"}
      BY <2>2
    <3>3. db # "free" => db \in Conns /\ thread'[db] = "commit"
      BY <2>2, <2>5 DEF TypeOK
    <3> QED BY <2>3, <3>1, <3>3
  <2> QED BY <2>6, <2>7, <2>8, <2>9
<1>5. CASE AcceptLoses
  <2>1. /\ UNCHANGED <<accepted, frame, owner, net, threads, files>>
        /\ pending' \subseteq pending /\ main = "accept" /\ main' = "loop"
    BY <1>5 DEF AcceptLoses
  <2>2. \A c \in Conns : ~Busy(c)
    BY <2>1
  <2> QED BY <2>1, <2>2
<1> QED BY <1>1, <1>2, <1>3, <1>4, <1>5 DEF MainNext

LEMMA OwnThread ==
    ASSUME OInv, TypeOK', NEW c \in Conns, ThreadNext(c)
    PROVE  OInv'
<1> USE DEF OInv, OneThread, Holds, Fresh, Given, OneFd, Closes, Listening, Busy, AtWork
<1>0. /\ owner \in [Fds -> Conns \cup {"free", "listener"}] /\ thread \in [Conns -> ThreadLocations]
      /\ target \in [Conns -> Conns \cup {"none", "file"}]
  BY DEF TypeOK
<1>a. Busy(c) /\ \A d \in Conns : Busy(d) => d = c
  BY DEF ThreadNext, Load, Receive, ReceiveFile, ReceiveNothing, Drop, Open, OpenFails, Insert, InsertBusy,
         Commit, CommitFails, Close, Over
<1>b. main \in {"test", "sleep"}
  BY <1>a
<1>1. CASE Load(c)
  <2>1. target'[c] = c
    BY <1>0, <1>1 DEF Load, Named
  <2> QED BY <1>0, <1>a, <1>b, <1>1, <2>1 DEF Load
<1>2. CASE Receive(c)
  <2>1. \A d \in Conns : net'[d] = "idle" => net[d] = "idle"
    BY <1>2 DEF Receive, TypeOK
  <2> QED BY <1>0, <1>a, <1>b, <1>2, <2>1 DEF Receive
<1>7. CASE ReceiveFile(c)
  BY <1>7 DEF ReceiveFile
<1>3. CASE ReceiveNothing(c) \/ Open(c) \/ Insert(c) \/ InsertBusy(c)
           \/ Commit(c) \/ CommitFails(c)
  <2>1. /\ UNCHANGED <<frame, owner, net, target>> /\ Main
        /\ thread[c] \in AtWork \ {"load"}
    BY <1>3 DEF ReceiveNothing, Open, Insert, InsertBusy, Commit, CommitFails
  <2>3. thread[c] # "commit" => db = "free"
    BY <1>a DEF TypeOK
  <2>7. db' # "free" => thread'[db'] = "commit"
    <3>1. CASE Insert(c)
      <4>1. db' = c /\ thread'[c] = "commit"
        BY <1>0, <3>1 DEF Insert
      <4> QED BY <4>1
    <3>2. CASE ReceiveNothing(c) \/ Open(c) \/ InsertBusy(c)
      <4>1. db' = db /\ thread[c] # "commit"
        BY <3>2 DEF ReceiveNothing, Open, InsertBusy
      <4> QED BY <2>3, <4>1
    <3>3. CASE Commit(c) \/ CommitFails(c)
      BY <3>3 DEF Commit, CommitFails
    <3> QED BY <1>3, <3>1, <3>2, <3>3
  <2>2. PICK l \in AtWork \ {"load"} :
            \A d \in Conns : thread'[d] = IF d = c THEN l ELSE thread[d]
    BY <1>0, <1>3 DEF ReceiveNothing, Open, Insert, InsertBusy, Commit, CommitFails
  <2> QED BY <1>0, <1>a, <1>b, <2>1, <2>2, <2>7
<1>4. CASE OpenFails(c)
  BY <1>4 DEF OpenFails
<1>5. CASE Drop(c) \/ Close(c)
  <2>1. arg_fd \in Fds /\ owner[arg_fd] = c
    BY <1>5 DEF Drop, Close
  <2>2. /\ UNCHANGED <<frame, net, target, files>> /\ Main
        /\ \A f \in Fds : owner'[f] = IF f = arg_fd THEN "free" ELSE owner[f]
    BY <1>5 DEF Drop, Close, CloseFd
  <2>3. PICK l \in {"over", "gone"} :
            \A d \in Conns : thread'[d] = IF d = c THEN l ELSE thread[d]
    BY <1>0, <1>5 DEF Drop, Close
  <2>4. db = "free"
    BY <1>a, <1>5 DEF Drop, Close, TypeOK
  <2>5. (\A f \in Fds : owner'[f] # c) /\ arg_fd # listen_fd /\ listen_fd \in Fds
    BY <2>1, <2>2
  <2> HIDE DEF Fds
  <2> QED BY <1>0, <1>a, <1>b, <2>1, <2>2, <2>3, <2>4, <2>5
<1>6. CASE Over(c)
  <2>1. \A d \in Conns : thread'[d] = IF d = c THEN "gone" ELSE thread[d]
    BY <1>0, <1>6 DEF Over
  <2>2. db = "free"
    BY <1>a, <1>6 DEF Over, TypeOK
  <2>3. \A f \in Fds : owner[f] # c
    BY <1>6 DEF Over
  <2> QED BY <1>0, <1>a, <1>b, <1>6, <2>1, <2>2, <2>3 DEF Over
<1> QED BY <1>1, <1>2, <1>3, <1>4, <1>5, <1>6, <1>7 DEF ThreadNext

LEMMA OwnNext == OInv /\ [Next]_vars /\ ~late' => OInv'
<1> SUFFICES ASSUME OInv, [Next]_vars, ~late' PROVE OInv'
  OBVIOUS
<1>0. TypeOK'
  BY TypeNext DEF OInv
<1> USE DEF OInv, OneThread, Holds, Fresh, Given, OneFd, Closes, Listening, Busy
<1>1. CASE UNCHANGED vars
  BY <1>0, <1>1 DEF vars
<1>2. CASE sig_usr
  BY <1>0, <1>2 DEF sig_usr
<1>3. ASSUME NEW c \in Conns, ClientConnect(c) \/ ClientSend(c) \/ ClientDies(c)
      PROVE  OInv'
  <2>1. UNCHANGED <<main, accepted, frame, owner, threads, files>>
    BY <1>3 DEF ClientConnect, ClientSend, ClientDies, Client
  <2>2. /\ \A d \in Conns : net'[d] = "idle" => net[d] = "idle"
        /\ net'[c] # "idle"
    BY <1>3 DEF ClientConnect, ClientSend, ClientDies, Client, TypeOK
  <2>3. \A d \in pending' : d \in pending \/ (d = c /\ net[c] = "idle")
    BY <1>3 DEF ClientConnect, ClientSend, ClientDies, Client
  <2>4. Fresh'
    <3> SUFFICES ASSUME NEW d \in Conns, d \in pending' \/ net'[d] = "idle"
                 PROVE  thread[d] = "none" /\ (\A f \in Fds : owner[f] # d)
      BY <2>1
    <3> QED BY <2>2, <2>3
  <2>5. \A d \in pending' : net'[d] # "idle"
    BY <2>2, <2>3 DEF TypeOK
  <2>6. Given'
    BY <2>1, <2>5
  <2>7. OneThread' /\ Holds' /\ OneFd' /\ Closes'
    BY <2>1
  <2> QED BY <1>0, <2>4, <2>6, <2>7
<1> QED BY <1>0, <1>1, <1>2, <1>3, OwnMain, OwnThread DEF Next

(* Once a thread was late this is never forgotten. *)
LEMMA LateStays == late /\ [Next]_vars => late'
  BY DEF Next, MainNext, ThreadNext, ClientConnect, ClientSend, ClientDies, Client, sig_usr, vars,
         Loop, Accept, AcceptFails, AcceptLoses, Start, Create, CreateFails, AttrFails, Test, Sleep,
         Return, Load, Receive, ReceiveFile, ReceiveNothing, Drop, Open, OpenFails, Insert, InsertBusy, Commit,
         CommitFails, Close, Over

LEMMA PromptNext == PromptInv /\ [Next]_vars => PromptInv'
  BY TypeNext, OwnNext, LateStays DEF PromptInv

LEMMA PromptHolds == Spec => []PromptInv
<1>1. Init => PromptInv
  BY OwnInit, TypeInit DEF PromptInv
<1> QED BY <1>1, PromptNext, PTL DEF Spec

(* As long as no thread was late, each serves the connection it was         *)
(* started for.                                                             *)
THEOREM OwnConnectionHolds == Spec => []OwnConnection
<1>1. PromptInv => OwnConnection
  BY DEF PromptInv, OInv, Holds, AtWork, OwnConnection
<1> QED BY <1>1, PromptHolds, PTL

(* As long as no thread was late, none finds the database locked.           *)
THEOREM NeverBusyHolds == Spec => []NeverBusy
<1>1. PromptInv => NeverBusy
  BY DEF PromptInv, OInv, TypeOK, OneThread, Closes, NeverBusy, Busy
<1> QED BY <1>1, PromptHolds, PTL

(* As long as no thread was late, no descriptor stays open.                 *)
THEOREM NothingLeaksHolds == Spec => []NothingLeaks
<1>1. PromptInv => NothingLeaks
  BY ZenonT(30) DEF PromptInv, OInv, TypeOK, OneThread, Closes, NothingLeaks, Busy, AtWork
<1> QED BY <1>1, PromptHolds, PTL
=============================================================================
