---------------------------- MODULE ServerProofs ----------------------------
(***************************************************************************)
(* What holds of Server for every set of clients, every number of          *)
(* commands and answers, and every order of the threads' steps.            *)
(***************************************************************************)
EXTENDS Server, TLAPS

-----------------------------------------------------------------------------
(* The inductive invariant *)

\* A client gets one worker, after its handshake, and a worker has a live
\* session until it frees it.
Served ==
  /\ \A c \in Clients : peer[c] \in {"away", "queued"} => wpc[c] = "none"
  /\ \A c \in Clients : wpc[c] \notin {"none", "done"} => session[c] = "live"
  /\ lpc = "connect" => peer[connfd] = "queued"
  /\ lpc = "verify"  => /\ peer[connfd] \in {"open", "closed"}
                        /\ wpc[connfd] = "none" /\ session[connfd] = "live"

\* An answer is on its way only after a command, or after the HELLO.
Prompted ==
  /\ answers > 0 \/ upc \notin {"read", "killed"} => greeted \/ recent # NoConn
  /\ \A c \in Clients : wpc[c] = "send" => recent # NoConn
  /\ upc = "write" => target \in Clients /\ wpc[target] # "none"

\* What brings networkActive down.
Ended == greeted \/ \E c \in Clients : peer[c] = "closed" /\ wpc[c] # "none"

\* Every place from which networkActive may fall, or a thread may find it
\* down, was reached because of that.
Caused ==
  \/ Ended
  \/ /\ networkActive
     /\ recent # NoConn => tls_conn # NoConn
     /\ \A c \in Clients : wpc[c] \notin {"reset", "exit", "done"}
     /\ \A c \in Clients : wpc[c] = "set" => len[c] = "data"
     /\ upc = "set" => count = "data"

Inv == TypeOK /\ Served /\ TlsConnLive /\ Prompted /\ Caused

-----------------------------------------------------------------------------
(* One lemma for each part *)

\* Every step keeps every type.
LEMMA TypeStep == TypeOK /\ [Next]_vars => TypeOK'
<1> SUFFICES ASSUME TypeOK, [Next]_vars PROVE TypeOK'
  OBVIOUS
<1> USE ClientsAssumption, BoundsAssumption
        DEF network, arduino, listener, workers, uart, shared, history,
            Looping, Outcomes
<1>1. ASSUME NEW c \in Clients, Connect(c) \/ SendCommand(c) \/ Close(c)
      PROVE  TypeOK'
  BY <1>1 DEF TypeOK, Connect, SendCommand, Close
<1>2. ASSUME NEW c \in Clients, Accept(c) PROVE TypeOK'
  BY <1>2 DEF TypeOK, Accept
<1>3. CASE AnswerHello
  BY <1>3 DEF TypeOK, AnswerHello
<1>4. CASE Refuse \/ Handshake
  BY <1>4 DEF TypeOK, Refuse, Handshake
<1>5. CASE Reject \/ Spawn
  BY <1>5 DEF TypeOK, Reject, Spawn
<1>6. ASSUME NEW c \in Clients, Test(c) \/ ReadEnd(c) PROVE TypeOK'
  BY <1>6 DEF TypeOK, Test, ReadEnd, Goto
<1>7. ASSUME NEW c \in Clients, ReadData(c) PROVE TypeOK'
  <2>1. inbox[c] \in Nat /\ inbox[c] > 0
    BY <1>7 DEF TypeOK, ReadData
  <2>2. inbox[c] - 1 \in Nat
    BY <2>1
  <2>3. inbox' \in [Clients -> Nat]
    BY <1>7, <2>2 DEF TypeOK, ReadData
  <2> QED
    BY <1>7, <2>3 DEF TypeOK, ReadData, Goto
<1>8. ASSUME NEW c \in Clients, SetActive(c) \/ Handle(c) PROVE TypeOK'
  BY <1>8 DEF TypeOK, SetActive, Handle, Goto
<1>9. ASSUME NEW c \in Clients, Forward(c) PROVE TypeOK'
  <2>1. PICK n \in 0 .. MaxAnswers : answers' = answers + n
    BY <1>9 DEF Forward
  <2>2. n \in Nat /\ answers' \in Nat
    BY <2>1 DEF TypeOK
  <2> QED
    BY <1>9, <2>2 DEF TypeOK, Forward, Goto
<1>10. ASSUME NEW c \in Clients, Reset(c) \/ Exit(c) PROVE TypeOK'
  BY <1>10 DEF TypeOK, Reset, Exit, Goto
<1>11. CASE Receive
  <2>1. answers' \in Nat
    BY <1>11 DEF TypeOK, Receive
  <2> QED
    BY <1>11, <2>1 DEF TypeOK, Receive
<1>12. CASE IfActive \/ StoreActive
  BY <1>12 DEF TypeOK, IfActive, StoreActive
<1>13. CASE IfConn
  BY <1>13 DEF TypeOK, IfConn
<1>14. CASE Write
  BY <1>14 DEF TypeOK, Write, Written, MisusedWith
<1>15. CASE KilledWriting
  BY <1>15 DEF TypeOK, KilledWriting, Killed, MisusedWith
<1>16. CASE KilledAccepting
  BY <1>16 DEF TypeOK, KilledAccepting, Killed
<1>17. CASE UNCHANGED vars
  BY <1>17 DEF TypeOK, vars
<1> QED
  BY <1>1, <1>2, <1>3, <1>4, <1>5, <1>6, <1>7, <1>8, <1>9, <1>10, <1>11, <1>12,
     <1>13, <1>14, <1>15, <1>16, <1>17 DEF Next, Worker, UART

\* The listener gives a client one worker, with a session of its own.
LEMMA ServedStep == Inv /\ [Next]_vars => Served'
<1> SUFFICES ASSUME Inv, [Next]_vars PROVE Served'
  OBVIOUS
<1> USE ClientsAssumption
        DEF Inv, TypeOK, Served, network, arduino, listener, workers, uart,
            shared, history, Looping
<1>1. ASSUME NEW c \in Clients,
             Connect(c) \/ SendCommand(c) \/ Close(c) \/ Accept(c)
      PROVE  Served'
  BY <1>1 DEF Connect, SendCommand, Close, Accept
<1>2. CASE AnswerHello \/ Refuse \/ Handshake
  BY <1>2 DEF AnswerHello, Refuse, Handshake
<1>3. CASE Reject \/ Spawn
  BY <1>3 DEF Reject, Spawn
<1>4. ASSUME NEW c \in Clients, Worker(c) PROVE Served'
  BY <1>4 DEF Worker, Test, ReadData, ReadEnd, SetActive, Handle, Forward, Reset,
              Exit, Goto
<1>5. CASE UART
  BY <1>5 DEF UART, Receive, IfActive, IfConn, Write, StoreActive
<1>6. CASE KilledWriting
  BY <1>6 DEF KilledWriting, Killed
<1>7. CASE KilledAccepting
  BY <1>7 DEF KilledAccepting, Killed
<1>8. CASE UNCHANGED vars
  BY <1>8 DEF vars
<1> QED
  BY <1>1, <1>2, <1>3, <1>4, <1>5, <1>6, <1>7, <1>8 DEF Next

\* Only Handle makes tls_conn point to a session, and the worker that did so
\* is the one that frees it, after resetting tls_conn.
LEMMA TlsConnStep == Inv /\ [Next]_vars => TlsConnLive'
<1> SUFFICES ASSUME Inv, [Next]_vars PROVE TlsConnLive'
  OBVIOUS
<1> USE ClientsAssumption
        DEF Inv, TypeOK, Served, TlsConnLive, network, arduino, listener,
            workers, uart, shared, history, Looping
<1>1. ASSUME NEW c \in Clients,
             Connect(c) \/ SendCommand(c) \/ Close(c) \/ Accept(c)
      PROVE  TlsConnLive'
  BY <1>1 DEF Connect, SendCommand, Close, Accept
<1>2. CASE AnswerHello \/ Refuse \/ Handshake
  BY <1>2 DEF AnswerHello, Refuse, Handshake
<1>3. CASE Reject \/ Spawn
  BY <1>3 DEF Reject, Spawn
<1>4. ASSUME NEW c \in Clients, Worker(c) PROVE TlsConnLive'
  BY <1>4 DEF Worker, Test, ReadData, ReadEnd, SetActive, Handle, Forward, Reset,
              Exit, Goto
<1>5. CASE UART
  BY <1>5 DEF UART, Receive, IfActive, IfConn, Write, StoreActive
<1>6. CASE KilledWriting
  BY <1>6 DEF KilledWriting, Killed
<1>7. CASE KilledAccepting
  BY <1>7 DEF KilledAccepting, Killed
<1>8. CASE UNCHANGED vars
  BY <1>8 DEF vars
<1> QED
  BY <1>1, <1>2, <1>3, <1>4, <1>5, <1>6, <1>7, <1>8 DEF Next

\* An answer was asked for, and has someone to go to unless that one left.
LEMMA PromptedStep == Inv /\ [Next]_vars => Prompted'
<1> SUFFICES ASSUME Inv, [Next]_vars PROVE Prompted'
  OBVIOUS
<1> USE ClientsAssumption
        DEF Inv, TypeOK, Served, Prompted, TlsConnLive, network, arduino,
            listener, workers, uart, shared, history, Looping
<1>1. ASSUME NEW c \in Clients,
             Connect(c) \/ SendCommand(c) \/ Close(c) \/ Accept(c)
      PROVE  Prompted'
  BY <1>1 DEF Connect, SendCommand, Close, Accept
<1>2. CASE AnswerHello \/ Refuse \/ Handshake
  BY <1>2 DEF AnswerHello, Refuse, Handshake
<1>3. CASE Reject \/ Spawn
  BY <1>3 DEF Reject, Spawn
<1>4. ASSUME NEW c \in Clients, Worker(c) PROVE Prompted'
  BY <1>4 DEF Worker, Test, ReadData, ReadEnd, SetActive, Handle, Forward, Reset,
              Exit, Goto
<1>5. CASE UART
  BY <1>5 DEF UART, Receive, IfActive, IfConn, Write, StoreActive
<1>6. CASE KilledWriting
  BY <1>6 DEF KilledWriting, Killed
<1>7. CASE KilledAccepting
  BY <1>7 DEF KilledAccepting, Killed
<1>8. CASE UNCHANGED vars
  BY <1>8 DEF vars
<1> QED
  BY <1>1, <1>2, <1>3, <1>4, <1>5, <1>6, <1>7, <1>8 DEF Next

\* A client that has gone stays away, and no worker is forgotten.
LEMMA EndedStable == Inv /\ Ended /\ [Next]_vars => Ended'
<1> SUFFICES ASSUME Inv, Ended, [Next]_vars PROVE Ended'
  OBVIOUS
<1>1. greeted => greeted'
  BY DEF Next, Connect, SendCommand, Close, Accept, AnswerHello, Refuse,
         Handshake, Reject, Spawn, Worker, Test, ReadData, ReadEnd, SetActive,
         Handle, Forward, Reset, Exit, UART, Receive, IfActive, IfConn, Write,
         StoreActive, KilledWriting, KilledAccepting, vars, arduino
<1>2. ASSUME NEW d \in Clients, peer[d] = "closed", wpc[d] # "none"
      PROVE  peer'[d] = "closed" /\ wpc'[d] # "none"
  <2> USE <1>2 DEF Inv, TypeOK, Served, network, workers, Goto
  <2>1. ASSUME NEW c \in Clients,
               Connect(c) \/ SendCommand(c) \/ Close(c) \/ Accept(c)
        PROVE  peer'[d] = "closed" /\ wpc'[d] # "none"
    BY <2>1 DEF Connect, SendCommand, Close, Accept
  <2>2. CASE AnswerHello \/ Refuse \/ Handshake \/ Reject \/ Spawn
    BY <2>2 DEF AnswerHello, Refuse, Handshake, Reject, Spawn
  <2>3. ASSUME NEW c \in Clients, Worker(c)
        PROVE  peer'[d] = "closed" /\ wpc'[d] # "none"
    BY <2>3 DEF Worker, Test, ReadData, ReadEnd, SetActive, Handle, Forward,
                Reset, Exit
  <2>4. CASE UART \/ UNCHANGED vars
    BY <2>4 DEF UART, Receive, IfActive, IfConn, Write, StoreActive, vars
  <2>5. CASE KilledWriting \/ KilledAccepting
    BY <2>5 DEF KilledWriting, KilledAccepting
  <2> QED
    BY <2>1, <2>2, <2>3, <2>4, <2>5 DEF Next
<1> QED
  BY <1>1, <1>2 DEF Ended

\* A write fails only if the client has gone: every other session the UART
\* thread may have in hand is live and open.
LEMMA WriteSucceeds ==
  ASSUME Inv, ~Ended, upc = "write", recent # NoConn => tls_conn # NoConn,
         \A c \in Clients : wpc[c] # "done",
         NEW t \in {target, tls_conn}
  PROVE  Reachable(t)
<1>1. t \in Clients /\ wpc[t] # "none"
  BY DEF Inv, TypeOK, Prompted, Ended, TlsConnLive, Looping
<1>2. session[t] = "live"
  BY <1>1 DEF Inv, Served
<1>3. peer[t] = "open"
  BY <1>1 DEF Inv, TypeOK, Served, Ended
<1> QED
  BY <1>1, <1>2, <1>3, ClientsAssumption DEF Reachable

\* Nothing brings networkActive down, or ends a worker, before a client goes.
LEMMA CausedStep == Inv /\ [Next]_vars => Caused'
<1> SUFFICES ASSUME Inv, [Next]_vars, ~Ended, ~Ended' PROVE Caused'
  BY EndedStable DEF Caused
<1>1. /\ networkActive
      /\ recent # NoConn => tls_conn # NoConn
      /\ \A c \in Clients : wpc[c] \notin {"reset", "exit", "done"}
      /\ \A c \in Clients : wpc[c] = "set" => len[c] = "data"
      /\ upc = "set" => count = "data"
  BY DEF Inv, Caused
<1> USE <1>1, ClientsAssumption
        DEF Caused, network, arduino, listener, workers, uart, shared, history
<1>2. ASSUME NEW c \in Clients,
             Connect(c) \/ SendCommand(c) \/ Close(c) \/ Accept(c)
      PROVE  Caused'
  BY <1>2 DEF Connect, SendCommand, Close, Accept
<1>3. CASE AnswerHello \/ Refuse \/ Handshake
  BY <1>3 DEF AnswerHello, Refuse, Handshake
<1>4. CASE Reject \/ Spawn
  BY <1>4 DEF Reject, Spawn, Inv, TypeOK
<1>5. ASSUME NEW c \in Clients, Worker(c) PROVE Caused'
  <2>1. ~ReadEnd(c)
    BY DEF ReadEnd, Ended
  <2> USE DEF Inv, TypeOK, Goto
  <2>2. CASE Test(c)
    BY <2>2 DEF Test
  <2>3. CASE ReadData(c)
    <3>1. /\ len' = [len EXCEPT ![c] = "data"]
          /\ wpc' = [wpc EXCEPT ![c] = "set"]
          /\ UNCHANGED <<networkActive, tls_conn, recent, upc, count>>
      BY <2>3 DEF ReadData
    <3>2. \A d \in Clients : wpc'[d] = "set" => len'[d] = "data"
      BY <3>1
    <3> QED
      BY <3>1, <3>2
  <2>4. CASE SetActive(c)
    BY <2>4 DEF SetActive
  <2>5. CASE Handle(c)
    BY <2>5 DEF Handle
  <2>6. CASE Forward(c)
    BY <2>6 DEF Forward
  <2>7. CASE Reset(c) \/ Exit(c)
    BY <2>7 DEF Reset, Exit
  <2> QED
    BY <1>5, <2>1, <2>2, <2>3, <2>4, <2>5, <2>6, <2>7 DEF Worker
<1>6. CASE Receive \/ IfActive \/ StoreActive
  BY <1>6 DEF Receive, IfActive, StoreActive
<1>7. CASE IfConn
  <2>1. tls_conn # NoConn
    BY <1>7 DEF IfConn, Inv, Prompted, Ended
  <2> QED
    BY <1>7, <2>1 DEF IfConn
<1>8. CASE Write
  <2>1. count' = "data"
    BY <1>8, WriteSucceeds DEF Write, Written
  <2> QED
    BY <1>8, <2>1 DEF Write
<1>9. CASE KilledWriting \/ KilledAccepting
  BY <1>9 DEF KilledWriting, KilledAccepting, Killed
<1>10. CASE UNCHANGED vars
  BY <1>10 DEF vars
<1> QED
  BY <1>2, <1>3, <1>4, <1>5, <1>6, <1>7, <1>8, <1>9, <1>10 DEF Next, UART

\* The invariant holds when the threads start, and whatever they do.
LEMMA Invariance == Spec => []Inv
<1>1. Init => Inv
  <2> SUFFICES ASSUME Init PROVE Inv
    OBVIOUS
  <2>1. TypeOK
    <3>1. /\ peer \in [Clients -> {"away", "queued", "open", "closed"}]
          /\ inbox \in [Clients -> Nat]
          /\ session \in [Clients -> {"none", "live", "freed"}]
      BY DEF Init
    <3>2. /\ wpc \in [Clients -> Looping \cup {"none", "reset", "exit", "done"}]
          /\ len \in [Clients -> Outcomes]
      BY DEF Init, Outcomes
    <3>3. commands \in 0 .. MaxCommands /\ misused = {}
      BY BoundsAssumption DEF Init
    <3> QED
      BY <3>1, <3>2, <3>3 DEF Init, TypeOK, Outcomes
  <2>2. Served /\ TlsConnLive /\ Prompted
    BY DEF Init, Served, TlsConnLive, Prompted
  <2>3. Caused
    BY DEF Init, Caused
  <2> QED
    BY <2>1, <2>2, <2>3 DEF Inv
<1>2. Inv /\ [Next]_vars => Inv'
  BY TypeStep, ServedStep, TlsConnStep, PromptedStep, CausedStep DEF Inv
<1> QED
  BY <1>1, <1>2, PTL DEF Spec

-----------------------------------------------------------------------------
(* Results *)

\* Every variable of the server keeps its type.
THEOREM TypeCorrect == Spec => []TypeOK
<1>1. Inv => TypeOK
  BY DEF Inv
<1> QED
  BY <1>1, Invariance, PTL

\* However many clients come and go, tls_conn is NULL or points to the live
\* session of the client whose data was handled last.
THEOREM TlsConnNeverDangles == Spec => []TlsConnLive
<1>1. Inv => TlsConnLive
  BY DEF Inv
<1> QED
  BY <1>1, Invariance, PTL

\* As long as no client goes, and the HELLO is not answered, the network
\* stays up: neither the answers nor the uninitialised count bring it down.
THEOREM NetworkStaysUp == Spec => []NetworkFallsOnlyByEnd
<1>1. Inv => NetworkFallsOnlyByEnd
  BY DEF Inv, Caused, Ended, NetworkFallsOnlyByEnd
<1> QED
  BY <1>1, Invariance, PTL

\* As long as no client goes, be it from its handshake, and the HELLO is not
\* answered, the process lives: the UART thread writes to no session that its
\* worker has left.
THEOREM ProcessLives == Spec => []DiesOnlyByEnd
<1>1. Init => DiesOnlyByEnd
  BY DEF Init, DiesOnlyByEnd, Running
<1>2. Inv /\ DiesOnlyByEnd /\ [Next]_vars => DiesOnlyByEnd'
  <2> SUFFICES ASSUME Inv, DiesOnlyByEnd, [Next]_vars PROVE DiesOnlyByEnd'
    OBVIOUS
  <2>1. CASE Ended
    BY <2>1, EndedStable DEF Ended, DiesOnlyByEnd
  <2>2. CASE ~Ended /\ KilledWriting
    <3>1. PICK t \in {target, tls_conn} : ~Reachable(t)
      BY <2>2 DEF KilledWriting
    <3> QED
      BY <2>2, <3>1, WriteSucceeds DEF KilledWriting, Inv, Caused
  <2>3. CASE KilledAccepting
    BY <2>3 DEF KilledAccepting, listener, Inv, TypeOK, DiesOnlyByEnd
  <2>4. CASE UNCHANGED vars
    BY <2>4 DEF vars, network, arduino, listener, workers, uart, DiesOnlyByEnd,
                Running
  <2>5. CASE Next /\ ~KilledWriting /\ ~KilledAccepting
    <3>1. Running
      BY <2>5 DEF Next, Connect, SendCommand, Close, Accept, AnswerHello, Refuse,
         Handshake, Reject, Spawn, Worker, Test, ReadData, ReadEnd, SetActive,
         Handle, Forward, Reset, Exit, UART, Receive, IfActive, IfConn, Write,
         StoreActive, Running, Inv, TypeOK
    <3>2. Running'
      BY <2>5, <3>1 DEF Next, Connect, SendCommand, Close, Accept, AnswerHello,
         Refuse, Handshake, Reject, Spawn, Worker, Test, ReadData, ReadEnd,
         SetActive, Handle, Forward, Reset, Exit, UART, Receive, IfActive, IfConn,
         Write, StoreActive, Running, uart
    <3> QED
      BY <3>2 DEF DiesOnlyByEnd
  <2> QED
    BY <2>1, <2>2, <2>3, <2>4, <2>5
<1> QED
  BY <1>1, <1>2, Invariance, PTL DEF Spec

\* Once networkActive is down and no thread is about to raise it, no step of
\* any thread and no new client brings the network up again.
THEOREM NetworkStaysDown == Spec => DownIsForGood
<1>1. TypeOK /\ [Next]_vars => (Down => Down')
  <2> SUFFICES ASSUME TypeOK, [Next]_vars, Down PROVE Down'
    OBVIOUS
  <2> USE DEF Down, TypeOK, network, arduino, listener, workers, uart, shared,
              history
  <2>1. ASSUME NEW c \in Clients,
               Connect(c) \/ SendCommand(c) \/ Close(c) \/ Accept(c)
        PROVE  Down'
    BY <2>1 DEF Connect, SendCommand, Close, Accept
  <2>2. CASE AnswerHello \/ Refuse \/ Handshake \/ Reject \/ Spawn
    BY <2>2 DEF AnswerHello, Refuse, Handshake, Reject, Spawn
  <2>3. ASSUME NEW c \in Clients, Worker(c) PROVE Down'
    BY <2>3 DEF Worker, Test, ReadData, ReadEnd, SetActive, Handle, Forward,
                Reset, Exit, Goto
  <2>4. CASE UART \/ UNCHANGED vars
    BY <2>4 DEF UART, Receive, IfActive, IfConn, Write, StoreActive, vars
  <2>5. CASE KilledWriting \/ KilledAccepting
    BY <2>5 DEF KilledWriting, KilledAccepting, Killed
  <2> QED
    BY <2>1, <2>2, <2>3, <2>4, <2>5 DEF Next
<1>2. TypeOK /\ [Next]_vars => [Down => Down']_vars
  BY <1>1
<1> QED
  BY <1>2, TypeCorrect, PTL DEF Spec, DownIsForGood

-----------------------------------------------------------------------------
(* Where an answer may be written by mistake *)

\* A worker has left its loop, and has reset tls_conn.
Left == \E c \in Clients : wpc[c] \in {"exit", "done"}

\* A session is freed at the end of its worker, or before it has one when the
\* client is refused; and an answer about to be written has someone to go to
\* unless a worker has left.
Gone ==
  /\ \A c \in Clients : wpc[c] = "done" => session[c] = "freed"
  /\ \A c \in Clients :
       session[c] = "freed" => \/ wpc[c] = "done"
                               \/ wpc[c] = "none" /\ peer[c] = "closed"
  /\ upc = "write" => tls_conn # NoConn \/ Left

\* What a worker has left and what is freed stays so; only a worker that leaves
\* takes tls_conn back.
LEMMA GoneStep ==
  ASSUME Inv, Gone, [Next]_vars
  PROVE  /\ Gone' /\ (Left => Left')
         /\ \A c \in Clients : session[c] = "freed" => session'[c] = "freed"
<1> USE ClientsAssumption
        DEF Inv, TypeOK, Served, Gone, Left, network, arduino, listener, workers,
            uart, shared, history, Looping
<1> DEFINE Goal == /\ Gone' /\ (Left => Left')
                   /\ \A c \in Clients : session[c] = "freed" => session'[c] = "freed"
<1>1. ASSUME NEW c \in Clients,
             Connect(c) \/ SendCommand(c) \/ Close(c) \/ Accept(c)
      PROVE  Goal
  BY <1>1 DEF Connect, SendCommand, Close, Accept
<1>2. CASE AnswerHello \/ Refuse \/ Handshake
  BY <1>2 DEF AnswerHello, Refuse, Handshake
<1>3. CASE Reject \/ Spawn
  BY <1>3 DEF Reject, Spawn
<1>4. ASSUME NEW c \in Clients, Worker(c) PROVE Goal
  <2>1. CASE Test(c) \/ ReadData(c) \/ ReadEnd(c) \/ SetActive(c)
    BY <2>1 DEF Test, ReadData, ReadEnd, SetActive, Goto
  <2>2. CASE Handle(c) \/ Forward(c)
    BY <2>2 DEF Handle, Forward, Goto
  <2>3. CASE Reset(c)
    BY <2>3 DEF Reset, Goto
  <2>4. CASE Exit(c)
    <3>1. /\ wpc[c] = "exit"
          /\ session' = [session EXCEPT ![c] = "freed"]
          /\ wpc' = [wpc EXCEPT ![c] = "done"]
          /\ UNCHANGED <<peer, upc, tls_conn>>
      BY <2>4 DEF Exit, Goto
    <3>2. /\ session'[c] = "freed" /\ wpc'[c] = "done"
          /\ \A d \in Clients \ {c} : session'[d] = session[d] /\ wpc'[d] = wpc[d]
      BY <3>1
    <3>3. Left'
      BY <3>2
    <3>4. Gone'
      <4>1. ASSUME NEW d \in Clients
            PROVE  /\ wpc'[d] = "done" => session'[d] = "freed"
                   /\ session'[d] = "freed"
                        => \/ wpc'[d] = "done"
                           \/ wpc'[d] = "none" /\ peer'[d] = "closed"
        <5>1. CASE d = c
          BY <3>2, <5>1
        <5>2. CASE d # c
          BY <3>1, <3>2, <5>2
        <5> QED
          BY <5>1, <5>2
      <4> QED
        BY <3>3, <4>1
    <3>5. \A d \in Clients : session[d] = "freed" => session'[d] = "freed"
      BY <3>2
    <3> QED
      BY <3>3, <3>4, <3>5
  <2> QED
    BY <1>4, <2>1, <2>2, <2>3, <2>4 DEF Worker
<1>5. CASE UART
  BY <1>5 DEF UART, Receive, IfActive, IfConn, Write, StoreActive
<1>6. CASE KilledWriting
  BY <1>6 DEF KilledWriting, Killed
<1>7. CASE KilledAccepting
  BY <1>7 DEF KilledAccepting, Killed
<1>8. CASE UNCHANGED vars
  BY <1>8 DEF vars
<1> QED
  BY <1>1, <1>2, <1>3, <1>4, <1>5, <1>6, <1>7, <1>8 DEF Next

\* A write that goes wrong goes to a freed session, or to NULL after a worker
\* has left.
LEMMA MisusedStep ==
  ASSUME Inv, Gone, MisusedOnlyIfGone, [Next]_vars
  PROVE  MisusedOnlyIfGone'
<1> SUFFICES ASSUME NEW t \in misused'
             PROVE  /\ t # NoConn => session'[t] = "freed"
                    /\ Left'
  BY DEF MisusedOnlyIfGone, Left
<1>0. /\ Left => Left'
      /\ \A c \in Clients : session[c] = "freed" => session'[c] = "freed"
  BY GoneStep
<1>1. CASE t \in misused
  BY <1>0, <1>1 DEF MisusedOnlyIfGone, Left, Inv, TypeOK
<1>2. CASE t \notin misused
  <2>1. upc = "write" /\ t \in {target, tls_conn} /\ (t = NoConn \/ session[t] # "live")
    BY <1>2 DEF Next, Connect, SendCommand, Close, Accept, AnswerHello, Refuse,
       Handshake, Reject, Spawn, Worker, Test, ReadData, ReadEnd, SetActive, Handle,
       Forward, Reset, Exit, UART, Receive, IfActive, IfConn, Write, StoreActive,
       KilledWriting, KilledAccepting, MisusedWith, vars, history
  <2>2. CASE t = NoConn
    <3>1. tls_conn = NoConn
      BY <2>1, <2>2, ClientsAssumption DEF Inv, Prompted
    <3> QED
      BY <1>0, <2>1, <2>2, <3>1 DEF Gone
  <2>3. CASE t # NoConn
    <3>1. t = target /\ t \in Clients /\ wpc[t] # "none"
      BY <2>1, <2>3 DEF Inv, TlsConnLive, Prompted
    <3>2. wpc[t] = "done"
      BY <2>1, <2>3, <3>1 DEF Inv, Served
    <3>3. session[t] = "freed" /\ Left
      BY <3>1, <3>2 DEF Gone, Left
    <3> QED
      BY <1>0, <3>1, <3>3
  <2> QED
    BY <2>2, <2>3
<1> QED
  BY <1>1, <1>2

\* However the answers, the workers and new clients interleave, an answer is
\* written to a session that is gone only after a worker has left its loop, and
\* never to a session before its handshake: the race on tls_conn is confined to
\* the end of a connection.
THEOREM MisuseAtEnd == Spec => []MisusedOnlyIfGone
<1>1. Init => Gone /\ MisusedOnlyIfGone
  BY DEF Init, Gone, MisusedOnlyIfGone
<1>2. /\ Inv /\ Gone /\ MisusedOnlyIfGone /\ [Next]_vars
      => Gone' /\ MisusedOnlyIfGone'
  BY GoneStep, MisusedStep
<1> QED
  BY <1>1, <1>2, Invariance, PTL DEF Spec
=============================================================================
