------------------------------- MODULE Server -------------------------------
(***************************************************************************)
(* The Pi's half of Alex: tls-alex-server.cpp and the listener of          *)
(* make_tls_server.cpp.  The listener thread accepts connections and       *)
(* starts a worker thread for each; a worker reads its client's commands   *)
(* and passes them to the Arduino; one uartReceiveThread takes the         *)
(* Arduino's answers to whichever client gave the last command.  They      *)
(* share networkActive and tls_conn, and no lock.                          *)
(*                                                                         *)
(* Every read or write of a shared variable, and every call that may block *)
(* or fail, is a step of its own.                                          *)
(***************************************************************************)
EXTENDS Integers, FiniteSets

CONSTANTS Clients,       \* the connections that may be made
          NoConn,        \* tls_conn = NULL
          MaxCommands,   \* bound on the commands of all clients
          MaxAnswers     \* most packets the Arduino answers one with

ASSUME ClientsAssumption == NoConn \notin Clients
ASSUME BoundsAssumption  == MaxCommands \in Nat /\ MaxAnswers \in Nat \ {0}

VARIABLES
  \* the clients and the network
  peer,           \* of each client: away, queued, open or closed
  inbox,          \* commands a client sent that no sslRead has returned
  commands,       \* commands the clients have sent
  \* the Arduino
  answers,        \* packets on their way from the Arduino
  greeted,        \* it answered the HELLO: with BAD_PACKET, if garbled
  \* the listener thread
  lpc, connfd,
  \* the sessions, and the worker thread of each
  session,        \* none, live, or freed by SSL_free
  wpc, len,
  \* uartReceiveThread: where it is, and the locals of sendNetworkData()
  upc, target, count,
  \* shared by all threads
  networkActive, tls_conn,
  \* history
  recent,         \* the client whose data a worker handled last
  misused         \* sessions written to after SSL_free

\* What a read or a write of a connection returns: more than 0, or not.
Outcomes == {"data", "end"}

network  == <<peer, inbox, commands>>
arduino  == <<answers, greeted>>
listener == <<lpc, connfd>>
workers  == <<session, wpc, len>>
uart     == <<upc, target, count>>
shared   == <<networkActive, tls_conn>>
history  == <<recent, misused>>
vars     == <<network, arduino, listener, workers, uart, shared, history>>

Init ==
  /\ peer = [c \in Clients |-> "away"]
  /\ inbox = [c \in Clients |-> 0] /\ commands = 0
  /\ answers = 0 /\ greeted = FALSE
  /\ lpc = "accept" /\ connfd = NoConn
  /\ session = [c \in Clients |-> "none"]
  /\ wpc = [c \in Clients |-> "none"]
  /\ len = [c \in Clients |-> "data"]
  /\ upc = "read" /\ target = NoConn /\ count = "data"
  /\ networkActive = TRUE /\ tls_conn = NoConn
  /\ recent = NoConn /\ misused = {}

\* A thread that is killed takes the others with it; what becomes of the
\* clients and the Arduino then is not followed.
Running == upc # "killed"

-----------------------------------------------------------------------------
(* The clients *)

Connect(c) ==
  /\ Running /\ peer[c] = "away"
  /\ peer' = [peer EXCEPT ![c] = "queued"]
  /\ UNCHANGED <<inbox, commands, arduino, listener, workers, uart, shared,
                 history>>

\* A client that is through the handshake sends a command.
SendCommand(c) ==
  /\ Running /\ peer[c] = "open" /\ commands < MaxCommands
  /\ inbox' = [inbox EXCEPT ![c] = @ + 1]
  /\ commands' = commands + 1
  /\ UNCHANGED <<peer, arduino, listener, workers, uart, shared, history>>

\* It quits, dies, or is cut off.
Close(c) ==
  /\ Running /\ peer[c] = "open"
  /\ peer' = [peer EXCEPT ![c] = "closed"]
  /\ UNCHANGED <<inbox, commands, arduino, listener, workers, uart, shared,
                 history>>

\* The Arduino ignores the HELLO of main(), but answers a garbled packet.
AnswerHello ==
  /\ Running
  /\ ~greeted /\ greeted' = TRUE
  /\ answers' = answers + 1
  /\ UNCHANGED <<network, listener, workers, uart, shared, history>>

-----------------------------------------------------------------------------
(* _tls_listener() *)

Accept(c) ==
  /\ lpc = "accept" /\ peer[c] = "queued"
  /\ lpc' = "connect" /\ connfd' = c
  /\ UNCHANGED <<network, arduino, workers, uart, shared, history>>

\* connectSSL(): SSL_accept fails, or there is no client certificate, and the
\* session is freed (the file descriptor stays open) ...
Refuse ==
  /\ lpc = "connect"
  /\ session' = [session EXCEPT ![connfd] = "freed"]
  /\ peer' = [peer EXCEPT ![connfd] = "closed"]
  /\ lpc' = "accept" /\ connfd' = NoConn
  /\ UNCHANGED <<inbox, commands, arduino, wpc, len, uart, shared, history>>

\* ... or it succeeds,
Handshake ==
  /\ lpc = "connect"
  /\ session' = [session EXCEPT ![connfd] = "live"]
  /\ peer' = [peer EXCEPT ![connfd] = "open"]
  /\ lpc' = "verify"
  /\ UNCHANGED <<inbox, commands, connfd, arduino, wpc, len, uart, shared,
                 history>>

\* Mutant: a certificate that does not verify ends the loop.
RejectLeaves ==
  /\ lpc = "verify"
  /\ lpc' = "ended" /\ connfd' = NoConn
  /\ UNCHANGED <<network, arduino, workers, uart, shared, history>>

\* and a client whose certificate does not verify gets no worker; nothing
\* frees its session.
Reject ==
  /\ lpc = "verify"
  /\ lpc' = "accept" /\ connfd' = NoConn
  /\ UNCHANGED <<network, arduino, workers, uart, shared, history>>

Spawn ==
  /\ lpc = "verify"
  /\ wpc' = [wpc EXCEPT ![connfd] = "test"]
  /\ lpc' = "accept" /\ connfd' = NoConn
  /\ UNCHANGED <<network, arduino, session, len, uart, shared, history>>

-----------------------------------------------------------------------------
(* worker(conn) *)

Goto(c, label) == wpc' = [wpc EXCEPT ![c] = label]

Test(c) ==
  /\ Running /\ wpc[c] = "test"
  /\ Goto(c, IF networkActive THEN "read" ELSE "reset")
  /\ UNCHANGED <<network, arduino, listener, session, len, uart, shared,
                 history>>

\* Mutant: sslRead() returns data whether or not a command has come.
ReadAnything(c) ==
  /\ Running /\ wpc[c] = "read"
  /\ inbox' = [inbox EXCEPT ![c] = @ - 1]
  /\ len' = [len EXCEPT ![c] = "data"] /\ Goto(c, "set")
  /\ UNCHANGED <<peer, commands, arduino, listener, session, uart, shared,
                 history>>

\* sslRead() blocks until there is a command, or the connection has ended; a
\* connection that was reset loses the commands not read yet.
ReadData(c) ==
  /\ Running /\ wpc[c] = "read" /\ inbox[c] > 0
  /\ inbox' = [inbox EXCEPT ![c] = @ - 1]
  /\ len' = [len EXCEPT ![c] = "data"] /\ Goto(c, "set")
  /\ UNCHANGED <<peer, commands, arduino, listener, session, uart, shared,
                 history>>

ReadEnd(c) ==
  /\ Running /\ wpc[c] = "read" /\ peer[c] = "closed"
  /\ len' = [len EXCEPT ![c] = "end"] /\ Goto(c, "set")
  /\ UNCHANGED <<network, arduino, listener, session, uart, shared, history>>

\* Mutant: networkActive = (len >= 0), which the end of a connection passes.
SetAnyway(c) ==
  /\ Running /\ wpc[c] = "set"
  /\ networkActive' = TRUE
  /\ Goto(c, IF len[c] = "data" THEN "handle" ELSE "test")
  /\ UNCHANGED <<network, arduino, listener, session, len, uart, tls_conn,
                 history>>

SetActive(c) ==
  /\ Running /\ wpc[c] = "set"
  /\ networkActive' = (len[c] = "data")
  /\ Goto(c, IF len[c] = "data" THEN "handle" ELSE "test")
  /\ UNCHANGED <<network, arduino, listener, session, len, uart, tls_conn,
                 history>>

\* handleNetworkData() stores conn for the UART thread,
Handle(c) ==
  /\ Running /\ wpc[c] = "handle"
  /\ tls_conn' = c /\ recent' = c
  /\ Goto(c, "send")
  /\ UNCHANGED <<network, arduino, listener, session, len, uart,
                 networkActive, misused>>

\* Mutant: a worker serves one command, as the echo server's does.
ForwardLeaves(c) ==
  /\ Running /\ wpc[c] = "send"
  /\ \E n \in 0 .. MaxAnswers : answers' = answers + n
  /\ Goto(c, "reset")
  /\ UNCHANGED <<network, greeted, listener, session, len, uart, shared,
                 history>>

\* and handleCommand() sends a known command to the Arduino, which answers.
Forward(c) ==
  /\ Running /\ wpc[c] = "send"
  /\ \E n \in 0 .. MaxAnswers : answers' = answers + n
  /\ Goto(c, "test")
  /\ UNCHANGED <<network, greeted, listener, session, len, uart, shared,
                 history>>

\* Mutant: tls_conn is left as it is.
NoReset(c) ==
  /\ Running /\ wpc[c] = "reset"
  /\ Goto(c, "exit")
  /\ UNCHANGED <<network, arduino, listener, session, len, uart, shared,
                 history>>

Reset(c) ==
  /\ Running /\ wpc[c] = "reset"
  /\ tls_conn' = NoConn
  /\ Goto(c, "exit")
  /\ UNCHANGED <<network, arduino, listener, session, len, uart,
                 networkActive, history>>

\* EXIT_THREAD
Exit(c) ==
  /\ Running /\ wpc[c] = "exit"
  /\ session' = [session EXCEPT ![c] = "freed"]
  /\ Goto(c, "done")
  /\ UNCHANGED <<network, arduino, listener, len, uart, shared, history>>

Worker(c) == \/ Test(c) \/ ReadData(c) \/ ReadEnd(c) \/ SetActive(c)
             \/ Handle(c) \/ Forward(c) \/ Reset(c) \/ Exit(c)

-----------------------------------------------------------------------------
(* uartReceiveThread() *)

\* A packet arrives that handleUARTPacket() passes on to sendNetworkData().
Receive ==
  /\ upc = "read" /\ answers > 0
  /\ answers' = answers - 1
  /\ upc' = "active"
  /\ UNCHANGED <<network, greeted, listener, workers, target, count, shared,
                 history>>

\* Mutant: answers are written whether or not the network is active.
Always ==
  /\ upc = "active"
  /\ upc' = "conn"
  /\ UNCHANGED <<network, arduino, listener, workers, target, count, shared,
                 history>>

IfActive ==
  /\ upc = "active"
  /\ upc' = IF networkActive THEN "conn" ELSE "read"
  /\ UNCHANGED <<network, arduino, listener, workers, target, count, shared,
                 history>>

\* Mutant: tls_conn is not tested.
ConnUntested ==
  /\ upc = "conn"
  /\ upc' = "write" /\ target' = tls_conn
  /\ UNCHANGED <<network, arduino, listener, workers, count, shared, history>>

\* Without a tls_conn there is no write, and count is never initialised.
IfConn ==
  /\ upc = "conn"
  /\ IF tls_conn = NoConn
       THEN upc' = "set" /\ count' \in Outcomes /\ UNCHANGED target
       ELSE upc' = "write" /\ target' = tls_conn /\ UNCHANGED count
  /\ UNCHANGED <<network, arduino, listener, workers, shared, history>>

\* Mutant: what is tested is never assigned the result of sslWrite(), as in
\* the alex/rpi files version of sendNetworkData().
Unassigned(t) == Outcomes

\* The session exists and its client is there to take what is written.
Reachable(t) == t # NoConn /\ session[t] = "live" /\ peer[t] = "open"

\* What sslWrite(t) may return, if it returns: to NULL, a session that was
\* freed or a client that has gone, anything (but see KilledWriting).
Written(t) == IF Reachable(t) THEN {"data"} ELSE Outcomes

MisusedWith(t) ==
  IF t # NoConn /\ session[t] = "live" THEN misused ELSE misused \cup {t}

\* tls_conn is not volatile: the argument is the value that was tested, or
\* one read again.
Write ==
  /\ upc = "write"
  /\ \E t \in {target, tls_conn} :
       count' \in Written(t) /\ misused' = MisusedWith(t)
  /\ upc' = "set"
  /\ UNCHANGED <<network, arduino, listener, workers, target, shared, recent>>

StoreActive ==
  /\ upc = "set"
  /\ networkActive' = (count = "data")
  /\ upc' = "read"
  /\ UNCHANGED <<network, arduino, listener, workers, target, count, tls_conn,
                 history>>

UART == \/ Receive \/ IfActive \/ IfConn \/ Write \/ StoreActive

-----------------------------------------------------------------------------
(* The end of the process *)

Killed == upc' = "killed" /\ lpc' = "killed"

\* createServer() handles SIGINT, SIGTERM and SIGKILL, not SIGPIPE: writing to
\* a client that has gone may end the process, and so may using a session
\* that is NULL or freed.
KilledWriting ==
  /\ upc = "write" /\ Killed
  /\ \E t \in {target, tls_conn} : ~Reachable(t) /\ misused' = MisusedWith(t)
  /\ UNCHANGED <<network, arduino, connfd, workers, target, count, shared,
                 recent>>

\* SSL_accept() writes too, and the client may go in the middle of it.
KilledAccepting ==
  /\ Running /\ lpc = "connect" /\ Killed
  /\ peer' = [peer EXCEPT ![connfd] = "closed"]
  /\ UNCHANGED <<inbox, commands, arduino, connfd, workers, target, count,
                 shared, history>>

Next ==
  \/ \E c \in Clients : \/ Connect(c) \/ SendCommand(c) \/ Close(c)
                         \/ Accept(c) \/ Worker(c)
  \/ AnswerHello
  \/ Refuse \/ Handshake \/ Reject \/ Spawn
  \/ UART
  \/ KilledWriting \/ KilledAccepting

Spec == Init /\ [][Next]_vars

\* The kernel runs every thread that is not blocked.  SSL_accept, in the
\* listener, is left out: a client that says nothing keeps it waiting.  So is
\* the UART thread: nothing below needs it to run.
Fairness ==
  /\ \A c \in Clients : WF_vars(Worker(c))
  /\ WF_vars((\E c \in Clients : Accept(c)) \/ Reject \/ Spawn)

FairSpec == Spec /\ Fairness

-----------------------------------------------------------------------------
Looping == {"test", "read", "set", "handle", "send"}

\* Every variable has its type: no thread is lost, no count goes below 0.
TypeOK ==
  /\ peer \in [Clients -> {"away", "queued", "open", "closed"}]
  /\ inbox \in [Clients -> Nat] /\ commands \in 0 .. MaxCommands
  /\ answers \in Nat /\ greeted \in BOOLEAN
  /\ lpc \in {"accept", "connect", "verify", "killed"}
  /\ connfd \in Clients \cup {NoConn}
  /\ lpc \in {"connect", "verify"} => connfd # NoConn
  /\ session \in [Clients -> {"none", "live", "freed"}]
  /\ wpc \in [Clients -> Looping \cup {"none", "reset", "exit", "done"}]
  /\ len \in [Clients -> Outcomes]
  /\ upc \in {"read", "active", "conn", "write", "set", "killed"}
  /\ lpc = "killed" <=> upc = "killed"
  /\ target \in Clients \cup {NoConn} /\ count \in Outcomes
  /\ networkActive \in BOOLEAN /\ tls_conn \in Clients \cup {NoConn}
  /\ recent \in Clients \cup {NoConn} /\ misused \subseteq Clients \cup {NoConn}

\* Whatever the order in which workers start, handle data, reset tls_conn and
\* free their sessions, tls_conn is never left pointing at a session that was
\* freed or at a client other than the most recent one: its worker has yet to
\* reset it.
TlsConnLive ==
  tls_conn # NoConn =>
    /\ tls_conn = recent
    /\ session[tls_conn] = "live"
    /\ wpc[tls_conn] \in Looping \cup {"reset"}

\* tls_conn is tested and then used without a lock, so an answer may be written
\* to a session that is gone; but never before a worker has left its loop, and
\* only to NULL or a freed session, not to one being set up.
MisusedOnlyIfGone ==
  \A t \in misused : /\ t # NoConn => session[t] = "freed"
                     /\ \E c \in Clients : wpc[c] \in {"exit", "done"}

\* networkActive falls only when a client that had a worker has gone, or when
\* an answer found no tls_conn to go to because the HELLO was answered before
\* any client gave a command.  A client that stays is not cut off by the
\* answers to its commands.
NetworkFallsOnlyByEnd ==
  ~networkActive =>
    greeted \/ \E c \in Clients : peer[c] = "closed" /\ wpc[c] # "none"

\* The process dies only when a client leaves it in the middle of a handshake,
\* or for the same reasons as networkActive falls: an answer never goes to a
\* session its worker has left while every client served stays.
DiesOnlyByEnd ==
  ~Running =>
    \/ greeted
    \/ \E c \in Clients : peer[c] = "closed" /\ (wpc[c] # "none" \/ connfd = c)

\* networkActive is down and no thread is about to raise it.
Down ==
  /\ ~networkActive
  /\ \A c \in Clients : wpc[c] \notin {"read", "set"}
  /\ upc \notin {"conn", "write", "set"}

\* Then it is down for good: workers started afterwards end at their first
\* test, whatever their clients send, and answers are dropped.
DownIsForGood == [][Down => Down']_vars

\* When a client has gone its worker ends and frees the session, unless the
\* process dies of an answer to that client first, although other workers and
\* the UART thread may raise networkActive between the worker's store of FALSE
\* and its next test: they do so only as long as commands and answers come.
ClosedIsFreed ==
  \A c \in Clients :
    peer[c] = "closed" /\ wpc[c] # "none"
      ~> (wpc[c] = "done" /\ session[c] = "freed") \/ ~Running

\* One listener thread does the handshakes too.  If each of them ends, a client
\* in the queue is accepted in the end, unless the process dies: no client
\* before it, whether refused, served or gone, keeps the listener from it but
\* by being silent or by taking the process along.
QueuedIsAccepted ==
  []<>(lpc # "connect") =>
    \A c \in Clients : peer[c] = "queued" ~> connfd = c \/ ~Running

-----------------------------------------------------------------------------
(* What the comments say, and the code does not keep *)

\* tls-alex-server.cpp:31-33: networkActive is there "to prevent the server
\* from serving more than one connection".
OneConnection ==
  \A c, d \in Clients : wpc[c] = "read" /\ wpc[d] = "read" => c = d

\* tls_common_lib.h:58-59: sslWrite is "called from within the worker thread",
\* which frees the session only when it has done with it.  The UART thread
\* calls it, after the worker has freed the session it tested.
WritesToLiveSession == misused \subseteq {NoConn}
=============================================================================
