------------------------------- MODULE Client -------------------------------
(***************************************************************************)
(* The laptop's half of Alex: tls-alex-client.cpp and make_tls_client.cpp. *)
(* main() starts the client loop, a thread that connects to the server and *)
(* starts two more: the reader shows the server's answers, the writer      *)
(* sends the operator's commands.  All share one TLS session, the flags    *)
(* networkActive and _exitFlag, and no lock; main() returns, and the       *)
(* process ends, when it sees _exitFlag.                                   *)
(*                                                                         *)
(* Every access to a shared variable, and every call that may block, fail  *)
(* or use the session, is a step of its own.                               *)
(***************************************************************************)
EXTENDS Integers

CONSTANTS MaxKeys,      \* bound on the keys the operator presses
          MaxAnswers    \* bound on the answers the server sends

ASSUME BoundsAssumption == MaxKeys \in Nat /\ MaxAnswers \in Nat

VARIABLES
  \* the server and the keyboard
  peer,           \* the connection: away, open or closed
  inbox,          \* answers sent that no sslRead has returned
  given, keys,    \* answers sent, keys pressed
  \* _client_loop(), and the session it makes
  lpc, session,   \* session: none, live, or freed by SSL_free
  \* readerThread() and its local len
  rpc, len,
  \* writerThread()
  wpc,
  \* shared by all threads, and whether the process has ended
  networkActive, exitFlag, exited,
  \* history
  refused,        \* the server's certificate did not verify
  misused,        \* the session was read, written or freed when not live
  wrote,          \* the writer has stored its result in networkActive
  raised, lowered,   \* stores of the writer that changed networkActive
  repeated, dropped  \* handleNetwork() run without an answer, or not run

\* What a read returns: more than 0, or not.
Outcomes == {"data", "end"}

outside == <<peer, inbox, given, keys>>
loop    == <<lpc, session, refused>>
reader  == <<rpc, len, repeated, dropped>>
writer  == <<wpc, wrote, raised, lowered>>
flags   == <<networkActive, exitFlag, exited>>
vars    == <<outside, loop, reader, writer, flags, misused>>

\* The state once main() has called connectToServer().
Init ==
  /\ peer = "away" /\ inbox = 0 /\ given = 0 /\ keys = 0
  /\ lpc = "resolve" /\ session = "none"
  /\ rpc = "none" /\ len = "data"
  /\ wpc = "none"
  /\ networkActive = TRUE /\ exitFlag = FALSE /\ exited = FALSE
  /\ refused = FALSE /\ misused = FALSE /\ wrote = FALSE
  /\ raised = 0 /\ lowered = 0 /\ repeated = 0 /\ dropped = 0

-----------------------------------------------------------------------------
(* The server, and CTRL-C *)

Answer ==
  /\ peer = "open" /\ given < MaxAnswers
  /\ inbox' = inbox + 1 /\ given' = given + 1
  /\ UNCHANGED <<peer, keys, loop, reader, writer, flags, misused>>

CloseConnection ==
  /\ peer = "open"
  /\ peer' = "closed"
  /\ UNCHANGED <<inbox, given, keys, loop, reader, writer, flags, misused>>

\* breakHandler(), termHandler()
Interrupt ==
  /\ ~exited
  /\ exitFlag' = TRUE
  /\ UNCHANGED <<outside, loop, reader, writer, networkActive, exited,
                 misused>>

-----------------------------------------------------------------------------
(* The session *)

\* A call that uses the session; one that is not live can be used by mistake.
Use == misused' = (misused \/ session # "live")

\* SSL_free(ssl), also of a pointer that was never set.
Free == Use /\ session' = "freed"

-----------------------------------------------------------------------------
(* main() *)

\* while(client_is_running()); then the process ends, and its threads.
Main ==
  /\ ~exited /\ exitFlag
  /\ exited' = TRUE
  /\ UNCHANGED <<outside, loop, reader, writer, networkActive, exitFlag,
                 misused>>

-----------------------------------------------------------------------------
(* _client_loop() *)

At(label) == ~exited /\ lpc = label

Resolve ==
  /\ At("resolve")
  /\ lpc' = "connect"
  /\ UNCHANGED <<outside, session, refused, reader, writer, flags, misused>>

\* gethostbyname() fails: _closeAndExit frees an ssl that was never set.
HostUnknown ==
  /\ At("resolve")
  /\ Free /\ exited' = TRUE
  /\ UNCHANGED <<outside, lpc, refused, reader, writer, networkActive,
                 exitFlag>>

\* connect() and connectSSL() succeed,
Connect ==
  /\ At("connect")
  /\ peer' = "open" /\ session' = "live"
  /\ lpc' = "verify"
  /\ UNCHANGED <<inbox, given, keys, refused, reader, writer, flags, misused>>

\* or the process ends.
ConnectFails ==
  /\ At("connect")
  /\ exited' = TRUE
  /\ UNCHANGED <<outside, loop, reader, writer, networkActive, exitFlag,
                 misused>>

Verified ==
  /\ At("verify")
  /\ lpc' = "writer"
  /\ UNCHANGED <<outside, session, refused, reader, writer, flags, misused>>

\* _closeAndExit closes the socket and frees the session, and does not exit.
Refused ==
  /\ At("verify")
  /\ Free /\ peer' = "closed" /\ refused' = TRUE
  /\ lpc' = "writer"
  /\ UNCHANGED <<inbox, given, keys, reader, writer, flags>>

StartWriter ==
  /\ At("writer")
  /\ wpc' = "key" /\ lpc' = "reader"
  /\ UNCHANGED <<outside, session, refused, reader, wrote, raised, lowered,
                 flags, misused>>

StartReader ==
  /\ At("reader")
  /\ rpc' = "test" /\ lpc' = "wait"
  /\ UNCHANGED <<outside, session, refused, len, repeated, dropped, writer,
                 flags, misused>>

\* while(!_exitFlag); the threads are detached, and nothing joins them.
Close ==
  /\ At("wait") /\ exitFlag
  /\ peer' = "closed" /\ lpc' = "free"
  /\ UNCHANGED <<inbox, given, keys, session, refused, reader, writer, flags,
                 misused>>

LoopFree ==
  /\ At("free")
  /\ Free /\ lpc' = "done"
  /\ UNCHANGED <<outside, refused, reader, writer, flags>>

Loop == \/ Resolve \/ HostUnknown \/ Connect \/ ConnectFails
        \/ Verified \/ Refused \/ StartWriter \/ StartReader
        \/ Close \/ LoopFree

-----------------------------------------------------------------------------
(* readerThread() *)

ReaderAt(label) == ~exited /\ rpc = label

ReaderTest ==
  /\ ReaderAt("test")
  /\ rpc' = IF networkActive THEN "read" ELSE "stop"
  /\ UNCHANGED <<outside, loop, len, repeated, dropped, writer, flags, misused>>

\* Mutant: sslRead() returns an answer whether or not one has come.
ReadAnything ==
  /\ ReaderAt("read")
  /\ Use
  /\ len' = "data" /\ inbox' = inbox - 1
  /\ rpc' = "set"
  /\ UNCHANGED <<peer, given, keys, loop, repeated, dropped, writer, flags>>

\* sslRead() blocks until there is an answer or the connection has ended; from
\* a session that was freed it may return anything.
Read ==
  /\ ReaderAt("read")
  /\ Use
  /\ \/ /\ session = "live" /\ inbox > 0
        /\ len' = "data" /\ inbox' = inbox - 1
     \/ /\ session = "live" /\ peer = "closed"
        /\ len' = "end" /\ UNCHANGED inbox
     \/ /\ session # "live"
        /\ len' \in Outcomes /\ UNCHANGED inbox
  /\ rpc' = "set"
  /\ UNCHANGED <<peer, given, keys, loop, repeated, dropped, writer, flags>>

\* Mutant: networkActive says whether more is waiting, as SSL_pending() would.
SetIfPending ==
  /\ ReaderAt("set")
  /\ networkActive' = (inbox > 0) /\ rpc' = "show"
  /\ UNCHANGED <<outside, loop, len, repeated, dropped, writer, exitFlag,
                 exited, misused>>

ReaderSet ==
  /\ ReaderAt("set")
  /\ networkActive' = (len = "data") /\ rpc' = "show"
  /\ UNCHANGED <<outside, loop, len, repeated, dropped, writer, exitFlag,
                 exited, misused>>

\* Mutant: the answer is shown whether or not there was one.
ShowAlways ==
  /\ ReaderAt("show")
  /\ repeated' = IF len = "end" THEN repeated + 1 ELSE repeated
  /\ UNCHANGED dropped
  /\ rpc' = "test"
  /\ UNCHANGED <<outside, loop, len, writer, flags, misused>>

\* if(networkActive) handleNetwork(): networkActive is read again, so the
\* writer may have changed it since.
Show ==
  /\ ReaderAt("show")
  /\ repeated' = IF networkActive /\ len = "end" THEN repeated + 1 ELSE repeated
  /\ dropped' = IF ~networkActive /\ len = "data" THEN dropped + 1 ELSE dropped
  /\ rpc' = "test"
  /\ UNCHANGED <<outside, loop, len, writer, flags, misused>>

\* Mutant: the loop is not stopped.
ReaderLeaves ==
  /\ ReaderAt("stop")
  /\ rpc' = "exit"
  /\ UNCHANGED <<outside, loop, len, repeated, dropped, writer, flags, misused>>

\* stopClient()
ReaderStop ==
  /\ ReaderAt("stop")
  /\ exitFlag' = TRUE /\ rpc' = "exit"
  /\ UNCHANGED <<outside, loop, len, repeated, dropped, writer, networkActive,
                 exited, misused>>

\* EXIT_THREAD
ReaderExit ==
  /\ ReaderAt("exit")
  /\ Free /\ rpc' = "done"
  /\ UNCHANGED <<outside, lpc, refused, len, repeated, dropped, writer, flags>>

Reader == \/ ReaderTest \/ Read \/ ReaderSet \/ Show
          \/ ReaderStop \/ ReaderExit

-----------------------------------------------------------------------------
(* writerThread() *)

WriterAt(label) == ~exited /\ wpc = label

\* A key, and for some the two numbers getParams() asks for: a command, q, or
\* one that is unknown.
Key ==
  /\ WriterAt("key") /\ keys < MaxKeys
  /\ keys' = keys + 1
  /\ wpc' \in {"active", "stop", "key"}
  /\ UNCHANGED <<peer, inbox, given, loop, reader, wrote, raised, lowered,
                 flags, misused>>

\* Mutant: a command is sent whether or not the network is active.
SendAlways ==
  /\ WriterAt("active")
  /\ wpc' = "write"
  /\ UNCHANGED <<outside, loop, reader, wrote, raised, lowered, flags, misused>>

\* sendData(): without a network the command is dropped without a word.
IfActive ==
  /\ WriterAt("active")
  /\ wpc' = IF networkActive THEN "write" ELSE "key"
  /\ UNCHANGED <<outside, loop, reader, wrote, raised, lowered, flags, misused>>

Write ==
  /\ WriterAt("write")
  /\ Use /\ wpc' = "set"
  /\ UNCHANGED <<outside, loop, reader, wrote, raised, lowered, flags>>

\* networkActive = (c > 0), and c was never assigned.
WriterSet ==
  /\ WriterAt("set")
  /\ networkActive' \in BOOLEAN
  /\ raised' = IF networkActive' /\ ~networkActive THEN raised + 1 ELSE raised
  /\ lowered' = IF networkActive /\ ~networkActive' THEN lowered + 1 ELSE lowered
  /\ wrote' = TRUE /\ wpc' = "key"
  /\ UNCHANGED <<outside, loop, reader, exitFlag, exited, misused>>

\* Mutant: EXIT_THREAD comes first.
WriterFrees ==
  /\ WriterAt("stop")
  /\ Free /\ wpc' = "exit"
  /\ UNCHANGED <<outside, lpc, refused, reader, wrote, raised, lowered, flags>>

WriterStop ==
  /\ WriterAt("stop")
  /\ exitFlag' = TRUE /\ wpc' = "exit"
  /\ UNCHANGED <<outside, loop, reader, wrote, raised, lowered, networkActive,
                 exited, misused>>

WriterExit ==
  /\ WriterAt("exit")
  /\ Free /\ wpc' = "done"
  /\ UNCHANGED <<outside, lpc, refused, reader, wrote, raised, lowered, flags>>

Sending == IfActive \/ Write \/ WriterSet \/ WriterStop \/ WriterExit

-----------------------------------------------------------------------------
Next == \/ Answer \/ CloseConnection \/ Interrupt \/ Main
        \/ Loop \/ Reader \/ Key \/ Sending

Spec == Init /\ [][Next]_vars

\* The kernel runs every thread that is not blocked.  Nothing is assumed of
\* the operator and of the server.
Fairness == WF_vars(Main) /\ WF_vars(Loop) /\ WF_vars(Reader) /\ WF_vars(Sending)

FairSpec == Spec /\ Fairness

-----------------------------------------------------------------------------
\* Every variable has its type: each thread is at one of its steps.
TypeOK ==
  /\ peer \in {"away", "open", "closed"}
  /\ inbox \in Nat /\ given \in 0 .. MaxAnswers /\ keys \in 0 .. MaxKeys
  /\ lpc \in {"resolve", "connect", "verify", "writer", "reader", "wait",
              "free", "done"}
  /\ session \in {"none", "live", "freed"}
  /\ rpc \in {"none", "test", "read", "set", "show", "stop", "exit", "done"}
  /\ len \in Outcomes
  /\ wpc \in {"none", "key", "active", "write", "set", "stop", "exit", "done"}
  /\ networkActive \in BOOLEAN /\ exitFlag \in BOOLEAN /\ exited \in BOOLEAN
  /\ refused \in BOOLEAN /\ misused \in BOOLEAN /\ wrote \in BOOLEAN
  /\ raised \in Nat /\ lowered \in Nat
  /\ repeated \in Nat /\ dropped \in Nat

\* The three threads that free the one session do so only after one of them
\* has stopped the client: while it runs, no thread reads, writes or frees a
\* session that is not live.  The exceptions are a host that is not found and
\* a certificate that does not verify, after which the threads are started on
\* a session already freed.
MisusedOnlyAtEnd == misused => exitFlag \/ refused \/ lpc = "resolve"

\* A client whose operator has sent nothing is not cut off: networkActive falls
\* only when the server closed the connection, or a session not live was used,
\* or by what the writer stores after a command.
WatcherStaysConnected ==
  ~networkActive => wrote \/ peer = "closed" \/ misused

\* An answer is shown once.  That handleNetwork() runs again on the last
\* answer when there was none, or not at all when there was one, takes a store
\* of the writer between the reader's store and its test, one for each.
ShownAsRead == repeated <= raised /\ dropped <= lowered

\* networkActive is down, and the writer is not about to store.
Mute == ~networkActive /\ wpc \notin {"write", "set"}

\* Then the operator's commands, STOP among them, are dropped until the reader
\* has an answer to a command sent before, and nothing else ends that.
MuteUntilAnswer == [][Mute /\ ~Mute' => rpc = "set" /\ len = "data"]_vars

\* A server that closes the connection ends the program, although the writer
\* may raise networkActive between the reader's store and its test.
ServerGoneEnds == peer = "closed" /\ rpc # "none" /\ ~refused ~> exited
=============================================================================
