---------------------------- MODULE SkbResident -----------------------------
(***************************************************************************)
(* The Resident Core: a daemon process loads the index once and serves it  *)
(* to local clients, over a named pipe (Windows) or a loopback TCP         *)
(* listener.  The main thread accepts, one thread per connection answers,  *)
(* and a shutdown request sets a flag and wakes the main thread with a     *)
(* connection of its own.  Any number of daemons may be started.           *)
(*                                                                         *)
(* The pipe and the listener are the operating system's.  Of a pipe this   *)
(* is used: an instance takes one client, before or during                 *)
(* ConnectNamedPipe, which fails with ERROR_NO_DATA when that client has   *)
(* already gone; all daemons create instances of one name; and             *)
(* DisconnectNamedPipe discards what the client has not read.              *)
(***************************************************************************)
EXTENDS Integers, Sequences, FiniteSets

CONSTANTS
  Daemon,       \* daemon processes that may be started
  Client,       \* processes that use ResidentClient
  Connection,   \* bound: connections that exist at one time
  Deployments,  \* the endpoints, the processes that may use them, and the bounds
  MaxGen,       \* bound: scans
  MaxFailures   \* bound: failing calls of the main threads

ASSUME ConstantAssumption ==
  /\ MaxGen \in Nat /\ MaxFailures \in Nat /\ Daemon # {}
  /\ Deployments \subseteq
       [pipe : BOOLEAN, daemons : SUBSET Daemon, clients : SUBSET Client,
        connections : SUBSET Connection, scans : 0 .. MaxGen,
        failures : 0 .. MaxFailures]
  /\ Connection \subseteq Nat \ {0}

\* The connection that wakes the main thread; its connector drops it at once.
Wake == 0
NoConnection == 0

Generation == 1 .. MaxGen
Request == {"ask", "shutdown"}   \* ask: every operation that reads the index
Reply == [kind : {"none", "refused", "ack"}, gen : {0}]
           \union [kind : {"answer"}, gen : Generation]
NoReply == [kind |-> "none", gen |-> 0]

VARIABLES
  deployment, \* chosen in the beginning and fixed
  disk,      \* the generation of the index file, 0 before the first scan
  main,      \* main[d]: what the main thread of daemon d does next
  flag,      \* flag[d]: the atomic shutdown flag
  engine,    \* engine[d]: the generation daemon d loaded
  pending,   \* pending[d]: connections made and not yet accepted
  conn,      \* conn[i]: a connection, with the program counter of its thread
  current,   \* current[c]: the connection of client c
  stopping,  \* the daemons of which a client was told that they stop
  failures   \* the number of calls of main threads that have failed

vars == <<disk, main, flag, engine, pending, conn, current, stopping, failures>>

Pipe == deployment.pipe   \* TRUE for the pipe, FALSE for TCP

\* at: the label of the serving thread; open: the client's end; wants: the
\* request the client waits for; unread: the thread has not read it; obeyed:
\* the thread has carried out a shutdown; gens: the generations answered from.
NewConnection(d) ==
  [daemon |-> d, at |-> "pending", open |-> TRUE, wants |-> "none",
   unread |-> FALSE, reply |-> NoReply, obeyed |-> FALSE, gens |-> {}]

Unused == [NewConnection(CHOOSE d \in Daemon : TRUE) EXCEPT !.at = "closed", !.open = FALSE]

\* The daemon's end is closed; a connection without ends is no more.
Closed(connection) ==
  IF connection.open THEN [connection EXCEPT !.at = "closed"] ELSE Unused

Init ==
  /\ deployment \in Deployments
  /\ disk = 0
  /\ main = [d \in Daemon |-> "off"]
  /\ flag = [d \in Daemon |-> FALSE]
  /\ engine = [d \in Daemon |-> 0]
  /\ pending = [d \in Daemon |-> <<>>]
  /\ conn = [i \in Connection |-> Unused]
  /\ current = [c \in Client |-> NoConnection]
  /\ stopping = {} /\ failures = 0

Running(d) == main[d] \notin {"off", "returning", "exited"}

\* Mutant of Listening: gives one instance to two clients.
ListeningWhenTaken(d) ==
  IF Pipe THEN main[d] \in {"created", "waiting"} ELSE Running(d)

\* Where a connection can be made: to a free instance of a pipe, or to the
\* backlog of the listener.
Listening(d) ==
  IF Pipe THEN main[d] \in {"created", "waiting"} /\ pending[d] = <<>>
          ELSE Running(d)

Gone(i) == IF i = Wake THEN TRUE ELSE ~conn[i].open

Goto(d, label) == main' = [main EXCEPT ![d] = label]

-----------------------------------------------------------------------------
(* The index file and the main thread.                                     *)

Scan ==
  /\ disk < deployment.scans
  /\ disk' = disk + 1
  /\ UNCHANGED <<main, flag, engine, pending, conn, current, stopping, failures>>

\* run_daemon: load_engine, then bind, which only TCP refuses a second daemon.
Start(d) ==
  /\ d \in deployment.daemons /\ main[d] = "off" /\ disk > 0
  /\ engine' = [engine EXCEPT ![d] = disk]
  /\ Goto(d, IF ~Pipe /\ \E e \in Daemon : Running(e) THEN "exited" ELSE "check")
  /\ UNCHANGED <<disk, flag, pending, conn, current, stopping, failures>>

\* run_daemon returns: what was not accepted is closed with the listener.
ReturnFromRun(d) ==
  /\ Goto(d, "returning")
  /\ pending' = [pending EXCEPT ![d] = <<>>]
  /\ conn' = [i \in Connection |->
                IF conn[i].daemon = d /\ conn[i].at = "pending"
                THEN Closed(conn[i]) ELSE conn[i]]

CheckFlag(d) ==
  /\ main[d] = "check"
  /\ IF flag[d] THEN ReturnFromRun(d)
     ELSE Goto(d, IF Pipe THEN "create" ELSE "waiting") /\ UNCHANGED <<pending, conn>>
  /\ UNCHANGED <<disk, flag, engine, current, stopping, failures>>

CreatePipe(d) ==
  /\ main[d] = "create"
  /\ Goto(d, "created")
  /\ UNCHANGED <<disk, flag, engine, pending, conn, current, stopping, failures>>

\* accept_pipe fails, and the daemon with it, when the client has come and gone
\* since the pipe was created.
ConnectNamedPipe(d) ==
  /\ main[d] = "created"
  /\ IF pending[d] # <<>> /\ Gone(Head(pending[d]))
     THEN ReturnFromRun(d)
     ELSE Goto(d, "waiting") /\ UNCHANGED <<pending, conn>>
  /\ UNCHANGED <<disk, flag, engine, current, stopping, failures>>

\* The accept returns, the flag is read again, and a thread is spawned.
Spawn(i) == conn' = IF i = Wake THEN conn ELSE [conn EXCEPT ![i].at = "read"]

Accept(d) ==
  /\ main[d] = "waiting" /\ pending[d] # <<>>
  /\ IF flag[d] THEN ReturnFromRun(d)
     ELSE /\ Goto(d, "check")
          /\ pending' = [pending EXCEPT ![d] = Tail(@)]
          /\ Spawn(Head(pending[d]))
  /\ UNCHANGED <<disk, flag, engine, current, stopping, failures>>

\* create_server_pipe, ConnectNamedPipe or accept fails (no more handles, a
\* client that reset its connection), or thread::spawn, which panics: run_daemon
\* ends with the error, although nobody asked for it.
MainCallFails(d) ==
  /\ failures < deployment.failures
  /\ failures' = failures + 1
  /\ main[d] \in {"create", "created", "waiting"}
  /\ ReturnFromRun(d)
  /\ UNCHANGED <<disk, flag, engine, current, stopping>>

\* main returns and the process ends, with every thread that still serves.
Exit(d) ==
  /\ main[d] = "returning"
  /\ Goto(d, "exited")
  /\ conn' = [i \in Connection |->
                IF conn[i].daemon = d THEN Closed(conn[i]) ELSE conn[i]]
  /\ UNCHANGED <<disk, flag, engine, pending, current, stopping, failures>>

-----------------------------------------------------------------------------
(* handle_connection (pipe) and handle (TCP): the thread of connection i.  *)

At(i, label) == conn[i].at = label
\* A step of the thread that changes only its connection.
Serve(i, new) ==
  /\ conn' = [conn EXCEPT ![i] = new]
  /\ UNCHANGED <<disk, main, flag, engine, pending, current, stopping, failures>>

ReadRequest(i) ==
  /\ At(i, "read") /\ conn[i].unread
  /\ Serve(i, [conn[i] EXCEPT !.unread = FALSE,
                              !.at = IF conn[i].wants = "ask" THEN "answer" ELSE "store"])

\* End of file: the client has gone.
ReadEof(i) ==
  /\ At(i, "read") /\ ~conn[i].unread /\ ~conn[i].open
  /\ Serve(i, Closed(conn[i]))

\* The reply comes from the engine the daemon loaded.  A write to a client that
\* has gone ends the thread.
AnswerFrom(i, gen) ==
  /\ At(i, "answer")
  /\ IF conn[i].open
     THEN \E r \in {[kind |-> "answer", gen |-> gen], [kind |-> "refused", gen |-> 0]} :
            Serve(i, [conn[i] EXCEPT !.at = "read", !.reply = r])
     ELSE Serve(i, Closed(conn[i]))

\* Mutant of Answer: answers from the newest index.
AnswerFromDisk(i) == AnswerFrom(i, disk)
\* Mutant of Answer: may drop the request.
RefuseSilently(i) ==
  /\ At(i, "answer")
  /\ \/ AnswerFrom(i, engine[conn[i].daemon])
     \/ Serve(i, [conn[i] EXCEPT !.at = "read"])
Answer(i) == AnswerFrom(i, engine[conn[i].daemon])

\* The pipe answers a shutdown before it wakes the main thread, TCP after.
StoreFlag(i) ==
  /\ At(i, "store")
  /\ flag' = [flag EXCEPT ![conn[i].daemon] = TRUE]
  /\ conn' = [conn EXCEPT ![i].at = IF Pipe THEN "ack" ELSE "wake", ![i].obeyed = TRUE]
  /\ UNCHANGED <<disk, main, engine, pending, current, stopping, failures>>

Acknowledge(i) ==
  /\ At(i, "ack")
  /\ IF conn[i].open
     THEN Serve(i, [conn[i] EXCEPT !.at = IF Pipe THEN "wake" ELSE "closed",
                                   !.reply = [kind |-> "ack", gen |-> 0]])
     ELSE Serve(i, Closed(conn[i]))

\* Mutant of WakeMain: does not wake the main thread.
SkipWake(i) ==
  /\ At(i, "wake")
  /\ Serve(i, [conn[i] EXCEPT !.at = IF Pipe THEN "disconnect" ELSE "ack"])

\* The wake connection goes to any daemon that listens at the endpoint; on a
\* pipe it waits for an instance while all are busy.
WakeMain(i) ==
  /\ At(i, "wake")
  /\ \E d \in Daemon :
       /\ Listening(d)
       /\ pending' = [pending EXCEPT ![d] = Append(@, Wake)]
  /\ conn' = [conn EXCEPT ![i].at = IF Pipe THEN "disconnect" ELSE "ack"]
  /\ UNCHANGED <<disk, main, flag, engine, current, stopping, failures>>

\* Its failure is ignored.  TCP: the listener is closed.  A pipe: another client
\* took the instance it waited for, and it tries only twice.
WakeRefused(i) ==
  /\ At(i, "wake")
  /\ \A d \in Daemon : ~Listening(d)
  /\ Pipe => \E d \in Daemon : pending[d] # <<>>
  /\ Serve(i, [conn[i] EXCEPT !.at = IF Pipe THEN "disconnect" ELSE "ack"])

\* DisconnectNamedPipe discards the reply if it has not been read.
Disconnect(i) ==
  /\ At(i, "disconnect")
  /\ Serve(i, Closed([conn[i] EXCEPT !.reply = NoReply]))

-----------------------------------------------------------------------------
(* ResidentClient: one connection, one request at a time.                  *)

Connect(c) ==
  /\ c \in deployment.clients /\ current[c] = NoConnection
  /\ \E d \in Daemon, i \in Connection :
       /\ Listening(d)
       /\ i \in deployment.connections /\ conn[i] = Unused
       /\ \A j \in deployment.connections : j < i => conn[j] # Unused
       /\ conn' = [conn EXCEPT ![i] = NewConnection(d)]
       /\ pending' = [pending EXCEPT ![d] = Append(@, i)]
       /\ current' = [current EXCEPT ![c] = i]
  /\ UNCHANGED <<disk, main, flag, engine, stopping, failures>>

SendRequest(c, request) ==
  LET i == current[c] IN
  /\ i # NoConnection
  /\ conn[i].wants = "none" /\ ~At(i, "closed")
  /\ Serve(i, [conn[i] EXCEPT !.wants = request, !.unread = TRUE])

ReceiveReply(c) ==
  LET i == current[c] IN
  /\ i # NoConnection
  /\ conn[i].reply # NoReply
  /\ conn' = [conn EXCEPT
       ![i].wants = "none", ![i].reply = NoReply,
       ![i].gens = IF conn[i].reply.kind = "answer" THEN @ \union {conn[i].reply.gen} ELSE @]
  /\ stopping' = IF conn[i].reply.kind = "ack" THEN stopping \union {conn[i].daemon} ELSE stopping
  /\ UNCHANGED <<disk, main, flag, engine, pending, current, failures>>

\* The client has what it wanted, saw the end of file, or was killed.
Leave(c) ==
  LET i == current[c] IN
  /\ i # NoConnection
  /\ conn' = [conn EXCEPT ![i] = IF At(i, "closed") THEN Unused ELSE [@ EXCEPT !.open = FALSE]]
  /\ current' = [current EXCEPT ![c] = NoConnection]
  /\ UNCHANGED <<disk, main, flag, engine, pending, stopping, failures>>

-----------------------------------------------------------------------------
MainThread(d) ==
  CheckFlag(d) \/ CreatePipe(d) \/ ConnectNamedPipe(d) \/ Accept(d) \/ Exit(d)

Thread(i) ==
  \/ ReadRequest(i) \/ ReadEof(i) \/ Answer(i) \/ StoreFlag(i)
  \/ Acknowledge(i) \/ WakeMain(i) \/ WakeRefused(i) \/ Disconnect(i)

Next ==
  /\ UNCHANGED deployment
  /\ \/ Scan
     \/ \E d \in Daemon : Start(d) \/ MainThread(d) \/ MainCallFails(d)
     \/ \E i \in Connection : Thread(i)
     \/ \E c \in Client :
          \/ Connect(c) \/ ReceiveReply(c) \/ Leave(c)
          \/ \E request \in Request : SendRequest(c, request)

\* The system schedules every thread of a running daemon; clients may stop, and
\* no call has to fail.
Fairness ==
  /\ \A d \in Daemon : WF_vars(MainThread(d))
  /\ \A i \in Connection : WF_vars(Thread(i))

Spec == Init /\ [][Next]_<<vars, deployment>> /\ Fairness

-----------------------------------------------------------------------------
(* Properties.                                                             *)

Labels == {"pending", "read", "answer", "store", "ack", "wake", "disconnect", "closed"}

TypeOK ==
  /\ deployment \in Deployments
  /\ disk \in 0 .. MaxGen
  /\ \A d \in Daemon : Running(d) => engine[d] \in Generation
  /\ \A d \in Daemon : pending[d] \in Seq(Connection \union {Wake})
  /\ \A i \in Connection : conn[i].at \in Labels /\ conn[i].reply \in Reply
  \* a pipe instance takes one client, and every connection one place
  /\ Pipe => \A d \in Daemon : Len(pending[d]) <= 1
  /\ \A i \in Connection :
       At(i, "pending") <=>
         \E d \in Daemon : \E k \in 1 .. Len(pending[d]) : pending[d][k] = i

\* All answers on one connection come from one generation of the index, however
\* many scans replace the file meanwhile: an id found on a connection resolves
\* on it to the file that was found.
OneGeneration == \A i \in Connection : Cardinality(conn[i].gens) <= 1

\* The wake of a daemon that shares its pipe may have gone to another one: the
\* daemon waits on, with its flag set, and nothing wakes it but a connection.
Stranded(d) ==
  /\ Pipe /\ main[d] = "waiting" /\ pending[d] = <<>>
  /\ \E e \in Daemon \ {d} : main[e] # "off"

\* A daemon of which a client was told that it stops does stop: on TCP, and as
\* the only daemon of a pipe.  One that shares its pipe stops or is stranded,
\* and then stops at the next connection it gets.
AcknowledgedStopEnds ==
  \A d \in Daemon : d \in stopping ~> (main[d] = "exited" \/ Stranded(d))

\* A daemon does not end before it was asked to (or could not bind), if none of
\* its calls fails for want of resources.
ServesUntilStopped ==
  failures = 0 => \A d \in Daemon : main[d] = "returning" => flag[d]

\* The client whose shutdown was carried out and who still waits is answered.
StopIsAcknowledged ==
  \A i \in Connection :
     conn[i].obeyed /\ conn[i].open /\ conn[i].wants = "shutdown" /\ At(i, "closed")
       => conn[i].reply.kind = "ack"

\* No request hangs: a client that waits gets its reply or the end of the
\* connection, also when the daemon is stopped, by whomever, meanwhile.
EveryRequestEnds ==
  \A i \in Connection :
     (conn[i].open /\ conn[i].wants # "none")
       ~> (conn[i].reply # NoReply \/ At(i, "closed") \/ ~conn[i].open)

=============================================================================
