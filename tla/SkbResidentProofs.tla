-------------------------- MODULE SkbResidentProofs --------------------------
(***************************************************************************)
(* The safety of the Resident Core, for any number of daemons, clients,    *)
(* connections and scans on either transport.                              *)
(***************************************************************************)
EXTENDS SkbResident, FiniteSetTheorems, TLAPS

USE ConstantAssumption

MainLabel == {"off", "check", "create", "created", "waiting", "returning", "exited"}

ConnectionRecord ==
  [daemon : Daemon, at : Labels, open : BOOLEAN, wants : Request \union {"none"},
   unread : BOOLEAN, reply : Reply, obeyed : BOOLEAN, gens : SUBSET Nat]

-----------------------------------------------------------------------------
(* The inductive invariant: the threads, the connections, the queues.      *)

Threads ==
  /\ deployment \in Deployments
  /\ disk \in 0 .. MaxGen
  /\ main \in [Daemon -> MainLabel]
  /\ flag \in [Daemon -> BOOLEAN]
  /\ engine \in [Daemon -> 0 .. MaxGen]
  /\ current \in [Client -> Connection \union {NoConnection}]
  /\ \A d \in Daemon : main[d] # "off" => engine[d] \in Generation

\* A listener has no instances to create.
Listeners == ~Pipe => \A d \in Daemon : main[d] \notin {"create", "created"}

\* All that a connection carries is of the generation its daemon has loaded.
Sound(c) ==
  /\ c \in ConnectionRecord
  /\ c.gens \subseteq {engine[c.daemon]}
  /\ c.reply.kind = "answer" => c.reply.gen = engine[c.daemon]
  /\ main[c.daemon] = "off" =>
       c.at = "closed" /\ c.gens = {} /\ c.reply.kind # "answer"

Connections ==
  /\ conn \in [Connection -> ConnectionRecord]
  /\ \A i \in Connection : Sound(conn[i])

\* A connection waits in the queue of its daemon, once, or not at all.
Waiting(i, d) == At(i, "pending") /\ conn[i].daemon = d

Queues ==
  /\ pending \in [Daemon -> Seq(Connection \union {Wake})]
  /\ \A d \in Daemon : main[d] \in {"off", "returning", "exited"} => pending[d] = <<>>
  /\ Pipe => \A d \in Daemon : Len(pending[d]) <= 1
  /\ \A d \in Daemon, i \in Connection :
       /\ Waiting(i, d) <=> \E k \in 1 .. Len(pending[d]) : pending[d][k] = i
       /\ \A j, k \in 1 .. Len(pending[d]) :
            pending[d][j] = i /\ pending[d][k] = i => j = k

IInv == Threads /\ Listeners /\ Connections /\ Queues

-----------------------------------------------------------------------------
(* Connections that are made and closed.                                   *)

LEMMA UnusedShape ==
  /\ Unused \in ConnectionRecord /\ Unused.at = "closed" /\ Unused.gens = {}
  /\ Unused.reply = NoReply /\ ~Unused.open
<1>1. (CHOOSE d \in Daemon : TRUE) \in Daemon
  OBVIOUS
<1>2. NoReply \in Reply /\ NoReply.kind = "none"
  BY DEF NoReply, Reply
<1> QED
  BY <1>1, <1>2 DEF Unused, NewConnection, ConnectionRecord, Labels

LEMMA ClosedShape ==
  ASSUME NEW c, Sound(c)
  PROVE  Sound(Closed(c)) /\ Closed(c).at = "closed"
<1>1. CASE c.open
  <2>1. Closed(c) = [c EXCEPT !.at = "closed"]
    BY <1>1 DEF Closed
  <2>2. /\ Closed(c) \in ConnectionRecord /\ Closed(c).at = "closed"
        /\ Closed(c).daemon = c.daemon /\ Closed(c).gens = c.gens
        /\ Closed(c).reply = c.reply
    BY <2>1 DEF Sound, ConnectionRecord, Labels
  <2> QED
    BY <2>2 DEF Sound
<1>2. CASE ~c.open
  <2>1. Closed(c) = Unused /\ NoReply.kind = "none"
    BY <1>2 DEF Closed, NoReply
  <2> QED
    BY <2>1, UnusedShape DEF Sound
<1> QED
  BY <1>1, <1>2

\* The main thread moves on, and the engine is loaded only in the beginning.
LEMMA SoundStays ==
  ASSUME NEW c, Sound(c),
         \A d \in Daemon : main'[d] = "off" => main[d] = "off",
         \A d \in Daemon : main[d] # "off" => engine'[d] = engine[d]
  PROVE  Sound(c)'
<1>1. c.daemon \in Daemon
  BY DEF Sound, ConnectionRecord
<1>2. CASE main[c.daemon] # "off"
  BY <1>1, <1>2 DEF Sound
<1>3. CASE main[c.daemon] = "off"
  BY <1>1, <1>3 DEF Sound
<1> QED
  BY <1>2, <1>3

-----------------------------------------------------------------------------
(* Steps that change one connection.                                       *)

LEMMA ConnectionsStep ==
  ASSUME Connections, NEW i \in Connection, NEW new, Sound(new)',
         conn' = [conn EXCEPT ![i] = new],
         \A d \in Daemon : main'[d] = "off" => main[d] = "off",
         \A d \in Daemon : main[d] # "off" => engine'[d] = engine[d]
  PROVE  Connections'
<1>1. new \in ConnectionRecord
  BY DEF Sound
<1>2. conn' \in [Connection -> ConnectionRecord]
  BY <1>1 DEF Connections
<1>3. ASSUME NEW j \in Connection
      PROVE  Sound(conn[j])'
  <2>1. CASE j = i
    BY <2>1 DEF Connections, Sound
  <2>2. CASE j # i
    <3>1. Sound(conn[j]) /\ conn'[j] = conn[j]
      BY <2>2 DEF Connections
    <3> QED
      BY <3>1, SoundStays DEF Sound
  <2> QED
    BY <2>1, <2>2
<1> QED
  BY <1>2, <1>3 DEF Connections

\* The queues do not see what happens to a connection that keeps its place.
LEMMA QueuesStay ==
  ASSUME Queues,
         \A d \in Daemon, j \in Connection : Waiting(j, d)' <=> Waiting(j, d),
         \A d \in Daemon : main'[d] \in {"off", "returning", "exited"} =>
                             main[d] \in {"off", "returning", "exited"},
         UNCHANGED <<deployment, pending>>
  PROVE  Queues'
<1>1. /\ pending' \in [Daemon -> Seq(Connection \union {Wake})]
      /\ \A d \in Daemon : main'[d] \in {"off", "returning", "exited"} => pending'[d] = <<>>
      /\ (Pipe => \A d \in Daemon : Len(pending[d]) <= 1)'
  BY DEF Queues, Pipe
<1>2. ASSUME NEW d \in Daemon, NEW i \in Connection
      PROVE  /\ Waiting(i, d)' <=> \E k \in 1 .. Len(pending'[d]) : pending'[d][k] = i
             /\ \A j, k \in 1 .. Len(pending'[d]) :
                  pending'[d][j] = i /\ pending'[d][k] = i => j = k
  <2>1. /\ Waiting(i, d) <=> \E k \in 1 .. Len(pending[d]) : pending[d][k] = i
        /\ \A j, k \in 1 .. Len(pending[d]) :
             pending[d][j] = i /\ pending[d][k] = i => j = k
    BY DEF Queues
  <2>2. Waiting(i, d)' <=> Waiting(i, d)
    OBVIOUS
  <2> QED
    BY <2>1, <2>2
<1> QED
  BY <1>1, <1>2 DEF Queues

LEMMA QueuesStep ==
  ASSUME Queues, Connections, NEW i \in Connection, NEW new,
         conn' = [conn EXCEPT ![i] = new],
         new.at = "pending" <=> At(i, "pending"),
         At(i, "pending") => new.daemon = conn[i].daemon,
         UNCHANGED <<deployment, main, pending>>
  PROVE  Queues'
<1>1. ASSUME NEW d \in Daemon, NEW j \in Connection
      PROVE  Waiting(j, d)' <=> Waiting(j, d)
  BY DEF At, Connections, Waiting
<1> QED
  BY <1>1, QueuesStay

\* One more connection, or the wake, waits for daemon d.
LEMMA QueuesGrow ==
  ASSUME Queues, NEW d \in Daemon, Listening(d), NEW x \in Connection \union {Wake},
         pending' = [pending EXCEPT ![d] = Append(@, x)],
         \A e \in Daemon : ~Waiting(x, e) \/ x = Wake,
         \A e \in Daemon, j \in Connection :
            Waiting(j, e)' <=> Waiting(j, e) \/ (j = x /\ e = d),
         UNCHANGED <<deployment, main>>
  PROVE  Queues'
<1>1. Wake \notin Connection
  BY DEF Wake
<1>2. pending' \in [Daemon -> Seq(Connection \union {Wake})]
  BY DEF Queues
<1>3. /\ pending'[d] = Append(pending[d], x) /\ pending[d] \in Seq(Connection \union {Wake})
      /\ \A e \in Daemon : e # d => pending'[e] = pending[e]
  BY DEF Queues
<1>4. /\ Len(pending'[d]) = Len(pending[d]) + 1 /\ Len(pending[d]) \in Nat
      /\ \A k \in 1 .. Len(pending[d]) : pending'[d][k] = pending[d][k]
      /\ pending'[d][Len(pending[d]) + 1] = x
  BY <1>3
<1>5. \A e \in Daemon : main'[e] \in {"off", "returning", "exited"} => pending'[e] = <<>>
  BY <1>3 DEF Queues, Listening, Running
<1>6. (Pipe => \A e \in Daemon : Len(pending[e]) <= 1)'
  BY <1>3, <1>4 DEF Queues, Listening, Pipe
<1>7. ASSUME NEW e \in Daemon, NEW i \in Connection
      PROVE  /\ Waiting(i, e)' <=> \E k \in 1 .. Len(pending'[e]) : pending'[e][k] = i
             /\ \A j, k \in 1 .. Len(pending'[e]) :
                  pending'[e][j] = i /\ pending'[e][k] = i => j = k
  <2>1. CASE e # d
    BY <1>3, <2>1 DEF Queues
  <2>2. CASE e = d
    <3>1. /\ Waiting(i, d) <=> \E k \in 1 .. Len(pending[d]) : pending[d][k] = i
          /\ \A j, k \in 1 .. Len(pending[d]) :
               pending[d][j] = i /\ pending[d][k] = i => j = k
      BY DEF Queues
    <3>2. \A k : k \in 1 .. Len(pending'[d]) <=>
                   k \in 1 .. Len(pending[d]) \/ k = Len(pending[d]) + 1
      BY <1>4
    <3>3. Waiting(i, d)' <=> Waiting(i, d) \/ i = x
      OBVIOUS
    <3>4. i = x => ~Waiting(i, d)
      BY <1>1
    <3> QED
      BY <1>4, <2>2, <3>1, <3>2, <3>3, <3>4
  <2> QED
    BY <2>1, <2>2
<1> QED
  BY <1>2, <1>5, <1>6, <1>7 DEF Queues

\* The first that waits for daemon d is accepted.
LEMMA QueuesShrink ==
  ASSUME Queues, NEW d \in Daemon, pending[d] # <<>>,
         pending' = [pending EXCEPT ![d] = Tail(@)],
         \A e \in Daemon, j \in Connection :
            Waiting(j, e)' <=> Waiting(j, e) /\ j # Head(pending[d]),
         \A e \in Daemon : main'[e] \in {"off", "returning", "exited"} =>
                             main[e] \in {"off", "returning", "exited"},
         UNCHANGED deployment
  PROVE  Queues'
<1>1. Wake \notin Connection
  BY DEF Wake
<1>2. pending' \in [Daemon -> Seq(Connection \union {Wake})]
  BY DEF Queues
<1>3. /\ pending'[d] = Tail(pending[d]) /\ pending[d] \in Seq(Connection \union {Wake})
      /\ \A e \in Daemon : e # d => pending'[e] = pending[e]
  BY DEF Queues
<1>4. /\ Len(pending'[d]) = Len(pending[d]) - 1 /\ Len(pending[d]) \in Nat \ {0}
      /\ \A k \in 1 .. Len(pending'[d]) : pending'[d][k] = pending[d][k + 1]
      /\ Head(pending[d]) = pending[d][1]
  <2> DEFINE q == pending[d]
  <2> HIDE DEF q
  <2>1. q \in Seq(Connection \union {Wake}) /\ q # <<>> /\ pending'[d] = Tail(q)
    BY <1>3 DEF q
  <2>2. /\ Len(Tail(q)) = Len(q) - 1 /\ Len(q) \in Nat \ {0}
        /\ \A k \in 1 .. Len(Tail(q)) : Tail(q)[k] = q[k + 1]
        /\ Head(q) = q[1]
    BY <2>1
  <2> QED
    BY <2>1, <2>2 DEF q
<1>5. \A e \in Daemon : main'[e] \in {"off", "returning", "exited"} => pending'[e] = <<>>
  BY <1>3 DEF Queues
<1>6. (Pipe => \A e \in Daemon : Len(pending[e]) <= 1)'
  BY <1>3, <1>4 DEF Queues, Pipe
<1>7. ASSUME NEW e \in Daemon, NEW i \in Connection
      PROVE  /\ Waiting(i, e)' <=> \E k \in 1 .. Len(pending'[e]) : pending'[e][k] = i
             /\ \A j, k \in 1 .. Len(pending'[e]) :
                  pending'[e][j] = i /\ pending'[e][k] = i => j = k
  <2>0. /\ \A f \in Daemon :
             /\ Waiting(i, f) <=> \E k \in 1 .. Len(pending[f]) : pending[f][k] = i
             /\ \A j, k \in 1 .. Len(pending[f]) :
                  pending[f][j] = i /\ pending[f][k] = i => j = k
    BY DEF Queues
  <2>1. CASE e # d
    <3>1. i = Head(pending[d]) => Waiting(i, d)
      BY <1>4, <2>0
    <3>2. i = Head(pending[d]) => ~Waiting(i, e)
      BY <2>1, <3>1 DEF Waiting
    <3> QED
      BY <1>3, <2>0, <2>1, <3>2
  <2>2. CASE e = d
    <3>1. Waiting(i, d)' <=> Waiting(i, d) /\ i # Head(pending[d])
      OBVIOUS
    <3>2. \A k \in 1 .. Len(pending'[d]) : k + 1 \in 2 .. Len(pending[d])
      BY <1>4
    <3>3. \A k \in 2 .. Len(pending[d]) :
            k - 1 \in 1 .. Len(pending'[d]) /\ pending'[d][k - 1] = pending[d][k]
      BY <1>4
    <3>4. ASSUME Waiting(i, d), i # Head(pending[d])
          PROVE  \E k \in 1 .. Len(pending'[d]) : pending'[d][k] = i
      <4>1. PICK k \in 1 .. Len(pending[d]) : pending[d][k] = i
        BY <2>0, <3>4
      <4>2. k \in 2 .. Len(pending[d])
        BY <1>4, <3>4, <4>1
      <4> QED
        BY <3>3, <4>1, <4>2
    <3>5. ASSUME NEW k \in 1 .. Len(pending'[d]), pending'[d][k] = i
          PROVE  Waiting(i, d) /\ i # Head(pending[d])
      <4>1. k + 1 \in 1 .. Len(pending[d]) /\ 1 \in 1 .. Len(pending[d]) /\ k + 1 # 1
        BY <1>4
      <4>2. pending[d][k + 1] = i
        BY <1>4, <3>5
      <4> QED
        BY <1>4, <2>0, <4>1, <4>2
    <3>6. ASSUME NEW j \in 1 .. Len(pending'[d]), NEW k \in 1 .. Len(pending'[d]),
                 pending'[d][j] = i, pending'[d][k] = i
          PROVE  j = k
      <4>1. j + 1 \in 1 .. Len(pending[d]) /\ k + 1 \in 1 .. Len(pending[d])
        BY <1>4
      <4>2. pending[d][j + 1] = i /\ pending[d][k + 1] = i
        BY <1>4, <3>6
      <4>3. j + 1 = k + 1
        BY <2>0, <4>1, <4>2
      <4> QED
        BY <4>3
    <3> QED
      BY <2>2, <3>1, <3>4, <3>5, <3>6
  <2> QED
    BY <2>1, <2>2
<1> QED
  BY <1>2, <1>5, <1>6, <1>7 DEF Queues

LEMMA ThreadsStep ==
  ASSUME Threads, Listeners, UNCHANGED <<deployment, disk, main, flag, engine, current>>
  PROVE  Threads' /\ Listeners'
BY DEF Threads, Listeners, Pipe

LEMMA ServeStep ==
  ASSUME IInv, NEW i \in Connection, NEW new, Serve(i, new), UNCHANGED deployment,
         Sound(new),
         new.at = "pending" <=> At(i, "pending"),
         At(i, "pending") => new.daemon = conn[i].daemon
  PROVE  IInv'
<1>1. /\ conn' = [conn EXCEPT ![i] = new]
      /\ UNCHANGED <<disk, main, flag, engine, pending, current, stopping>>
  BY DEF Serve
<1>2. Sound(new)'
  BY <1>1 DEF Sound
<1>3. Threads' /\ Listeners'
  BY <1>1, ThreadsStep DEF IInv
<1>4. Connections'
  BY <1>1, <1>2, ConnectionsStep DEF IInv
<1>5. Queues'
  BY <1>1, QueuesStep DEF IInv
<1> QED
  BY <1>3, <1>4, <1>5 DEF IInv

-----------------------------------------------------------------------------
(* The serving threads.                                                    *)

\* A connection that changes its label, its reply or what it waits for.
LEMMA SoundChange ==
  ASSUME NEW c, Sound(c), NEW new \in ConnectionRecord,
         new.daemon = c.daemon, new.gens = c.gens,
         new.reply = c.reply \/ new.reply.kind # "answer",
         c.at = "closed" => new.at = "closed"
  PROVE  Sound(new)
BY DEF Sound

LEMMA ReplyShapes ==
  /\ NoReply \in Reply /\ NoReply.kind = "none"
  /\ [kind |-> "ack", gen |-> 0] \in Reply /\ [kind |-> "refused", gen |-> 0] \in Reply
  /\ \A g \in Generation : [kind |-> "answer", gen |-> g] \in Reply
BY DEF NoReply, Reply

LEMMA ThreadStep ==
  ASSUME IInv, UNCHANGED deployment, NEW i \in Connection, Thread(i)
  PROVE  IInv'
<1> DEFINE c == conn[i]
<1>0. c \in ConnectionRecord /\ Sound(c)
  BY DEF IInv, Connections
<1>1. CASE ReadRequest(i)
  <2> DEFINE new == [c EXCEPT !.unread = FALSE,
                              !.at = IF c.wants = "ask" THEN "answer" ELSE "store"]
  <2>1. Serve(i, new) /\ c.at = "read"
    BY <1>1 DEF ReadRequest, At
  <2>2. /\ new \in ConnectionRecord /\ new.at # "pending" /\ new.daemon = c.daemon
        /\ new.gens = c.gens /\ new.reply = c.reply
    BY <1>0 DEF ConnectionRecord, Labels
  <2>3. Sound(new)
    BY <1>0, <2>1, <2>2, SoundChange
  <2> QED
    BY <2>1, <2>2, <2>3, ServeStep DEF At
<1>2. CASE ReadEof(i) \/ Disconnect(i) \/ (Acknowledge(i) /\ ~c.open) \/ (Answer(i) /\ ~c.open)
  <2>1. \E old \in {c, [c EXCEPT !.reply = NoReply]} :
          Serve(i, Closed(old)) /\ c.at \in {"read", "disconnect", "ack", "answer"}
    BY <1>2 DEF ReadEof, Disconnect, Acknowledge, Answer, AnswerFrom, At
  <2>2. Sound([c EXCEPT !.reply = NoReply])
    <3> DEFINE new == [c EXCEPT !.reply = NoReply]
    <3>1. /\ new \in ConnectionRecord /\ new.daemon = c.daemon /\ new.gens = c.gens
          /\ new.reply.kind # "answer" /\ new.at = c.at
      BY <1>0, ReplyShapes DEF ConnectionRecord
    <3> QED
      BY <1>0, <3>1, SoundChange
  <2>3. PICK old \in {c, [c EXCEPT !.reply = NoReply]} :
          Serve(i, Closed(old)) /\ c.at \in {"read", "disconnect", "ack", "answer"}
    BY <2>1
  <2>4. Sound(Closed(old)) /\ Closed(old).at = "closed"
    BY <1>0, <2>2, <2>3, ClosedShape
  <2> QED
    BY <2>3, <2>4, ServeStep DEF At
<1>3. CASE Answer(i) /\ c.open
  <2>1. c.daemon \in Daemon /\ c.at = "answer"
    BY <1>0, <1>3 DEF ConnectionRecord, Answer, AnswerFrom, At
  <2>2. engine[c.daemon] \in Generation /\ main[c.daemon] # "off"
    BY <1>0, <2>1 DEF Sound, IInv, Threads
  <2>3. PICK r \in {[kind |-> "answer", gen |-> engine[c.daemon]], [kind |-> "refused", gen |-> 0]} :
          Serve(i, [c EXCEPT !.at = "read", !.reply = r])
    BY <1>3 DEF Answer, AnswerFrom
  <2> DEFINE new == [c EXCEPT !.at = "read", !.reply = r]
  <2>4. /\ new \in ConnectionRecord /\ new.daemon = c.daemon /\ new.gens = c.gens
        /\ new.reply = r /\ new.at = "read"
    BY <1>0, <2>2, ReplyShapes DEF ConnectionRecord, Labels
  <2>5. Sound(new)
    BY <1>0, <2>2, <2>4 DEF Sound
  <2> QED
    BY <2>1, <2>3, <2>4, <2>5, ServeStep DEF At
<1>4. CASE StoreFlag(i)
  <2> DEFINE new == [c EXCEPT !.at = IF Pipe THEN "ack" ELSE "wake", !.obeyed = TRUE]
  <2>1. /\ conn' = [conn EXCEPT ![i] = new] /\ c.at = "store"
        /\ flag' = [flag EXCEPT ![c.daemon] = TRUE]
        /\ UNCHANGED <<disk, main, engine, pending, current>>
    BY <1>0, <1>4 DEF StoreFlag, At, ConnectionRecord, IInv, Connections
  <2>2. /\ new \in ConnectionRecord /\ new.at # "pending" /\ new.daemon = c.daemon
        /\ new.gens = c.gens /\ new.reply = c.reply
    BY <1>0 DEF ConnectionRecord, Labels
  <2>3. Sound(new)
    BY <1>0, <2>1, <2>2, SoundChange
  <2>4. Connections'
    BY <2>1, <2>3, ConnectionsStep DEF IInv, Sound
  <2>5. Queues'
    BY <2>1, <2>2, QueuesStep DEF IInv, At
  <2>6. Threads' /\ Listeners'
    BY <1>0, <2>1 DEF IInv, Threads, Listeners, Pipe
  <2> QED
    BY <2>4, <2>5, <2>6 DEF IInv
<1>5. CASE Acknowledge(i) /\ c.open
  <2> DEFINE new == [c EXCEPT !.at = IF Pipe THEN "wake" ELSE "closed",
                              !.reply = [kind |-> "ack", gen |-> 0]]
  <2>1. Serve(i, new) /\ c.at = "ack"
    BY <1>5 DEF Acknowledge, At
  <2>2. /\ new \in ConnectionRecord /\ new.at # "pending" /\ new.daemon = c.daemon
        /\ new.gens = c.gens /\ new.reply.kind = "ack"
    BY <1>0, ReplyShapes DEF ConnectionRecord, Labels
  <2>3. Sound(new)
    BY <1>0, <2>1, <2>2, SoundChange
  <2> QED
    BY <2>1, <2>2, <2>3, ServeStep DEF At
<1>6. CASE WakeMain(i)
  <2> DEFINE new == [c EXCEPT !.at = IF Pipe THEN "disconnect" ELSE "ack"]
  <2>1. PICK d \in Daemon : /\ Listening(d)
                            /\ pending' = [pending EXCEPT ![d] = Append(@, Wake)]
    BY <1>6 DEF WakeMain
  <2>2. /\ conn' = [conn EXCEPT ![i] = new] /\ c.at = "wake"
        /\ UNCHANGED <<disk, main, flag, engine, current>>
    BY <1>0, <1>6 DEF WakeMain, At, ConnectionRecord, IInv, Connections
  <2>3. /\ new \in ConnectionRecord /\ new.at # "pending" /\ new.daemon = c.daemon
        /\ new.gens = c.gens /\ new.reply = c.reply
    BY <1>0 DEF ConnectionRecord, Labels
  <2>4. Sound(new)
    BY <1>0, <2>2, <2>3, SoundChange
  <2>5. Connections'
    BY <2>2, <2>4, ConnectionsStep DEF IInv, Sound
  <2>6. Threads' /\ Listeners'
    BY <2>2, ThreadsStep DEF IInv
  <2>7. ASSUME NEW e \in Daemon, NEW j \in Connection
        PROVE  Waiting(j, e)' <=> Waiting(j, e)
    BY <2>2, <2>3 DEF Waiting, At, IInv, Connections
  <2>8. Queues'
    <3>1. \A e \in Daemon, j \in Connection :
             Waiting(j, e)' <=> Waiting(j, e) \/ (j = Wake /\ e = d)
      BY <2>7 DEF Wake
    <3>2. Wake \in Connection \union {Wake} /\ Queues /\ UNCHANGED <<deployment, main>>
      BY <2>2 DEF IInv
    <3> QED
      BY <2>1, <3>1, <3>2, QueuesGrow
  <2> QED
    BY <2>5, <2>6, <2>8 DEF IInv
<1>7. CASE WakeRefused(i)
  <2> DEFINE new == [c EXCEPT !.at = IF Pipe THEN "disconnect" ELSE "ack"]
  <2>1. Serve(i, new) /\ c.at = "wake"
    BY <1>7 DEF WakeRefused, At
  <2>2. /\ new \in ConnectionRecord /\ new.at # "pending" /\ new.daemon = c.daemon
        /\ new.gens = c.gens /\ new.reply = c.reply
    BY <1>0 DEF ConnectionRecord, Labels
  <2>3. Sound(new)
    BY <1>0, <2>1, <2>2, SoundChange
  <2> QED
    BY <2>1, <2>2, <2>3, ServeStep DEF At
<1> QED
  BY <1>1, <1>2, <1>3, <1>4, <1>5, <1>6, <1>7 DEF Thread

-----------------------------------------------------------------------------
(* The main thread.                                                        *)

LEMMA SoundUnused == Sound(Unused)
<1>1. NoReply.kind = "none"
  BY DEF NoReply
<1> QED
  BY <1>1, UnusedShape DEF Sound

\* The main thread of a started daemon moves to another label.
LEMMA GotoStep ==
  ASSUME IInv, NEW d \in Daemon, NEW label \in MainLabel \ {"off"}, main[d] # "off",
         Goto(d, label), UNCHANGED <<deployment, disk, flag, engine, current>>,
         ~Pipe => label \notin {"create", "created"}
  PROVE  /\ Threads' /\ Listeners'
         /\ main' = [main EXCEPT ![d] = label]
         /\ \A e \in Daemon : main'[e] = "off" => main[e] = "off"
         /\ \A e \in Daemon : main[e] # "off" => engine'[e] = engine[e]
<1>1. main' = [main EXCEPT ![d] = label] /\ main \in [Daemon -> MainLabel]
  BY DEF Goto, IInv, Threads
<1>2. Threads'
  BY <1>1 DEF IInv, Threads
<1>3. Listeners'
  BY <1>1 DEF IInv, Listeners, Pipe
<1> QED
  BY <1>1, <1>2, <1>3

\* The connections in W are closed.
LEMMA ConnectionsMap ==
  ASSUME Connections,
         \A e \in Daemon : main'[e] = "off" => main[e] = "off",
         \A e \in Daemon : main[e] # "off" => engine'[e] = engine[e],
         NEW W,
         conn' = [i \in Connection |-> IF i \in W THEN Closed(conn[i]) ELSE conn[i]]
  PROVE  Connections'
<1>1. ASSUME NEW i \in Connection
      PROVE  conn'[i] \in ConnectionRecord /\ Sound(conn[i])'
  <2>1. Sound(conn[i]) /\ Sound(Closed(conn[i]))
    BY ClosedShape DEF Connections
  <2>2. Sound(conn[i])' /\ Sound(conn'[i])
    <3>1. conn'[i] = IF i \in W THEN Closed(conn[i]) ELSE conn[i]
      OBVIOUS
    <3>2. Sound(conn'[i])
      BY <2>1, <3>1
    <3> DEFINE new == conn'[i]
    <3>3. Sound(new) /\ new = conn'[i]
      BY <3>2
    <3> HIDE DEF new
    <3>4. /\ new.daemon \in Daemon
          /\ engine'[new.daemon] = engine[new.daemon] \/ main[new.daemon] = "off"
      BY <3>3 DEF Sound, ConnectionRecord
    <3> QED
      BY <3>3, <3>4 DEF Sound
  <2> QED
    BY <2>2 DEF Sound
<1>2. conn' \in [Connection -> ConnectionRecord]
  BY <1>1
<1> QED
  BY <1>1, <1>2 DEF Connections

LEMMA ConnectionsStay ==
  ASSUME Connections, UNCHANGED conn,
         \A e \in Daemon : main'[e] = "off" => main[e] = "off",
         \A e \in Daemon : main[e] # "off" => engine'[e] = engine[e]
  PROVE  Connections'
<1>1. ASSUME NEW i \in Connection
      PROVE  Sound(conn[i])'
  <2>1. Sound(conn[i])
    BY DEF Connections
  <2> QED
    BY <2>1, SoundStays DEF Sound
<1> QED
  BY <1>1 DEF Connections

LEMMA ReturnStep ==
  ASSUME IInv, NEW d \in Daemon, Running(d), ReturnFromRun(d),
         UNCHANGED <<deployment, disk, flag, engine, current>>
  PROVE  IInv'
<1>1. main[d] # "off" /\ Goto(d, "returning") /\ "returning" \in MainLabel \ {"off"}
  BY DEF Running, ReturnFromRun, MainLabel
<1>2. /\ Threads' /\ Listeners' /\ main' = [main EXCEPT ![d] = "returning"]
      /\ \A e \in Daemon : main'[e] = "off" => main[e] = "off"
      /\ \A e \in Daemon : main[e] # "off" => engine'[e] = engine[e]
  BY <1>1, GotoStep
<1>3. conn' = [i \in Connection |->
                IF conn[i].daemon = d /\ conn[i].at = "pending" THEN Closed(conn[i]) ELSE conn[i]]
  BY DEF ReturnFromRun
<1>4. Connections'
  <2> DEFINE W == {i \in Connection : conn[i].daemon = d /\ conn[i].at = "pending"}
  <2>1. conn' = [i \in Connection |-> IF i \in W THEN Closed(conn[i]) ELSE conn[i]]
    BY <1>3
  <2> HIDE DEF W
  <2> QED
    BY <1>2, <2>1, ConnectionsMap DEF IInv
<1>5. ASSUME NEW e \in Daemon, NEW i \in Connection
      PROVE  Waiting(i, e)' <=> Waiting(i, e) /\ e # d
  <2>1. Closed(conn[i]).at = "closed"
    BY ClosedShape DEF IInv, Connections
  <2> QED
    BY <1>3, <2>1 DEF Waiting, At
<1>6. /\ pending' = [pending EXCEPT ![d] = <<>>]
      /\ pending \in [Daemon -> Seq(Connection \union {Wake})]
  BY DEF ReturnFromRun, IInv, Queues
<1>7. /\ pending' \in [Daemon -> Seq(Connection \union {Wake})]
      /\ pending'[d] = <<>> /\ \A e \in Daemon : e # d => pending'[e] = pending[e]
  BY <1>6
<1>8. \A e \in Daemon : main'[e] \in {"off", "returning", "exited"} => pending'[e] = <<>>
  BY <1>2, <1>7 DEF IInv, Queues, Threads
<1>9. (Pipe => \A e \in Daemon : Len(pending[e]) <= 1)'
  BY <1>7 DEF IInv, Queues, Pipe
<1>10. ASSUME NEW e \in Daemon, NEW i \in Connection
       PROVE  /\ Waiting(i, e)' <=> \E k \in 1 .. Len(pending'[e]) : pending'[e][k] = i
              /\ \A j, k \in 1 .. Len(pending'[e]) :
                   pending'[e][j] = i /\ pending'[e][k] = i => j = k
  <2>1. CASE e = d
    <3>1. 1 .. Len(pending'[e]) = {}
      BY <1>7, <2>1
    <3> QED
      BY <1>5, <2>1, <3>1
  <2>2. CASE e # d
    BY <1>5, <1>7, <2>2 DEF IInv, Queues
  <2> QED
    BY <2>1, <2>2
<1>11. Queues'
  BY <1>7, <1>8, <1>9, <1>10 DEF Queues
<1> QED
  BY <1>2, <1>4, <1>11 DEF IInv

\* The main thread moves on and nothing else happens.
LEMMA MoveStep ==
  ASSUME IInv, NEW d \in Daemon, NEW label \in MainLabel \ {"off", "returning", "exited"},
         main[d] # "off", Goto(d, label),
         UNCHANGED <<deployment, disk, flag, engine, current, pending, conn>>,
         ~Pipe => label \notin {"create", "created"}
  PROVE  IInv'
<1>1. /\ Threads' /\ Listeners' /\ main' = [main EXCEPT ![d] = label]
      /\ \A e \in Daemon : main'[e] = "off" => main[e] = "off"
      /\ \A e \in Daemon : main[e] # "off" => engine'[e] = engine[e]
  BY GotoStep
<1>2. Connections'
  BY <1>1, ConnectionsStay DEF IInv
<1>3. \A e \in Daemon, i \in Connection : Waiting(i, e)' <=> Waiting(i, e)
  BY DEF Waiting, At
<1>4. \A e \in Daemon : main'[e] \in {"off", "returning", "exited"} =>
                          main[e] \in {"off", "returning", "exited"}
  BY <1>1 DEF IInv, Threads
<1>5. Queues'
  BY <1>3, <1>4, QueuesStay DEF IInv
<1> QED
  BY <1>1, <1>2, <1>5 DEF IInv

LEMMA AcceptStep ==
  ASSUME IInv, UNCHANGED deployment, NEW d \in Daemon, Accept(d)
  PROVE  IInv'
<1> DEFINE h == Head(pending[d])
<1>1. /\ main[d] = "waiting" /\ pending[d] # <<>> /\ Running(d)
      /\ UNCHANGED <<deployment, disk, flag, engine, current>>
  BY DEF Accept, Running
<1>2. CASE flag[d]
  BY <1>1, <1>2, ReturnStep DEF Accept
<1>3. CASE ~flag[d]
  <2>1. /\ Goto(d, "check") /\ pending' = [pending EXCEPT ![d] = Tail(@)] /\ Spawn(h)
    BY <1>3 DEF Accept
  <2>2. /\ Threads' /\ Listeners' /\ main' = [main EXCEPT ![d] = "check"]
        /\ \A e \in Daemon : main'[e] = "off" => main[e] = "off"
        /\ \A e \in Daemon : main[e] # "off" => engine'[e] = engine[e]
    <3>1. "check" \in MainLabel \ {"off"}
      BY DEF MainLabel
    <3> QED
      BY <1>1, <2>1, <3>1, GotoStep
  <2>3. \A e \in Daemon : main'[e] \in {"off", "returning", "exited"} =>
                            main[e] \in {"off", "returning", "exited"}
    BY <2>2 DEF IInv, Threads
  <2>4. h \in Connection \union {Wake} /\ Wake \notin Connection
    <3>1. pending[d] \in Seq(Connection \union {Wake})
      BY DEF IInv, Queues
    <3> QED
      BY <1>1, <3>1 DEF Wake
  <2>5. CASE h = Wake
    <3>1. conn' = conn
      BY <2>1, <2>5 DEF Spawn
    <3>2. Connections'
      BY <2>2, <3>1, ConnectionsStay DEF IInv
    <3>3. \A e \in Daemon, j \in Connection : Waiting(j, e)' <=> Waiting(j, e) /\ j # h
      BY <2>4, <2>5, <3>1 DEF Waiting, At
    <3>4. Queues'
      BY <1>1, <2>1, <2>3, <3>3, QueuesShrink DEF IInv
    <3> QED
      BY <2>2, <3>2, <3>4 DEF IInv
  <2>6. CASE h # Wake
    <3> DEFINE c == conn[h]
    <3>1. h \in Connection /\ c \in ConnectionRecord /\ Sound(c)
      BY <2>4, <2>6 DEF IInv, Connections
    <3>2. PICK new : new = [c EXCEPT !.at = "read"] /\ conn' = [conn EXCEPT ![h] = new]
      BY <2>1, <2>6, <3>1 DEF Spawn, IInv, Connections
    <3>3. c.at = "pending"
      <4>1. h = pending[d][1] /\ 1 \in 1 .. Len(pending[d])
        <5>1. pending[d] \in Seq(Connection \union {Wake})
          BY DEF IInv, Queues
        <5> QED
          BY <1>1, <5>1
      <4>2. Waiting(h, d)
        BY <3>1, <4>1 DEF IInv, Queues
      <4> QED
        BY <4>2 DEF Waiting, At
    <3>4. /\ new \in ConnectionRecord /\ new.at = "read" /\ new.daemon = c.daemon
          /\ new.gens = c.gens /\ new.reply = c.reply
      BY <3>1, <3>2 DEF ConnectionRecord, Labels
    <3>5. Sound(new)
      BY <3>1, <3>3, <3>4, SoundChange
    <3>6. Sound(new)'
      BY <2>2, <3>5, SoundStays
    <3>7. Connections'
      BY <2>2, <3>1, <3>2, <3>6, ConnectionsStep DEF IInv
    <3>8. ASSUME NEW e \in Daemon, NEW j \in Connection
          PROVE  Waiting(j, e)' <=> Waiting(j, e) /\ j # h
      BY <3>1, <3>2, <3>4 DEF Waiting, At, IInv, Connections
    <3>9. Queues'
      BY <1>1, <2>1, <2>3, <3>8, QueuesShrink DEF IInv
    <3> QED
      BY <2>2, <3>7, <3>9 DEF IInv
  <2> QED
    BY <2>5, <2>6
<1> QED
  BY <1>2, <1>3

LEMMA ExitStep ==
  ASSUME IInv, UNCHANGED deployment, NEW d \in Daemon, Exit(d)
  PROVE  IInv'
<1>1. /\ main[d] = "returning" /\ Goto(d, "exited") /\ "exited" \in MainLabel \ {"off"}
      /\ UNCHANGED <<deployment, disk, flag, engine, pending, current>>
      /\ conn' = [i \in Connection |->
                    IF conn[i].daemon = d THEN Closed(conn[i]) ELSE conn[i]]
  BY DEF Exit, MainLabel
<1>2. /\ Threads' /\ Listeners' /\ main' = [main EXCEPT ![d] = "exited"]
      /\ \A e \in Daemon : main'[e] = "off" => main[e] = "off"
      /\ \A e \in Daemon : main[e] # "off" => engine'[e] = engine[e]
  BY <1>1, GotoStep
<1>3. Connections'
  <2> DEFINE W == {i \in Connection : conn[i].daemon = d}
  <2>1. conn' = [i \in Connection |-> IF i \in W THEN Closed(conn[i]) ELSE conn[i]]
    BY <1>1
  <2> HIDE DEF W
  <2> QED
    BY <1>2, <2>1, ConnectionsMap DEF IInv
<1>4. ASSUME NEW e \in Daemon, NEW i \in Connection
      PROVE  Waiting(i, e)' <=> Waiting(i, e)
  <2>1. Closed(conn[i]).at = "closed"
    BY ClosedShape DEF IInv, Connections
  <2>2. ~Waiting(i, d)
    <3>1. pending[d] = <<>>
      BY <1>1 DEF IInv, Queues
    <3>2. 1 .. Len(pending[d]) = {}
      BY <3>1
    <3> QED
      BY <3>2 DEF IInv, Queues
  <2> QED
    BY <1>1, <2>1, <2>2 DEF Waiting, At
<1>5. \A e \in Daemon : main'[e] \in {"off", "returning", "exited"} =>
                          main[e] \in {"off", "returning", "exited"}
  BY <1>1, <1>2 DEF IInv, Threads
<1>6. Queues'
  BY <1>1, <1>4, <1>5, QueuesStay DEF IInv
<1> QED
  BY <1>2, <1>3, <1>6 DEF IInv

LEMMA MainThreadStep ==
  ASSUME IInv, UNCHANGED deployment, NEW d \in Daemon, MainThread(d)
  PROVE  IInv'
<1>0. /\ {"check", "create", "created", "waiting"} \subseteq MainLabel \ {"off", "returning", "exited"}
      /\ ~Pipe => main[d] \notin {"create", "created"}
  BY DEF MainLabel, IInv, Listeners
<1>1. CASE CheckFlag(d)
  <2>1. /\ main[d] = "check" /\ Running(d)
        /\ UNCHANGED <<deployment, disk, flag, engine, current>>
    BY <1>1 DEF CheckFlag, Running
  <2>2. CASE flag[d]
    BY <1>1, <2>1, <2>2, ReturnStep DEF CheckFlag
  <2>3. CASE ~flag[d]
    BY <1>0, <1>1, <2>1, <2>3, MoveStep DEF CheckFlag
  <2> QED
    BY <2>2, <2>3
<1>2. CASE CreatePipe(d)
  BY <1>0, <1>2, MoveStep DEF CreatePipe
<1>3. CASE ConnectNamedPipe(d)
  <2>1. /\ main[d] = "created" /\ Running(d) /\ Pipe
        /\ UNCHANGED <<deployment, disk, flag, engine, current>>
    BY <1>0, <1>3 DEF ConnectNamedPipe, Running
  <2>2. CASE ReturnFromRun(d)
    BY <2>1, <2>2, ReturnStep
  <2>3. CASE Goto(d, "waiting") /\ UNCHANGED <<pending, conn>>
    BY <1>0, <2>1, <2>3, MoveStep
  <2> QED
    BY <1>3, <2>2, <2>3 DEF ConnectNamedPipe
<1> QED
  BY <1>1, <1>2, <1>3, AcceptStep, ExitStep DEF MainThread

LEMMA FailStep ==
  ASSUME IInv, UNCHANGED deployment, NEW d \in Daemon, MainCallFails(d)
  PROVE  IInv'
<1>1. /\ Running(d) /\ ReturnFromRun(d)
      /\ UNCHANGED <<deployment, disk, flag, engine, current>>
  BY DEF MainCallFails, Running
<1> QED
  BY <1>1, ReturnStep

\* A daemon starts: nobody is connected to it yet.
LEMMA StartStep ==
  ASSUME IInv, UNCHANGED deployment, NEW d \in Daemon, Start(d)
  PROVE  IInv'
<1>1. PICK label \in {"exited", "check"} : main' = [main EXCEPT ![d] = label]
  BY DEF Start, Goto
<1>2. /\ main[d] = "off" /\ disk \in Generation /\ engine' = [engine EXCEPT ![d] = disk]
      /\ UNCHANGED <<deployment, disk, flag, pending, conn, current>>
  BY DEF Start, IInv, Threads, Generation
<1>3. Threads'
  BY <1>1, <1>2 DEF IInv, Threads, MainLabel, Generation
<1>4. Listeners'
  BY <1>1, <1>2 DEF IInv, Threads, Listeners, Pipe
<1>5. ASSUME NEW i \in Connection
      PROVE  Sound(conn[i])'
  <2>1. Sound(conn[i]) /\ conn'[i] = conn[i] /\ conn[i].daemon \in Daemon
    BY <1>2 DEF IInv, Connections, ConnectionRecord
  <2>2. /\ main \in [Daemon -> MainLabel] /\ engine \in [Daemon -> 0 .. MaxGen]
    BY DEF IInv, Threads
  <2>3. CASE conn[i].daemon = d
    BY <1>1, <1>2, <2>1, <2>2, <2>3 DEF Sound
  <2>4. CASE conn[i].daemon # d
    BY <1>1, <1>2, <2>1, <2>2, <2>4 DEF Sound
  <2> QED
    BY <2>3, <2>4
<1>6. Connections'
  BY <1>2, <1>5 DEF IInv, Connections
<1>7. \A e \in Daemon, i \in Connection : Waiting(i, e)' <=> Waiting(i, e)
  BY <1>2 DEF Waiting, At
<1>8. \A e \in Daemon : main'[e] \in {"off", "returning", "exited"} =>
                          main[e] \in {"off", "returning", "exited"}
  BY <1>1, <1>2 DEF IInv, Threads
<1>9. Queues'
  BY <1>2, <1>7, <1>8, QueuesStay DEF IInv
<1> QED
  BY <1>3, <1>4, <1>6, <1>9 DEF IInv

LEMMA ScanStep ==
  ASSUME IInv, UNCHANGED deployment, Scan
  PROVE  IInv'
<1>1. deployment.scans \in 0 .. MaxGen
  BY DEF IInv, Threads
<1>2. Threads' /\ Listeners'
  BY <1>1 DEF Scan, IInv, Threads, Listeners, Pipe
<1>3. Connections'
  BY ConnectionsStay DEF Scan, IInv
<1>4. \A e \in Daemon, i \in Connection : Waiting(i, e)' <=> Waiting(i, e)
  BY DEF Scan, Waiting, At
<1>5. Queues'
  BY <1>4, QueuesStay DEF Scan, IInv
<1> QED
  BY <1>2, <1>3, <1>5 DEF IInv

-----------------------------------------------------------------------------
(* The clients.                                                            *)

LEMMA ConnectStep ==
  ASSUME IInv, UNCHANGED deployment, NEW c \in Client, Connect(c)
  PROVE  IInv'
<1>1. PICK d \in Daemon, i \in Connection :
        /\ Listening(d) /\ conn[i] = Unused
        /\ conn' = [conn EXCEPT ![i] = NewConnection(d)]
        /\ pending' = [pending EXCEPT ![d] = Append(@, i)]
        /\ current' = [current EXCEPT ![c] = i]
  BY DEF Connect
<1>2. UNCHANGED <<deployment, disk, main, flag, engine>>
  BY DEF Connect
<1>3. Threads' /\ Listeners'
  BY <1>1, <1>2 DEF IInv, Threads, Listeners, Pipe
<1>4. main[d] # "off"
  BY <1>1 DEF Listening, Running
<1>5. PICK new : new = NewConnection(d)
  OBVIOUS
<1>6. /\ new \in ConnectionRecord /\ new.daemon = d /\ new.at = "pending"
      /\ new.gens = {} /\ new.reply.kind = "none"
  BY <1>5, ReplyShapes DEF NewConnection, ConnectionRecord, Labels
<1>7. Sound(new)
  BY <1>4, <1>6 DEF Sound
<1>8. Connections'
  BY <1>1, <1>2, <1>5, <1>7, SoundStays, ConnectionsStep DEF IInv
<1>9. ASSUME NEW e \in Daemon, NEW j \in Connection
      PROVE  Waiting(j, e)' <=> Waiting(j, e) \/ (j = i /\ e = d)
  BY <1>1, <1>5, <1>6, UnusedShape DEF Waiting, At, IInv, Connections
<1>10. \A e \in Daemon : ~Waiting(i, e)
  BY <1>1, UnusedShape DEF Waiting, At
<1>11. Queues'
  BY <1>1, <1>2, <1>9, <1>10, QueuesGrow DEF IInv
<1> QED
  BY <1>3, <1>8, <1>11 DEF IInv

\* The connection of a client that has one.
LEMMA CurrentConnection ==
  ASSUME IInv, NEW c \in Client, current[c] # NoConnection
  PROVE  /\ current[c] \in Connection /\ Sound(conn[current[c]])
         /\ conn[current[c]] \in ConnectionRecord
BY DEF IInv, Threads, Connections

LEMMA SendStep ==
  ASSUME IInv, UNCHANGED deployment, NEW c \in Client, NEW request \in Request,
         SendRequest(c, request)
  PROVE  IInv'
<1>1. PICK i : i = current[c]
  OBVIOUS
<1>2. i \in Connection /\ Sound(conn[i]) /\ conn[i] \in ConnectionRecord
  BY <1>1, CurrentConnection DEF SendRequest
<1> DEFINE new == [conn[i] EXCEPT !.wants = request, !.unread = TRUE]
<1>3. Serve(i, new)
  BY <1>1 DEF SendRequest
<1>4. /\ new \in ConnectionRecord /\ new.daemon = conn[i].daemon /\ new.gens = conn[i].gens
      /\ new.reply = conn[i].reply /\ new.at = conn[i].at
  BY <1>2 DEF ConnectionRecord
<1>5. Sound(new)
  BY <1>2, <1>4, SoundChange
<1> QED
  BY <1>2, <1>3, <1>4, <1>5, ServeStep DEF At

LEMMA ReceiveStep ==
  ASSUME IInv, UNCHANGED deployment, NEW c \in Client, ReceiveReply(c)
  PROVE  IInv'
<1>1. PICK i : i = current[c]
  OBVIOUS
<1>2. i \in Connection /\ Sound(conn[i]) /\ conn[i] \in ConnectionRecord
  BY <1>1, CurrentConnection DEF ReceiveReply
<1> DEFINE reply == conn[i].reply
<1>3. PICK new : /\ conn' = [conn EXCEPT ![i] = new]
                 /\ new = [conn[i] EXCEPT
                             !.wants = "none", !.reply = NoReply,
                             !.gens = IF reply.kind = "answer" THEN @ \union {reply.gen} ELSE @]
  BY <1>1, <1>2 DEF ReceiveReply, IInv, Connections
<1>4. UNCHANGED <<deployment, disk, main, flag, engine, pending, current>>
  BY DEF ReceiveReply
<1>5. reply \in Reply /\ (reply.kind = "answer" => reply.gen \in Nat)
  BY <1>2 DEF ConnectionRecord, Reply, Generation
<1>6. /\ new \in ConnectionRecord /\ new.daemon = conn[i].daemon /\ new.at = conn[i].at
      /\ new.reply.kind = "none"
      /\ new.gens = IF reply.kind = "answer" THEN conn[i].gens \union {reply.gen}
                                             ELSE conn[i].gens
  BY <1>2, <1>3, <1>5, ReplyShapes DEF ConnectionRecord
<1>7. Sound(new)
  BY <1>2, <1>6 DEF Sound
<1>8. Connections'
  BY <1>2, <1>3, <1>4, <1>7, SoundStays, ConnectionsStep DEF IInv
<1>9. Queues'
  BY <1>2, <1>3, <1>4, <1>6, QueuesStep DEF IInv, At
<1>10. Threads' /\ Listeners'
  BY <1>4, ThreadsStep DEF IInv
<1> QED
  BY <1>8, <1>9, <1>10 DEF IInv

LEMMA LeaveStep ==
  ASSUME IInv, UNCHANGED deployment, NEW c \in Client, Leave(c)
  PROVE  IInv'
<1>1. PICK i : i = current[c]
  OBVIOUS
<1>2. i \in Connection /\ Sound(conn[i]) /\ conn[i] \in ConnectionRecord
  BY <1>1, CurrentConnection DEF Leave
<1>3. PICK new : /\ conn' = [conn EXCEPT ![i] = new]
                 /\ new = IF At(i, "closed") THEN Unused ELSE [conn[i] EXCEPT !.open = FALSE]
  BY <1>1, <1>2 DEF Leave, IInv, Connections
<1>4. /\ UNCHANGED <<deployment, disk, main, flag, engine, pending>>
      /\ current' = [current EXCEPT ![c] = NoConnection]
  BY DEF Leave
<1>5. Sound(new) /\ new.at = conn[i].at /\ (At(i, "pending") => new.daemon = conn[i].daemon)
  <2>1. CASE At(i, "closed")
    BY <1>3, <2>1, UnusedShape, SoundUnused DEF At
  <2>2. CASE ~At(i, "closed")
    <3>1. /\ new \in ConnectionRecord /\ new.daemon = conn[i].daemon /\ new.at = conn[i].at
          /\ new.gens = conn[i].gens /\ new.reply = conn[i].reply
      BY <1>2, <1>3, <2>2 DEF ConnectionRecord
    <3> QED
      BY <1>2, <3>1, SoundChange
  <2> QED
    BY <2>1, <2>2
<1>6. Connections'
  BY <1>2, <1>3, <1>4, <1>5, SoundStays, ConnectionsStep DEF IInv
<1>7. Queues'
  BY <1>2, <1>3, <1>4, <1>5, QueuesStep DEF IInv, At
<1>8. Threads' /\ Listeners'
  BY <1>4 DEF IInv, Threads, Listeners, Pipe
<1> QED
  BY <1>6, <1>7, <1>8 DEF IInv

-----------------------------------------------------------------------------
LEMMA InvInit == Init => IInv
<1> SUFFICES ASSUME Init PROVE IInv
  OBVIOUS
<1>1. Threads /\ Listeners
  BY DEF Init, Threads, Listeners, MainLabel
<1>2. Connections
  BY UnusedShape, SoundUnused DEF Init, Connections
<1>3. \A d \in Daemon, i \in Connection : ~Waiting(i, d)
  BY UnusedShape DEF Init, Waiting, At
<1>4. Queues
  <2>1. \A d \in Daemon : pending[d] = <<>> /\ Len(pending[d]) = 0 /\ 1 .. Len(pending[d]) = {}
    BY DEF Init
  <2>2. pending \in [Daemon -> Seq(Connection \union {Wake})]
    BY DEF Init
  <2> QED
    BY <1>3, <2>1, <2>2 DEF Queues
<1> QED
  BY <1>1, <1>2, <1>4 DEF IInv

LEMMA InvNext == IInv /\ [Next]_<<vars, deployment>> => IInv'
<1> SUFFICES ASSUME IInv, [Next]_<<vars, deployment>> PROVE IInv'
  OBVIOUS
<1>1. CASE Next
  <2>1. UNCHANGED deployment
    BY <1>1 DEF Next
  <2>2. CASE Scan
    BY <2>1, <2>2, ScanStep
  <2>3. CASE \E d \in Daemon : Start(d) \/ MainThread(d) \/ MainCallFails(d)
    BY <2>1, <2>3, StartStep, MainThreadStep, FailStep
  <2>4. CASE \E i \in Connection : Thread(i)
    BY <2>1, <2>4, ThreadStep
  <2>5. CASE \E c \in Client : \/ Connect(c) \/ ReceiveReply(c) \/ Leave(c)
                               \/ \E request \in Request : SendRequest(c, request)
    BY <2>1, <2>5, ConnectStep, ReceiveStep, LeaveStep, SendStep
  <2> QED
    BY <1>1, <2>2, <2>3, <2>4, <2>5 DEF Next
<1>2. CASE UNCHANGED <<vars, deployment>>
  <2>1. UNCHANGED <<deployment, disk, main, flag, engine, current, conn, pending>>
    BY <1>2 DEF vars
  <2>2. Threads' /\ Listeners'
    BY <2>1, ThreadsStep DEF IInv
  <2>3. Connections'
    BY <2>1, ConnectionsStay DEF IInv
  <2>4. \A e \in Daemon, i \in Connection : Waiting(i, e)' <=> Waiting(i, e)
    BY <2>1 DEF Waiting, At
  <2>5. Queues'
    BY <2>1, <2>4, QueuesStay DEF IInv
  <2> QED
    BY <2>2, <2>3, <2>5 DEF IInv
<1> QED
  BY <1>1, <1>2

LEMMA InvAlways == Spec => []IInv
BY InvInit, InvNext, PTL DEF Spec

-----------------------------------------------------------------------------
(* What follows.                                                           *)

\* The variables keep their types; a pipe instance takes one client, and a
\* connection stands in the queue of a daemon exactly while it is not accepted.
THEOREM TypeCorrect == Spec => []TypeOK
<1>1. IInv => TypeOK
  <2> SUFFICES ASSUME IInv PROVE TypeOK
    OBVIOUS
  <2>1. \A i \in Connection :
          /\ conn[i].at \in Labels /\ conn[i].reply \in Reply /\ conn[i].daemon \in Daemon
    BY DEF IInv, Connections, ConnectionRecord
  <2>2. ASSUME NEW i \in Connection
        PROVE  At(i, "pending") <=>
                 \E d \in Daemon : \E k \in 1 .. Len(pending[d]) : pending[d][k] = i
    <3>1. \A d \in Daemon :
            Waiting(i, d) <=> \E k \in 1 .. Len(pending[d]) : pending[d][k] = i
      BY DEF IInv, Queues
    <3> QED
      BY <2>1, <3>1 DEF Waiting
  <2>3. \A d \in Daemon : Running(d) => engine[d] \in Generation
    BY DEF IInv, Threads, Running
  <2>4. /\ \A d \in Daemon : pending[d] \in Seq(Connection \union {Wake})
        /\ Pipe => \A d \in Daemon : Len(pending[d]) <= 1
    BY DEF IInv, Queues
  <2>5. deployment \in Deployments /\ disk \in 0 .. MaxGen
    BY DEF IInv, Threads
  <2> QED
    BY <2>1, <2>2, <2>3, <2>4, <2>5 DEF TypeOK
<1> QED
  BY <1>1, InvAlways, PTL

\* A client never gets, on one connection, answers from two generations of the
\* index, however many daemons run and however often the file is replaced.
THEOREM OneGenerationPerConnection == Spec => []OneGeneration
<1>1. IInv => OneGeneration
  <2> SUFFICES ASSUME IInv, NEW i \in Connection PROVE Cardinality(conn[i].gens) <= 1
    BY DEF OneGeneration
  <2> DEFINE g == engine[conn[i].daemon]
  <2>1. conn[i].gens = {} \/ conn[i].gens = {g}
    BY DEF IInv, Connections, Sound
  <2>2. Cardinality({}) = 0 /\ Cardinality({g}) = 1
    BY FS_EmptySet, FS_Singleton
  <2>3. Cardinality(conn[i].gens) \in {0, 1}
    BY <2>1, <2>2, Zenon
  <2> QED
    BY <2>3
<1> QED
  BY <1>1, InvAlways, PTL

=============================================================================
