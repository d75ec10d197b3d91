---------------------------- MODULE SkbSessions -----------------------------
(***************************************************************************)
(* The processes that learn: `skb find` and `skb find-id` load the engine, *)
(* answer one name and end; `skb mcp` loads it once and then answers the   *)
(* JSON-RPC requests of its client line by line.  They share nothing but   *)
(* state.json, through SkbStateStore.                                      *)
(*                                                                         *)
(* A line has a form: "request" (with a method and an id), "notification"  *)
(* (a method and no id) or "noise" (blank, no JSON, no method).  A call    *)
(* names a tool and has arguments, of which only this is kept: "hit" names *)
(* a file of the index, "miss" none, "bad" is of the wrong type, empty     *)
(* where that is refused, or out of range.                                 *)
(***************************************************************************)
EXTENDS Sequences, Functions, SkbStateStore

CONSTANTS
  Server,       \* the processes that are `skb mcp`
  Line,         \* the lines a client may send
  MaxLines,     \* bound: lines of one client
  MaxMcpBatch   \* MAX_MCP_BATCH

ASSUME SessionAssumption ==
  /\ Server \subseteq Process
  /\ MaxLines \in Nat \ {0} /\ MaxMcpBatch \in Nat \ {0}
  /\ Learning = Process \X (1 .. MaxLines)

ASSUME LineAssumption ==
  \A line \in Line : line.args \in Seq({"hit", "miss", "bad"})

VARIABLES
  lines,    \* lines[p]: the lines p has read
  replies,  \* replies[p]: the lines p has written
  alone     \* ghost: alone[p], no other process has run since p was started

vars == <<storeVars, lines, replies, alone>>

-----------------------------------------------------------------------------
(* tool_call                                                               *)

LearningTool == {"skb_find_refs", "skb_find"}
NameTool == {"skb_find_id"} \union LearningTool
NamesTool == {"skb_find_ids", "skb_find_paths"}
PlainTool == {"skb_hot_files", "skb_stats"}
PlainMethod == {"initialize", "ping", "tools/list"}

Bad(args) == "bad" \in Range(args)

\* The tools for one name, parse_names, and the ids of skb_resolve_paths: all
\* of a call is checked before anything is looked up.
RefusedName(line) == line.args = <<>> \/ Bad(line.args)
RefusedNames(line) == Len(line.args) \notin 1 .. MaxMcpBatch \/ Bad(line.args)
RefusedIds(line) == Len(line.args) \notin 1 .. MaxMcpBatch \/ Bad(line.args)

Refused(line) ==
  CASE line.tool \in NameTool -> RefusedName(line)
    [] line.tool \in NamesTool -> RefusedNames(line)
    [] line.tool = "skb_resolve_paths" -> RefusedIds(line)
    [] OTHER -> line.tool \notin PlainTool

Found(args) == {i \in DOMAIN args : args[i] = "hit"}

\* What an accepted call lists: a batch of names has a result or null for each
\* name, in the order of the names; resolve_files leaves out an unknown id.
Results(line) ==
  CASE line.tool \in NamesTool -> [i \in DOMAIN line.args |-> line.args[i] = "hit"]
    [] line.tool \in NameTool \union {"skb_resolve_paths"} ->
         [i \in 1 .. Cardinality(Found(line.args)) |-> TRUE]
    [] OTHER -> <<>>

\* find_lazy and find learn a name that has a file.
Learns(line) ==
  /\ line.method = "tools/call" /\ line.tool \in LearningTool
  /\ ~Refused(line) /\ line.args[1] = "hit"

\* The kind of the reply to a request that learns nothing: -32601, -32602, ok.
Outcome(line) ==
  CASE line.method \in PlainMethod -> "ok"
    [] line.method = "tools/call" -> IF Refused(line) THEN "refused" ELSE "ok"
    [] OTHER -> "no_method"

-----------------------------------------------------------------------------
(* load_engine, run of mcp.rs and the find commands of skb.rs.             *)

Init ==
  /\ StoreInit
  /\ lines = [p \in Process |-> <<>>]
  /\ replies = [p \in Process |-> <<>>]
  /\ alone = [p \in Process |-> FALSE]

Running(p) == pc[p] \notin {"off", "ended"}

Start(p) ==
  /\ At(p, "off")
  /\ Goto(p, "load")
  /\ alone' = [q \in Process |-> q = p /\ \A other \in Process : ~Running(other)]
  /\ UNCHANGED <<file, active, tmp, handle, mem, faults, solo, blame, lines, replies>>

\* A state that cannot be read ends the process before it has done anything.
StartFails(p) ==
  /\ At(p, "failed")
  /\ Goto(p, "ended")
  /\ UNCHANGED <<file, active, tmp, handle, mem, faults, solo, blame, lines, replies, alone>>

Number(p) == Len(lines[p])   \* the line that is being answered, and its id

\* What a line makes the process do.
Obey(p, line) ==
  IF Learns(line)
  THEN mem' = [mem EXCEPT ![p] = @ \union {<<p, Len(lines'[p])>>}] /\ Goto(p, "save")
  ELSE Goto(p, "reply") /\ UNCHANGED mem

\* Mutant of ServeLine: carries out a notification.
ServeLineWithoutId(p, line) ==
  /\ At(p, "loaded") /\ p \in Server /\ Number(p) < MaxLines
  /\ lines' = [lines EXCEPT ![p] = Append(@, line)]
  /\ IF line.form # "noise" THEN Obey(p, line) ELSE UNCHANGED <<mem, pc>>
  /\ UNCHANGED <<file, active, tmp, handle, faults, solo, blame, replies, alone>>

\* The loop reads a line; only one with a method and an id is carried out.
ServeLine(p, line) ==
  /\ At(p, "loaded") /\ p \in Server /\ Number(p) < MaxLines
  /\ lines' = [lines EXCEPT ![p] = Append(@, line)]
  /\ IF line.form = "request" THEN Obey(p, line) ELSE UNCHANGED <<mem, pc>>
  /\ UNCHANGED <<file, active, tmp, handle, faults, solo, blame, replies, alone>>

\* skb find, skb find-id: one name.
FindOnce(p, line) ==
  /\ At(p, "loaded") /\ p \notin Server /\ lines[p] = <<>>
  /\ line.form = "request" /\ line.method = "tools/call"
  /\ line.tool \in LearningTool /\ ~Refused(line)
  /\ lines' = [lines EXCEPT ![p] = <<line>>]
  /\ Obey(p, line)
  /\ UNCHANGED <<file, active, tmp, handle, faults, solo, blame, replies, alone>>

\* -32603 when the save failed.
ReplyKind(p) ==
  IF At(p, "unsaved") THEN "unsaved" ELSE Outcome(lines[p][Number(p)])

\* The reply is written and flushed; a command then ends.
Reply(p) ==
  /\ pc[p] \in {"reply", "saved", "unsaved"}
  /\ LET kind == ReplyKind(p)
         results == IF kind = "ok" THEN Results(lines[p][Number(p)]) ELSE <<>>
     IN  replies' = [replies EXCEPT ![p] =
                       Append(@, [id |-> Number(p), kind |-> kind, results |-> results])]
  /\ Goto(p, IF p \in Server THEN "loaded" ELSE "ended")
  /\ UNCHANGED <<file, active, tmp, handle, mem, faults, solo, blame, lines, alone>>

\* The client has closed its end: the reply cannot be written, the loop ends.
ReplyFails(p) ==
  /\ faults < MaxFaults
  /\ pc[p] \in {"reply", "saved", "unsaved"}
  /\ faults' = faults + 1
  /\ Goto(p, "ended")
  /\ UNCHANGED <<file, active, tmp, handle, mem, solo, blame, lines, replies, alone>>

\* End of input, or a line that is not UTF-8.
EndOfInput(p) ==
  /\ At(p, "loaded") /\ p \in Server
  /\ Goto(p, "ended")
  /\ UNCHANGED <<file, active, tmp, handle, mem, faults, solo, blame, lines, replies, alone>>

Next ==
  \/ \E p \in Process :
       \/ StoreStep(p) /\ UNCHANGED <<lines, replies, alone>>
       \/ Kill(p) /\ UNCHANGED <<lines, replies, alone>>
       \/ Start(p) \/ StartFails(p) \/ Reply(p) \/ ReplyFails(p) \/ EndOfInput(p)
       \/ \E line \in Line : ServeLine(p, line) \/ FindOnce(p, line)
  \/ PowerLoss /\ alone' = [p \in Process |-> FALSE] /\ UNCHANGED <<lines, replies>>

Spec == Init /\ [][Next]_vars

-----------------------------------------------------------------------------
(* Properties.                                                             *)

ReplyKinds == {"ok", "refused", "no_method", "unsaved"}

TypeOK ==
  /\ StoreTypeOK
  /\ \A p \in Process :
       /\ Number(p) <= MaxLines
       /\ \A i \in 1 .. Len(replies[p]) :
            /\ replies[p][i].id \in 1 .. Number(p) /\ replies[p][i].kind \in ReplyKinds
            /\ replies[p][i].results \in Seq(BOOLEAN)

Requests(p) == {i \in 1 .. Number(p) : lines[p][i].form = "request"}
\* The learnings of p that were answered without an error.
Answered(p) == {i \in 1 .. Number(p) :
                  /\ Learns(lines[p][i])
                  /\ \E r \in Range(replies[p]) : r.id = i /\ r.kind = "ok"}

IsBatch(line) == line.method = "tools/call" /\ line.tool \in NamesTool

\* Replies match requests: a server that waits for a line has answered every
\* request, once, in order and with its id, and nothing else, however the lines
\* between them look.  A reply tells what happened: a call that was refused has
\* learned nothing, one whose save failed has, and a line that was no request
\* never has.  A batch is refused, or answered as a whole: it is within its
\* limit and not empty, and the answer to each name stands at its place.
RepliesTellTruth ==
  \A p \in Process :
     /\ At(p, "loaded") => {r.id : r \in Range(replies[p])} = Requests(p)
     /\ \A i, j \in 1 .. Len(replies[p]) : i < j => replies[p][i].id < replies[p][j].id
     /\ \A r \in Range(replies[p]) :
          <<p, r.id>> \in mem[p] <=> r.kind \in {"ok", "unsaved"} /\ Learns(lines[p][r.id])
     /\ \A r \in Range(replies[p]) : LET line == lines[p][r.id] IN
          IsBatch(line) /\ r.kind = "ok"
            => /\ 0 < Len(r.results) /\ Len(r.results) <= MaxMcpBatch
               /\ r.results = [i \in DOMAIN line.args |-> line.args[i] = "hit"]
     /\ \A i \in 1 .. Number(p) : <<p, i>> \in mem[p] => i \in Requests(p)

\* A session that nobody joined has on disk what it has in memory when its last
\* learning was answered without an error, whatever torn or truncated files it
\* found: earlier learnings, its own, and those an earlier save of it missed.
AloneIsStored ==
  \A p \in Process : \A i \in Answered(p) :
     alone[p] /\ (\A j \in i + 1 .. MaxLines : <<p, j>> \notin mem[p])
       => Readable(active) /\ Stored = mem[p]

\* Sessions that save at the same time may drop what the other learned, tear
\* the state or lose all of it, but never unnoticed: if no save failed or was
\* cut short, or one that nobody disturbed has succeeded since, the state is
\* there and is whole.
LossIsReported ==
  (/\ ~blame /\ \A p \in Process : ~Saving(p)
   /\ \E p \in Process : Answered(p) # {})
  => Readable(active)

=============================================================================
