-------------------------- MODULE SkbIndexRegister --------------------------
(***************************************************************************)
(* What saving the index promises: there is one current index, replaced as *)
(* a whole by each scan that commits, and a process that loads gets an     *)
(* index that was current at that moment.  While scans take turns commits  *)
(* come in the order of the scans; when they overlap an older scan may     *)
(* commit last, and where "none" is promised the index may be lost too.    *)
(* A loss of power brings back an index that was current at some moment    *)
(* since the current one was last secured.                                 *)
(***************************************************************************)
EXTENDS Integers

CONSTANTS Generation, Process

NoIndex == 0

VARIABLES
  current,   \* the generation a lookup would use, or NoIndex
  fallback,  \* what a loss of power may leave: current, or one before it
  loaded,    \* loaded[p]: the generation process p works with, or NoIndex
  promise    \* "ordered", "whole" (never lost) or "none"

vars == <<current, fallback, loaded, promise>>

Init ==
  /\ current = NoIndex
  /\ fallback = {NoIndex}
  /\ loaded = [p \in Process |-> NoIndex]
  /\ promise = "ordered"

Commit(g) ==
  /\ promise = "ordered" => \A h \in fallback : g > h
  /\ promise = "whole" => g # NoIndex
  /\ current' = g
  /\ fallback' = fallback \union {g}
  /\ UNCHANGED <<loaded, promise>>

Secure ==
  /\ fallback' = {current}
  /\ UNCHANGED <<current, loaded, promise>>

Load(p) ==
  /\ current # NoIndex
  /\ loaded' = [loaded EXCEPT ![p] = current]
  /\ UNCHANGED <<current, fallback, promise>>

\* The process ends, or is about to load again.
Forget(p) ==
  /\ loaded' = [loaded EXCEPT ![p] = NoIndex]
  /\ UNCHANGED <<current, fallback, promise>>

\* The power fails.
Revert ==
  /\ current' \in fallback
  /\ fallback' = {current'}
  /\ loaded' = [p \in Process |-> NoIndex]
  /\ UNCHANGED promise

Weaken ==
  /\ promise = "ordered"
  /\ promise' \in {"whole", "none"}
  /\ UNCHANGED <<current, fallback, loaded>>

Next ==
  \/ \E g \in Generation \union {NoIndex} : Commit(g)
  \/ \E p \in Process : Load(p) \/ Forget(p)
  \/ Secure
  \/ Revert
  \/ Weaken

Spec == Init /\ [][Next]_vars

=============================================================================
