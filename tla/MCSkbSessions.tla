--------------------------- MODULE MCSkbSessions ----------------------------
(* One server and two commands; batches of at most two items: one is empty, *)
(* one too long and one within the limit.                                   *)
EXTENDS SkbSessions, TLC

CONSTANTS mcp, find1, find2

Symmetry == Permutations({find1, find2})

McLearning == Process \X (1 .. MaxLines)

Call(form, tool, args) == [form |-> form, method |-> "tools/call", tool |-> tool, args |-> args]
Plain(form, method) == [form |-> form, method |-> method, tool |-> "none", args |-> <<>>]

McLine ==
  { Call("request", "skb_find_refs", <<"hit">>),
    Call("notification", "skb_find", <<"hit">>),
    Call("request", "skb_find_ids", <<"hit", "hit", "miss">>),
    Call("request", "skb_find_ids", <<>>),
    Call("request", "skb_find_paths", <<"miss", "hit">>) }
=============================================================================
