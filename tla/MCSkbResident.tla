--------------------------- MODULE MCSkbResident ----------------------------
(* Daemons and clients are model values.  The deployments: one daemon on a  *)
(* pipe with two clients, two daemons started at one TCP endpoint or at one *)
(* pipe with a client, and the small ones of the violations.                *)
EXTENDS SkbResident

CONSTANTS d1, d2, c1, c2

OneClient ==
  [pipe |-> TRUE, daemons |-> {d1}, clients |-> {c1}, connections |-> {1, 2},
   scans |-> 1, failures |-> 0]

OnePipe == [OneClient EXCEPT !.clients = {c1, c2}, !.scans = 2]
FailingPipe == [OneClient EXCEPT !.failures = 1]
TwoListeners == [OneClient EXCEPT !.pipe = FALSE, !.daemons = {d1, d2}, !.failures = 1]
TwoPipes == [OneClient EXCEPT !.daemons = {d1, d2}, !.connections = {1}]

All == {OnePipe, FailingPipe, TwoListeners, TwoPipes}
SmallPipe == {OneClient}
SmallListener == {[OneClient EXCEPT !.pipe = FALSE]}
=============================================================================
