---------------------------- MODULE MCSkbInstall -----------------------------
(* Three runs: new installs, a repair from the installed program, and both  *)
(* kinds of uninstall.                                                      *)
EXTENDS SkbInstall, TLC

CONSTANTS r1, r2, r3

Symmetry == Permutations({r1, r2, r3})

Asked(kind, here, source, options) ==
  [kind |-> kind, here |-> here, source |-> source,
   addPath |-> "path" \in options, scan |-> "scan" \in options,
   startDaemon |-> "daemon" \in options, purge |-> "purge" \in options]

McOperation ==
  { Asked("install", FALSE, "good", {"path", "scan", "daemon"}),
    Asked("install", FALSE, "broken", {"path"}),
    Asked("install", FALSE, "good", {"daemon"}),
    Asked("install", TRUE, "good", {"path"}),
    Asked("uninstall", TRUE, "good", {}),
    Asked("uninstall", FALSE, "good", {"purge"}) }
=============================================================================
