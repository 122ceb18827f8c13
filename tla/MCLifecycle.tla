---------------------------- MODULE MCLifecycle ----------------------------
(* Lifecycle for TLC.  Callers share one thing, the manifest row, and the world  *)
(* matters only to what one caller does: with two callers at work the world      *)
(* stays, and a changing world meets one caller, the TUI or agentctl.            *)
EXTENDS Lifecycle, TLC
CallSymmetry == Permutations(Call)
Static == [kind |-> "static", guarded |-> FALSE]
GuardedStatic == [kind |-> "static", guarded |-> TRUE]
GuardedProbe == [kind |-> "probe_readonly", guarded |-> TRUE]
OpenProbe == [kind |-> "probe_readonly", guarded |-> FALSE]
Absent == [kind |-> "absent", guarded |-> FALSE]
AllManifests == {Static, GuardedStatic, GuardedProbe, OpenProbe, Absent}
ProbeAndStatic == {GuardedProbe, Static}
WorldOrRivals ==
  changes > 0 => \E c \in Call : /\ \A d \in Call \ {c} : pc[d] = "idle"
                                 /\ call[c].op \in {"tui", "run"}
                                 /\ installed \in ProbeAndStatic
=============================================================================
