------------------------------- MODULE MCTun -------------------------------
(***************************************************************************)
(* TunMode for TLC.                                                        *)
(***************************************************************************)
EXTENDS TunMode

\* The second instance may run without administrator rights.
FirstPrivileged == {r \in [Procs -> BOOLEAN] : r[1]}
=============================================================================
