---------------------------- MODULE MCSystemProxy ----------------------------
(***************************************************************************)
(* SystemProxy for TLC.                                                    *)
(***************************************************************************)
EXTENDS SystemProxy

\* Without and with a proxy of the user's own; without, but with the address
\* of an earlier one still in place.
OffOrOn == {Disabled, [on |-> TRUE, addr |-> "corp"]}
OffWithAddress == {[on |-> FALSE, addr |-> "corp"]}
=============================================================================
