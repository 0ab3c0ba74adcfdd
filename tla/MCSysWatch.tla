---------------------------- MODULE MCSysWatch ----------------------------
(***************************************************************************)
(* Four threads: two of one priority, a more and a less urgent one.        *)
(***************************************************************************)
EXTENDS SysWatch

McThreads  == {"urgent", "twin", "other", "low"}
McPriority == [urgent |-> 1, twin |-> 2, other |-> 2, low |-> 3]
=============================================================================
