-------------------------- MODULE MCOutboxRetention --------------------------
(***************************************************************************)
(* A small instance of OutboxRetention for TLC.                              *)
(***************************************************************************)
EXTENDS OutboxRetention

\* No filter, and one whose events come and go.
MCFilters == {[subject |-> None, status |-> None], [subject |-> None, status |-> "pending"]}

\* Numbers around zero, around the maximum, around the largest int32 and around
\* the width, where the conversion of the HTTP endpoint wraps around.
MCLimits ==
  -1 .. 1 \cup MaxLimit .. MaxLimit + 1
    \cup (Width \div 2) - 1 .. Width \div 2 \cup Width - 1 .. Width + 1
=============================================================================
