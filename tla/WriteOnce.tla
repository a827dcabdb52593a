------------------------------ MODULE WriteOnce ------------------------------
(***************************************************************************)
(* What a table of decisions or of evidence promises: a key is recorded      *)
(* once, what was recorded is never changed, and everybody who is answered   *)
(* about a key is told what was recorded.                                    *)
(***************************************************************************)
EXTENDS Naturals

VARIABLES
  records,   \* [key, content]
  answer     \* what a step tells a caller: at most one record

OnceInit == records = {} /\ answer = {}

Record ==
  \E r \in records' \ records :
    /\ \A s \in records : s.key # r.key
    /\ records' = records \cup {r}
    /\ answer' = {r}

Answer ==
  /\ UNCHANGED records
  /\ answer' \subseteq records

OnceNext == Record \/ Answer

OnceSpec == OnceInit /\ [][OnceNext]_<<records, answer>>
=============================================================================
