------------------------------ MODULE FileCopy ------------------------------
(***************************************************************************)
(* What a copy of a file promises: its output grows along the contents of  *)
(* the file, is never anything but a prefix of them, and is all of them    *)
(* when the copy is reported good.  Bytes are numbered from 1.             *)
(***************************************************************************)
EXTENDS Naturals

CONSTANT Contents   \* what files may hold: functions on 1 .. n

VARIABLES content, out, state   \* state: "copying", or how the last copy ended

copyVars == <<content, out, state>>

Prefix(c, n) == [i \in 1 .. n |-> c[i]]

Init == state = "part" /\ content \in Contents /\ out = Prefix(content, 0)

Begin ==
  /\ state # "copying" /\ state' = "copying"
  /\ content' \in Contents /\ out' = Prefix(content', 0)

Grow ==
  /\ state = "copying"
  /\ \E n \in DOMAIN content : DOMAIN out \subseteq 1 .. n /\ out' = Prefix(content, n)
  /\ UNCHANGED <<content, state>>

\* Whole only when nothing is missing.
End ==
  /\ state = "copying"
  /\ \/ state' = "part"
     \/ state' = "whole" /\ out = content
  /\ UNCHANGED <<content, out>>

Next == Begin \/ Grow \/ End

Spec == Init /\ [][Next]_copyVars
=============================================================================
