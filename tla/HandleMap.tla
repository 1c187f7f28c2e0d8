------------------------------ MODULE HandleMap ------------------------------
(***************************************************************************)
(* What a SceneDB cell promises to the holders of its handles, with no     *)
(* pages, rows, slots or generations: a handle names one element from the  *)
(* moment it is issued until it is freed, it never names another one, and  *)
(* the value of the element changes only when somebody writes it.          *)
(*                                                                         *)
(* A handle freed while the GPU may still read its row goes through a      *)
(* "retiring" state in which the element is logically deleted but its      *)
(* bytes stay readable, unchanged.                                         *)
(***************************************************************************)

CONSTANTS
  Handles,   \* every handle that can ever be issued
  Values,    \* contents of an element
  NoValue    \* stands for "the handle resolves to nothing"

VARIABLES
  status,    \* [Handles -> Status]
  value      \* [Handles -> Values \union {NoValue}]

vars == <<status, value>>

Status == {"unissued", "live", "retiring", "dead"}

TypeOK ==
  /\ status \in [Handles -> Status]
  /\ value \in [Handles -> Values \union {NoValue}]

Init ==
  /\ status = [h \in Handles |-> "unissued"]
  /\ value  = [h \in Handles |-> NoValue]

Become(h, from, to) ==
  /\ status[h] = from
  /\ status' = [status EXCEPT ![h] = to]

\* A fresh element starts with whatever bytes its row happens to hold.
Alloc(h, v) ==
  /\ Become(h, "unissued", "live")
  /\ value' = [value EXCEPT ![h] = v]

Write(h, v) ==
  /\ status[h] = "live"
  /\ value' = [value EXCEPT ![h] = v]
  /\ UNCHANGED status

Free(h) ==
  /\ Become(h, "live", "dead")
  /\ value' = [value EXCEPT ![h] = NoValue]

MarkRetire(h) ==
  /\ Become(h, "live", "retiring")
  /\ UNCHANGED value

CommitRetire(h) ==
  /\ Become(h, "retiring", "dead")
  /\ value' = [value EXCEPT ![h] = NoValue]

Next ==
  \E h \in Handles :
    \/ \E v \in Values : Alloc(h, v) \/ Write(h, v)
    \/ Free(h)
    \/ MarkRetire(h)
    \/ CommitRetire(h)

Spec == Init /\ [][Next]_vars

==============================================================================
