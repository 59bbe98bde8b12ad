--------------------------- MODULE VisitContract ---------------------------
(***************************************************************************)
(* What the rental desk relies on: a visit and its deposit move together,  *)
(* in one indivisible step per desk operation.  VisitLifecycle describes   *)
(* how the backend performs these operations (read, check, write) and is   *)
(* shown to implement this module when one request is served at a time.   *)
(***************************************************************************)
CONSTANT Visits

VARIABLES status,  \* status[v]: where the visit is in its life
          held     \* held[v]:   what the desk holds as security for v

vars == <<status, held>>

Status == {"absent", "reserved", "issued", "completed", "cancelled"}

\* "nothing": no deposit row; "held": taken and not given back; "back": given back.
Holding == {"nothing", "held", "back"}

TypeOK == /\ status \in [Visits -> Status]
          /\ held \in [Visits -> Holding]

Init == /\ status = [v \in Visits |-> "absent"]
        /\ held = [v \in Visits |-> "nothing"]

Move(v, from, to) == /\ status[v] \in from
                     /\ status' = [status EXCEPT ![v] = to]

Reserve(v) == Move(v, {"absent"}, "reserved") /\ UNCHANGED held

\* A cancelled visit can be issued again: the backend refuses only issued ones,
\* and a completed one is kept out by the deposit it already has.
Issue(v) == /\ Move(v, {"reserved", "cancelled"}, "issued")
            /\ held[v] = "nothing"
            /\ held' = [held EXCEPT ![v] = "held"]

Unissue(v) == /\ Move(v, {"issued"}, "reserved")
              /\ held' = [held EXCEPT ![v] = "nothing"]

Complete(v) == /\ Move(v, {"issued"}, "completed")
               /\ \E h \in {held[v], "back"} : held' = [held EXCEPT ![v] = h]

Cancel(v) == /\ Move(v, {"reserved"}, "cancelled")
             /\ held[v] = "nothing"
             /\ UNCHANGED held

GiveBack(v) == /\ status[v] \in {"issued", "completed"}
               /\ held[v] # "nothing"
               /\ held' = [held EXCEPT ![v] = "back"]
               /\ UNCHANGED status

Next == \E v \in Visits : \/ Reserve(v) \/ Issue(v) \/ Unissue(v)
                          \/ Complete(v) \/ Cancel(v) \/ GiveBack(v)

Spec == Init /\ [][Next]_vars
=============================================================================
