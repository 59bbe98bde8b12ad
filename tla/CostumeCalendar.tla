-------------------------- MODULE CostumeCalendar --------------------------
(***************************************************************************)
(* What booking promises: a calendar in which every visit has a code of    *)
(* its own and is promised only costumes that nobody holds.  A promise can *)
(* be dropped and, since the backend issues cancelled visits, be taken up  *)
(* again, which is the one move that does not look at the calendar.        *)
(* Booking is shown to implement it when one request is served at a time.  *)
(***************************************************************************)
EXTENDS Integers

CONSTANTS Codes, Costumes

VARIABLES used,      \* codes given to a visit, for good
          promised,  \* promised[c]: what the visit with code c was promised
          held       \* codes whose promises stand

vars == <<used, promised, held>>

Promise == [costume : Costumes, from : Int, to : Int]

\* The periods of two promises overlap; one may end when the other starts.
Overlap(p, q) == p.from < q.to /\ q.from < p.to

TypeOK == /\ used \in SUBSET Codes
          /\ promised \in [Codes -> SUBSET Promise]
          /\ held \in SUBSET used

Init == /\ used = {}
        /\ promised = [c \in Codes |-> {}]
        /\ held = {}

\* A promise can be kept next to every promise that stands.
Free(p) == \A c \in held : \A q \in promised[c] : q.costume = p.costume => ~Overlap(p, q)

\* ps: what the new visit gets, one promise per costume.
Book(c, ps) == /\ c \notin used
               /\ ps \subseteq Promise
               /\ \A p \in ps : Free(p)
               /\ used' = used \cup {c}
               /\ promised' = [promised EXCEPT ![c] = ps]
               /\ held' = held \cup {c}

Drop(c) == /\ c \in held
           /\ held' = held \ {c}
           /\ UNCHANGED <<used, promised>>

\* What was promised in the meantime is not looked at.
TakeUp(c) == /\ c \in used \ held
             /\ held' = held \cup {c}
             /\ UNCHANGED <<used, promised>>

Next == \E c \in Codes : Drop(c) \/ TakeUp(c) \/ Book(c, promised'[c])

Spec == Init /\ [][Next]_vars
=============================================================================
