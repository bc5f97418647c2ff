------------------------------ MODULE OwnedBox ------------------------------
(***************************************************************************)
(* What a handle promises its users: an object that may be used by many at *)
(* once, is closed to new users by the first release, is dropped exactly   *)
(* once, after its last user has left, and is lost, never dropped, when    *)
(* its process ends.  HandleCell implements this specification.            *)
(***************************************************************************)
EXTENDS Naturals

CONSTANTS
    Boxes,    \* the objects
    Users     \* everyone who may hold one

VARIABLES
    phase,    \* object -> "none", "open", "closing", "dropped" or "lost"
    users     \* object -> the users that hold it

boxVars == <<phase, users>>

Init ==
    /\ phase = [b \in Boxes |-> "none"]
    /\ users = [b \in Boxes |-> {}]

Alloc(b) ==
    /\ phase[b] = "none"
    /\ phase' = [phase EXCEPT ![b] = "open"]
    /\ UNCHANGED users

Join(b, u) ==
    /\ phase[b] = "open"
    /\ u \notin users[b]
    /\ users' = [users EXCEPT ![b] = @ \cup {u}]
    /\ UNCHANGED phase

Quit(b, u) ==
    /\ u \in users[b]
    /\ users' = [users EXCEPT ![b] = @ \ {u}]
    /\ UNCHANGED phase

Close(b) ==
    /\ phase[b] = "open"
    /\ phase' = [phase EXCEPT ![b] = "closing"]
    /\ UNCHANGED users

Drop(b) ==
    /\ phase[b] = "closing"
    /\ users[b] = {}
    /\ phase' = [phase EXCEPT ![b] = "dropped"]
    /\ UNCHANGED users

Lose ==
    /\ \A b \in Boxes : users[b] = {}
    /\ phase' = [b \in Boxes |-> IF phase[b] = "none" THEN "none" ELSE "lost"]
    /\ UNCHANGED users

Next ==
    \/ \E b \in Boxes : Alloc(b) \/ Close(b) \/ Drop(b)
    \/ \E b \in Boxes, u \in Users : Join(b, u) \/ Quit(b, u)
    \/ Lose

Spec == Init /\ [][Next]_boxVars

=============================================================================
