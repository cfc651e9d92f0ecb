---------------------------- MODULE PolicyLibrary ----------------------------
(***************************************************************************)
(* What a policy set promises to the tasks that are bound to it: versions  *)
(* are published in one step, one after the other, each of them once.  A   *)
(* version that was published stays in the library with the text it had,   *)
(* only the newest one can be active, and only the active one is taken     *)
(* into use.                                                               *)
(*                                                                         *)
(* PolicyPublication implements this specification, although a publication *)
(* there takes several transactions and may end between any two.           *)
(***************************************************************************)
CONSTANT Versions \* the versions a set can have

VARIABLES
  library, \* the text of each version that can be retrieved
  active,  \* the version new tasks are bound to, or none
  used     \* the versions some task was bound to

shelf == <<library, active, used>>

Init == /\ library = [v \in {} |-> {}]
        /\ active = {}
        /\ used = {}

\* A version that was not there before becomes the active one.
Publish(v) == /\ v \notin DOMAIN library
              /\ DOMAIN library' = DOMAIN library \cup {v}
              /\ \A w \in DOMAIN library : library'[w] = library[w]
              /\ active' = {v}
              /\ UNCHANGED used

Deactivate == /\ active # {}
              /\ active' = {}
              /\ UNCHANGED <<library, used>>

\* A task takes the active version into use, and keeps it.
Bind(v) == /\ active = {v}
           /\ used' = used \cup {v}
           /\ UNCHANGED <<library, active>>

Next == \/ \E v \in Versions : Publish(v) \/ Bind(v)
        \/ Deactivate

Spec == Init /\ [][Next]_shelf

\* What a bound task relies on: its version can be retrieved, whatever becomes
\* of it later, and there is no doubt which one a new task gets.
IsKept == /\ used \subseteq DOMAIN library
          /\ active \subseteq DOMAIN library
          /\ \A v, w \in active : v = w
=============================================================================
