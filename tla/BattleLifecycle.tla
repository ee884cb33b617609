-------------------------- MODULE BattleLifecycle --------------------------
(***************************************************************************)
(* What the battle server promises about the battles of each key.  A       *)
(* battle is created running, ends once, and is erased after it has ended. *)
(* Only when a key is used again may its new battle be erased while it     *)
(* runs: the end of an earlier battle may have been announced twice.       *)
(***************************************************************************)
EXTENDS Naturals

CONSTANT Keys

VARIABLES phase,   \* of each key's battle: none, running or ending
          count    \* how many battles the key has had

vars == <<phase, count>>

Init == /\ phase = [k \in Keys |-> "none"]
        /\ count = [k \in Keys |-> 0]

Move(k, from, to) == /\ phase[k] = from
                     /\ phase' = [phase EXCEPT ![k] = to]

Create(k) == /\ Move(k, "none", "running")
             /\ count' = [count EXCEPT ![k] = @ + 1]

End(k) == Move(k, "running", "ending") /\ UNCHANGED count

Erase(k) == Move(k, "ending", "none") /\ UNCHANGED count

Discard(k) == Move(k, "running", "none") /\ count[k] > 1 /\ UNCHANGED count

Next == \E k \in Keys : Create(k) \/ End(k) \/ Erase(k) \/ Discard(k)

Spec == Init /\ [][Next]_vars

(* A battle that has ended is erased. *)
FairSpec == Spec /\ \A k \in Keys : WF_vars(Erase(k))
=============================================================================
