------------------------ MODULE MutualAuthentication ------------------------
(***************************************************************************)
(* What the SPAKE2 handshake of openscreen-network promises, without a     *)
(* message, a key or a state machine in it.                                *)
(*                                                                         *)
(* Every peer runs one authentication attempt.  An attempt first VERIFIES  *)
(* the other side (it has seen proof that the other side derived the same  *)
(* key from the same handshake), and ends "authenticated" or "failed".  A  *)
(* peer may verify only when the two sides are configured compatibly, and  *)
(* may end "authenticated" only when every peer has verified: each side    *)
(* waits for the other's auth-status before it calls itself authenticated. *)
(* A peer may give up at any time before its own verdict; the verdict is   *)
(* final.                                                                  *)
(***************************************************************************)
CONSTANT Peer

VARIABLES
  compatible,  \* the configurations of the peers fit together; never changes
  verified,    \* the peers that have verified the other side; only grows
  outcome      \* verdict of each peer's attempt

vars == <<compatible, verified, outcome>>

Init ==
  /\ compatible \in BOOLEAN
  /\ verified = {}
  /\ outcome = [p \in Peer |-> "pending"]

Verify(p) ==
  /\ compatible
  /\ outcome[p] = "pending"
  /\ verified' = verified \cup {p}
  /\ UNCHANGED <<compatible, outcome>>

Authenticate(p) ==
  /\ outcome[p] = "pending"
  /\ verified = Peer
  /\ outcome' = [outcome EXCEPT ![p] = "authenticated"]
  /\ UNCHANGED <<compatible, verified>>

(* The attempt is given up, perhaps in the very step that verified.        *)
Fail(p) ==
  /\ outcome[p] = "pending"
  /\ outcome' = [outcome EXCEPT ![p] = "failed"]
  /\ \/ UNCHANGED verified
     \/ compatible /\ verified' = verified \cup {p}
  /\ UNCHANGED compatible

Next == \E p \in Peer : Verify(p) \/ Authenticate(p) \/ Fail(p)

Spec == Init /\ [][Next]_vars
=============================================================================
