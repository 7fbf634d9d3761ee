------------------------------- MODULE MCJwks -------------------------------
(* Three calls and two keys: one call can fetch while another waits and a  *)
(* third arrives, and one key can replace the other.                       *)
EXTENDS JwksCache, TLC

CONSTANTS old, new

MCTokens == {[rs256 |-> TRUE, kid |-> old, claims |-> "valid"],
             [rs256 |-> TRUE, kid |-> new, claims |-> "expired"],
             [rs256 |-> FALSE, kid |-> old, claims |-> "valid"]}

Symmetry == Permutations(Calls)

=============================================================================
