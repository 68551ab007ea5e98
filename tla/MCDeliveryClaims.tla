---------------------------- MODULE MCDeliveryClaims ----------------------------
(***************************************************************************)
(* Instances of DeliveryClaims.                                            *)
(***************************************************************************)
EXTENDS DeliveryClaims, TLC

(* One event delivered under two ids, and a delivery that collides with    *)
(* the second of them by its id alone, so that colliding is not transitive. *)
ThreeDeliveries == {[delivery |-> "d1", uuid |-> "u1"],
                    [delivery |-> "d2", uuid |-> "u1"],
                    [delivery |-> "d2", uuid |-> "u2"]}

SameWorkers == Permutations(Workers)
================================================================================
