---------------------------- MODULE MCRateLimiter ----------------------------
(***************************************************************************)
(* Workers and intervals for TLC.  A unit is a second: 2 between attempts  *)
(* and 5 requests per 10 in the servers bucket are the daemon's own        *)
(* numbers; the smaller windows keep their proportion.                     *)
(***************************************************************************)
EXTENDS RateLimiter

Worker(type, id) == [type |-> type, id |-> id]

(* Two workers that share the servers bucket.                               *)
Structure == {Worker("role", "r1"), Worker("category", "k1")}

ServersOnly == [servers |-> 2]

TwoPerWindow  == [servers |-> 2]
FivePerWindow == [servers |-> 5]

(* CreateRole makes three requests, more than TwoPerWindow ever takes at    *)
(* once; SetCategories makes one.                                           *)
Creates == [w \in Workers |-> IF w.type = "role" THEN 3 ELSE 1]
=============================================================================
