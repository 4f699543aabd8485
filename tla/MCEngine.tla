------------------------------ MODULE MCEngine ------------------------------
(***************************************************************************)
(* Op sets for TLC: each is one story of a small guild.                    *)
(***************************************************************************)
EXTENDS EngineProperties

CONSTANTS r1, c1, c2, m1, m2, s0, s1, s2

Op(n, kind, e, deps, s) ==
  [n |-> n, kind |-> kind, entity |-> e, channel |-> Null, deps |-> deps, state |-> s]
MsgOp(n, kind, e, ch, s) ==
  [n |-> n, kind |-> kind, entity |-> e, channel |-> ch,
   deps |-> IF kind = "delete" THEN {} ELSE {ch}, state |-> s]

(* A cold start: role, channel and messages appear together.                *)
BootOps == {Op(1, "create", r1, {}, s1), Op(2, "create", c1, {r1}, s1),
            MsgOp(3, "create", m1, c1, s1), MsgOp(4, "create", m2, c1, s1)}

(* A channel whose role is created with it.                                 *)
PairOps == {Op(1, "create", r1, {}, s1), Op(2, "create", c1, {r1}, s1)}

(* The same channel, deleted at once.                                       *)
GoneOps == PairOps \cup {Op(3, "delete", c1, {}, s1)}

(* Two messages while their channel is being updated.                       *)
RenameOps == {Op(1, "update", c1, {}, s1), MsgOp(2, "create", m1, c1, s1),
              MsgOp(3, "create", m2, c1, s1)}

(* A channel is created, and converged again at the next start.             *)
AgainOps == {Op(1, "create", c1, {}, s1), Op(2, "update", c1, {}, s1)}

(* A mapped channel is deleted after a message was mirrored into it.        *)
CloseOps == {MsgOp(1, "create", m1, c1, s1), Op(2, "delete", c1, {}, s1)}

(* A channel goes and comes back while a message is on its way into it.     *)
ReopenOps == CloseOps \cup {Op(3, "create", c1, {}, s2), MsgOp(4, "update", m1, c1, s2)}

(* A mapped channel is changed, then deleted.                               *)
DropOps == {Op(1, "update", c1, {}, s1), Op(2, "delete", c1, {}, s1)}

(* A role that changes and goes, and a channel that waits for it.           *)
ChurnOps == {Op(1, "update", r1, {}, s1), Op(2, "update", r1, {}, s2),
             Op(3, "delete", r1, {}, s1), Op(4, "create", c1, {r1}, s1)}

(* Traffic in a mapped channel, beside another channel's own life.  The     *)
(* message's update brings nothing new: Discord sends such updates.         *)
WarmOps == {MsgOp(1, "create", m1, c1, s1), MsgOp(2, "update", m1, c1, s1),
            MsgOp(3, "create", m2, c1, s1), Op(4, "create", c2, {r1}, s1),
            Op(5, "update", c2, {r1}, s2), Op(6, "delete", c2, {}, s1)}

Cold == <<>>
RoleMapped == <<r1>>
ChannelMapped == <<r1, c1>>

(* The theorems on a calm engine are about such ops.                        *)
ASSUME Ops = WarmOps /\ Mirrored = ChannelMapped => HomesStay /\ ChannelsFirst /\ Settled
=============================================================================
