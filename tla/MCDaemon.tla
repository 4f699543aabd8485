------------------------------ MODULE MCDaemon ------------------------------
(* Daemon for TLC: three roles, one channel, and two processes.             *)
EXTENDS Daemon, TLC

CONSTANTS everyone, admin, reader, c1

MCRoles == {everyone, admin, reader}

Ow(allow, deny) == [allow |-> allow, deny |-> deny]

(* Discord hides a channel from everyone, and shows it to the readers; the  *)
(* audit log has no permission on Stoat.                                    *)
MCMayGive == (everyone :> {Ow({}, {"view"})})
             @@ (reader :> {Ow({"view", "audit"}, {})}) @@ (admin :> {})

(* For an instance the README names: an overwrite for administrators.       *)
AdminToo == [MCMayGive EXCEPT ![admin] = {Ow({}, {"view"})}]

(* For another: one that hides a channel from the readers.                  *)
Hushed == [MCMayGive EXCEPT ![reader] = {Ow({}, {"view"})}]

MCStates == 0..2 \cup {Empty} \cup
            UNION {[rs -> UNION {MCMayGive[r] : r \in rs}] : rs \in SUBSET {everyone, reader}}

MCStatements == <<2, 1>>

Hidden == everyone :> Ow({}, {"view"})

Row(id, state) == [status |-> "active", id |-> id, state |-> state, channel |-> Null]

Bare == [e \in MCRoles \cup {c1} |-> Absent]

Positioned == everyone :> 0 @@ admin :> 2 @@ reader :> 1

MCName == everyone :> "everyone" @@ admin :> "admins" @@ reader :> "readers" @@ c1 :> "general"

(* A first start, with a role of everybody's name on Stoat ...             *)
Fresh == [position |-> Positioned, guild |-> c1 :> (reader :> Ow({"view", "audit"}, {})),
          rows |-> Bare, ranks |-> 1 :> 0 @@ 2 :> 1, worn |-> {1}, over |-> <<>>,
          names |-> 1 :> "bot" @@ 2 :> "everyone"]

(* ... one where the mirror stands, but a reader is still to come, and the  *)
(* bot wears a role of somebody's, too ...                                  *)
Standing == [position |-> everyone :> 0 @@ admin :> 2, guild |-> c1 :> Hidden,
             rows |-> [Bare EXCEPT ![everyone] = Row(2, 0), ![admin] = Row(3, 2), ![c1] = Row(4, Hidden)],
             ranks |-> 1 :> 0 @@ 2 :> 1 @@ 3 :> 2 @@ 5 :> 4, worn |-> {1, 3, 5},
             over |-> 4 :> (3 :> Ow({"view"}, {}) @@ 5 :> Ow({"view"}, {}) @@ NoId :> Ow({}, {"view"})),
             names |-> 1 :> "bot" @@ 2 :> "everyone" @@ 3 :> "admins" @@ 4 :> "general" @@ 5 :> "helpers"]

(* ... one whose readers and channel were deleted on Stoat and made anew    *)
(* there ...                                                                *)
Damaged == [Standing EXCEPT !.position = Positioned, !.guild = c1 :> <<>>,
              !.rows[reader] = Row(9, 1), !.rows[c1] = Row(8, <<>>), !.worn = {1},
              !.ranks[5] = 1, !.names[5] = "readers", !.over = 4 :> <<>>]

(* ... four (for instances the README names): one of two administrators'    *)
(* roles was deleted; the program ended while it updated the only one; the  *)
(* bot sees a channel by another's role only; it wears a role that is named *)
(* like the readers ...                                                     *)
Halved   == {[Standing EXCEPT !.position = Positioned, !.rows[reader] = Row(9, 1)]}
Halfway  == {[Standing EXCEPT !.rows[admin].status = "pending"]}
Borrowed == {[Standing EXCEPT !.over = 4 :> (5 :> Ow({"view"}, {}) @@ NoId :> Ow({}, {"view"}))]}
Namesake == {[Standing EXCEPT !.position = Positioned, !.names[5] = "readers"]}

(* ... one whose administrators were; one where a Discord role has adopted  *)
(* the bot's, and a channel is nobody's; and two that cannot start: nobody  *)
(* is an administrator, or two roles are of rank 0.                         *)
Dead      == [Standing EXCEPT !.rows[admin] = Row(9, 2), !.worn = {1},
                !.ranks = 1 :> 0 @@ 2 :> 1, !.over = 4 :> <<>>,
                !.names = 1 :> "bot" @@ 2 :> "everyone" @@ 4 :> "general"]
Adopted   == [Standing EXCEPT !.position = Positioned, !.rows[reader] = Row(1, 1),
                !.over = 6 :> <<>> @@ @, !.names = 6 :> "lobby" @@ @]
Headless  == [Fresh EXCEPT !.position = everyone :> 0 @@ reader :> 1]
Ambiguous == [Fresh EXCEPT !.ranks = 2 :> 0 @@ @, !.names = 2 :> "other" @@ @]

MCWorlds == {Fresh, Standing, Damaged, Dead, Adopted, Headless, Ambiguous}

(* The theorem BotStaysInSight is about such a Discord and such starts.     *)
ASSUME Worlds = MCWorlds /\ MayGive = MCMayGive /\ MayDelete = {reader} => AdminsSee /\ AdminsStay /\ StartsInSight
=============================================================================
