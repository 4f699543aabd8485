---------------------------- MODULE MappingStore ----------------------------
(***************************************************************************)
(* The mapping tables of internal/store: one row per Discord entity, which *)
(* pairs it with its Stoat counterpart.  Every operation is one SQL        *)
(* statement on a database opened with a single connection, so each is     *)
(* atomic and is given here as a function from a row to a row, with the    *)
(* foreign-key condition under which SQLite accepts the statement.         *)
(***************************************************************************)
EXTENDS Naturals

CONSTANTS
  Roles, Channels, Messages, \* Discord ids, by entity type
  States,                    \* canonical states, as far as Op.Diff tells them apart
  Null                       \* SQL NULL, and "none" elsewhere

Entities == Roles \cup Channels \cup Messages

ASSUME EntitiesAssumption ==
  /\ Roles \cap Channels = {} /\ Roles \cap Messages = {} /\ Channels \cap Messages = {}
  /\ Null \notin Entities \cup States

EntityType(e) ==
  IF e \in Roles THEN "role" ELSE IF e \in Channels THEN "channel" ELSE "message"

(* The empty Stoat id. *)
NoId == 0

RowType == [status : {"absent", "pending", "active"}, id : Nat,
            state : States \cup {Null}, channel : Channels \cup {Null}]

Absent == [status |-> "absent", id |-> NoId, state |-> Null, channel |-> Null]

Found(row)  == row.status # "absent"
Active(row) == row.status = "active"

HasStoatEntity(row) == Found(row) /\ row.id # NoId

(* Mutant: the upsert clears stoat_id, as the insert does.                  *)
PendingStructureRowReset(row, state) ==
  [status |-> "pending", id |-> NoId, state |-> state, channel |-> Null]

(* WritePending on a role or channel: an insert has no Stoat id, an update  *)
(* keeps the one it finds.                                                  *)
PendingStructureRow(row, state) ==
  [status |-> "pending", id |-> row.id, state |-> state, channel |-> Null]

(* On a message: message_map has no status column, a row reads as active    *)
(* whenever it has a Stoat id, so an edit never leaves "active"; an edit    *)
(* keeps the channel, too.                                                  *)
PendingMessageRow(row, state, channel) ==
  [status  |-> IF row.id = NoId THEN "pending" ELSE "active",
   id      |-> row.id,
   state   |-> state,
   channel |-> IF Found(row) THEN row.channel ELSE channel]

PendingRow(e, row, state, channel) ==
  IF e \in Messages THEN PendingMessageRow(row, state, channel)
                    ELSE PendingStructureRow(row, state)

(* UPDATE ... WHERE discord_id = ?: nothing happens to a row that is absent. *)
ConfirmedRow(row, id) ==
  IF Found(row) THEN [row EXCEPT !.status = "active", !.id = id] ELSE row

(* message_map.channel_id REFERENCES channel_map: the insert of a message    *)
(* needs its channel's row ...                                               *)
MayWritePending(rows, e, channel) ==
  e \in Messages /\ ~Found(rows[e]) => channel \in Channels /\ Found(rows[channel])

(* Mutant: the database is opened without foreign_keys = ON.                *)
MayRemoveAlways(rows, e) == TRUE

(* ... and a channel's row cannot go while a message row refers to it.       *)
MayRemove(rows, e) ==
  \A m \in Messages : Found(rows[m]) => rows[m].channel # e
=============================================================================
