------------------------------ MODULE Messages ------------------------------
(***************************************************************************)
(* The messages of one channel (internal/discord/message.go, gif.go and    *)
(* the message half of internal/store and internal/stoat): what a create,  *)
(* update or delete event is turned into, and what the channel's worker    *)
(* makes of it.  A content is a text and, maybe, a link to a GIF, which on *)
(* Stoat is an attachment; and Stoat takes attachments and a reply's link  *)
(* with a new message only.  Engine has the rest of the engine.            *)
(***************************************************************************)
EXTENDS MappingStore, Sequences

CONSTANTS
  Channel,      \* the channel, whose mirror is there
  NoText,       \* the text ""
  Contents,     \* [text, link] of messages
  Parent,       \* by message, the one it replies to, or Null
  MaxFiles,     \* attachments of a message
  Cap,          \* maxStoatAttachmentsPerMessage
  Racing,       \* whether the goroutines of two handlers overtake each other
  MaxUpdates, MaxMishaps \* bounds on updates, and on failures and restarts

Blank == [text |-> NoText, link |-> FALSE]

Content == [text : {c.text : c \in Contents}, link : BOOLEAN]
State   == [content : Content, author : {"member", "user"}]

ASSUME MessagesAssumption ==
  /\ Channels = {Channel} /\ Roles = {} /\ Blank \in Contents /\ Contents \subseteq Content
  /\ Parent \in [Messages -> Messages \cup {Null}] /\ \A m \in Messages : Parent[m] # m
  /\ Null \notin Messages
  /\ MaxFiles \in Nat /\ Cap \in Nat /\ Racing \in BOOLEAN
  /\ MaxUpdates \in Nat /\ MaxMishaps \in Nat

VARIABLES
  posted, changes, updates, \* Discord: its messages; edits, by message; updates of any kind
  queue, worker,            \* the channel's
  rows,                     \* message_map
  copies,                   \* Stoat: what was ever sent to the channel, in order
  mishaps

discord == <<posted, changes, updates>>
vars    == <<discord, queue, worker, rows, copies, mishaps>>

Unsent == [status |-> "unsent", content |-> Blank, files |-> 0]
Idle   == [pc |-> "idle", op |-> Null, id |-> NoId]

Init ==
  /\ posted = [m \in Messages |-> Unsent] /\ changes = [m \in Messages |-> 0] /\ updates = 0
  /\ queue = <<>> /\ worker = Idle
  /\ rows = [m \in Messages |-> Absent] /\ copies = <<>>
  /\ mishaps = 0

PostType == [status : {"unsent", "there", "gone"}, content : Contents, files : 0..MaxFiles]

OpType ==
  {op \in [kind : {"create", "update", "delete"}, msg : Messages, reply : Messages \cup {Null},
            files : 0..Cap, gif : BOOLEAN, state : State] : op.reply = Parent[op.msg]}

MessageRow ==
  [status : {"absent", "pending", "active"}, id : Nat, state : State \cup {Null},
   channel : {Channel, Null}]

CopyType ==
  [msg : Messages, content : Content, gif : BOOLEAN, files : 0..Cap, reply : Nat,
   quotes : BOOLEAN, edits : Nat, live : BOOLEAN]

There(m) == posted[m].status = "there"

-----------------------------------------------------------------------------
(* BuildMessageOp.  Empty content is a partial payload, but for a message   *)
(* that comes with attachments.                                             *)
Skipped(e) == e.content = Blank /\ ~(e.kind = "create" /\ e.files > 0)

Kept(n) == IF n > Cap THEN Cap ELSE n

(* Mutant: from every message.                                              *)
StrippedAlways(e) == e.content.link /\ Kept(e.files) < Cap

(* The link of a GIF is taken from a new message, if it finds room.         *)
Stripped(e) == e.kind = "create" /\ e.content.link /\ Kept(e.files) < Cap

(* Mutant: a parent whose copy is not there yet is forgotten.               *)
ReplyToMirrored(e) ==
  IF Parent[e.msg] # Null /\ HasStoatEntity(rows[Parent[e.msg]]) THEN Parent[e.msg] ELSE Null

(* Discord's id: what it stands for on Stoat is looked up when it is sent.  *)
ReplyTo(e) == Parent[e.msg]

Op(e) ==
  [kind |-> e.kind, msg |-> e.msg, reply |-> ReplyTo(e), files |-> Kept(e.files),
   gif |-> Stripped(e),
   state |-> [content |-> IF Stripped(e) THEN [e.content EXCEPT !.link = FALSE] ELSE e.content,
              author  |-> e.author]]

(* The handlers' goroutines run in the order of their events, or do not.    *)
Submit(op) ==
  \E i \in 0..Len(queue) :
    /\ Racing \/ i = Len(queue)
    /\ queue' = SubSeq(queue, 1, i) \o <<op>> \o SubSeq(queue, i + 1, Len(queue))

-----------------------------------------------------------------------------
(* Discord.  An event carries the message as it then is; an update may come *)
(* without the member, and what is not about the content without that.      *)
Event(kind, m, content, author) ==
  [kind |-> kind, msg |-> m, content |-> content, files |-> posted'[m].files, author |-> author]

Emit(e) == IF Skipped(e) THEN UNCHANGED queue ELSE Submit(Op(e))

Post(m) ==
  /\ posted[m].status = "unsent"
  /\ Parent[m] # Null => posted[Parent[m]].status # "unsent"
  /\ \E content \in Contents, n \in 0..MaxFiles :
       /\ posted' = [posted EXCEPT ![m] = [status |-> "there", content |-> content, files |-> n]]
       /\ Emit(Event("create", m, content, "member"))
  /\ UNCHANGED <<changes, updates, worker, rows, copies, mishaps>>

(* A user may remove the text of a message that has attachments.            *)
Edit(m) ==
  /\ There(m) /\ updates < MaxUpdates /\ updates' = updates + 1
  /\ \E content \in Contents \ {posted[m].content}, author \in {"member", "user"} :
       /\ content # Blank \/ posted[m].files > 0
       /\ posted' = [posted EXCEPT ![m].content = content] /\ Emit(Event("update", m, content, author))
  /\ changes' = [changes EXCEPT ![m] = @ + 1]
  /\ UNCHANGED <<worker, rows, copies, mishaps>>

(* Discord adds the preview of a link.                                      *)
Unfurl(m) ==
  /\ There(m) /\ updates < MaxUpdates /\ updates' = updates + 1 /\ UNCHANGED posted
  /\ \E content \in {Blank, posted[m].content}, author \in {"member", "user"} :
       Emit(Event("update", m, content, author))
  /\ UNCHANGED <<changes, worker, rows, copies, mishaps>>

Erase(m) ==
  /\ There(m) /\ posted' = [posted EXCEPT ![m].status = "gone"]
  /\ Submit(Op(Event("delete", m, Blank, "user")))
  /\ UNCHANGED <<changes, updates, worker, rows, copies, mishaps>>

-----------------------------------------------------------------------------
(* The worker.  Mutant: Diff compares everything that is stored.            *)
SameState(stored, op) == stored = op.state

(* Diff compares the content alone.                                         *)
Same(stored, op) == stored.content = op.state.content

At(label) == worker.pc = label

Take == queue # <<>> /\ At("idle") /\ queue' = Tail(queue)

Unchanged(op) == Found(rows[op.msg]) /\ Same(rows[op.msg].state, op)

Skip ==
  /\ Take /\ Head(queue).kind # "delete" /\ Unchanged(Head(queue))
  /\ UNCHANGED <<discord, worker, rows, copies, mishaps>>

WritePending ==
  LET op == Head(queue) IN
  /\ Take /\ op.kind # "delete" /\ ~Unchanged(op)
  /\ rows' = [rows EXCEPT ![op.msg] = PendingMessageRow(@, op.state, Channel)]
  /\ worker' = [Idle EXCEPT !.pc = "apply", !.op = op]
  /\ UNCHANGED <<discord, copies, mishaps>>

BeginDelete ==
  /\ Take /\ Head(queue).kind = "delete"
  /\ worker' = [Idle EXCEPT !.pc = "apply", !.op = Head(queue)]
  /\ UNCHANGED <<discord, rows, copies, mishaps>>

(* Create or edit is decided now, whatever the event was.                   *)
Applies(verb) ==
  /\ At("apply")
  /\ verb = IF worker.op.kind = "delete" THEN "delete"
            ELSE IF HasStoatEntity(rows[worker.op.msg]) THEN "edit" ELSE "create"

Row == rows[worker.op.msg]

Edited(copy, content) ==
  [copy EXCEPT !.content = content, !.quotes = FALSE, !.edits = copy.edits + 1]

EditMessage ==
  /\ Applies("edit") /\ worker' = [worker EXCEPT !.pc = "confirm", !.id = Row.id]
  /\ copies' = [copies EXCEPT ![Row.id] = Edited(copies[Row.id], worker.op.state.content)]
  /\ UNCHANGED <<discord, queue, rows, mishaps>>

(* The parent's copy, if there is one, ...                                  *)
Linked(op) == IF op.reply = Null THEN NoId ELSE rows[op.reply].id

(* ... or else a quote of it, if Discord has it and it says something.      *)
Quotable(op) ==
  op.reply # Null /\ Linked(op) = NoId /\ There(op.reply) /\ posted[op.reply].content # Blank

Sent(op, quoted) ==
  copies' = Append(copies, [msg |-> op.msg, content |-> op.state.content, gif |-> op.gif,
                            files |-> op.files, reply |-> Linked(op), quotes |-> quoted,
                            edits |-> 0, live |-> TRUE])

(* The attachments are uploaded on the way.                                 *)
SendMessage ==
  /\ Applies("create") /\ Sent(worker.op, Quotable(worker.op))
  /\ worker' = [worker EXCEPT !.pc = "confirm", !.id = Len(copies) + 1]
  /\ UNCHANGED <<discord, queue, rows, mishaps>>

DeleteMessage ==
  /\ Applies("delete") /\ worker' = [worker EXCEPT !.pc = "remove"]
  /\ copies' = IF Active(Row) THEN [copies EXCEPT ![Row.id].live = FALSE] ELSE copies
  /\ UNCHANGED <<discord, queue, rows, mishaps>>

Confirm ==
  /\ At("confirm") /\ worker' = Idle
  /\ rows' = [rows EXCEPT ![worker.op.msg] = ConfirmedRow(@, worker.id)]
  /\ UNCHANGED <<discord, queue, copies, mishaps>>

Remove ==
  /\ At("remove") /\ worker' = Idle
  /\ rows' = [rows EXCEPT ![worker.op.msg] = Absent]
  /\ UNCHANGED <<discord, queue, copies, mishaps>>

Mishap == mishaps < MaxMishaps /\ mishaps' = mishaps + 1

(* An upload, a request or a write to the store fails, or a message that    *)
(* was sent is not acknowledged.                                            *)
Fails ==
  /\ ~At("idle") /\ worker' = Idle /\ Mishap
  /\ UNCHANGED copies \/ (Applies("create") /\ Sent(worker.op, FALSE))
  /\ UNCHANGED <<discord, queue, rows>>

(* What is queued is lost.                                                  *)
Restart ==
  /\ Mishap /\ queue' = <<>> /\ worker' = Idle
  /\ UNCHANGED <<discord, rows, copies>>

Next ==
  \/ \E m \in Messages : Post(m) \/ Edit(m) \/ Unfurl(m) \/ Erase(m)
  \/ Skip \/ WritePending \/ BeginDelete \/ EditMessage \/ SendMessage
  \/ DeleteMessage \/ Confirm \/ Remove \/ Fails \/ Restart

Spec == Init /\ [][Next]_vars
-----------------------------------------------------------------------------
TypeOK ==
  /\ posted \in [Messages -> PostType]
  /\ changes \in [Messages -> Nat] /\ updates \in 0..MaxUpdates /\ mishaps \in 0..MaxMishaps
  /\ queue \in Seq(OpType)
  /\ worker \in [pc : {"idle", "apply", "confirm", "remove"}, op : OpType \cup {Null}, id : Nat]
  /\ rows \in [Messages -> MessageRow]
  /\ copies \in Seq(CopyType)

Quiet   == queue = <<>> /\ At("idle")
Perfect == mishaps = 0

CopyOf(m) == copies[rows[m].id]

(* Once everything is done and nothing has failed, each message is shown    *)
(* with its text, and with its GIF as an attachment or a link: never        *)
(* neither, whichever edit put the link there (BuildMessageOp strips it     *)
(* from new messages only) and however many attachments crowd it out.       *)
ShownInFull ==
  Quiet /\ Perfect =>
    \A m \in Messages :
      There(m) /\ posted[m].content # Blank =>
        /\ HasStoatEntity(rows[m]) /\ CopyOf(m).live
        /\ CopyOf(m).content.text = posted[m].content.text
        /\ posted[m].content.link => CopyOf(m).content.link \/ CopyOf(m).gif

(* A reply that is sent after its parent was mirrored links to the parent's *)
(* copy, and never to another message, however long the events of the two   *)
(* were queued and whatever failed between them.                            *)
RepliesLinked ==
  \A i \in DOMAIN copies :
    LET parent == Parent[copies[i].msg]
    IN /\ copies[i].reply # NoId => copies[copies[i].reply].msg = parent
       /\ parent # Null /\ rows[parent].id \in 1..i => copies[i].reply = rows[parent].id

(* Previews cost Stoat nothing: a copy is edited as often as its message at *)
(* most, whatever an update's payload lacks.  (That of a GIF once more, as  *)
(* its link is not in the content that was stored.)                         *)
PreviewsEditNothing ==
  \A i \in DOMAIN copies :
    LET free == IF copies[i].gif THEN 1 ELSE 0
    IN copies[i].edits <= changes[copies[i].msg] + free

(* "This cannot drop a legitimate edit" (BuildMessageOp's comment): every   *)
(* text a user gives a message, and be it none, arrives on Stoat.           *)
NoEditDropped ==
  Quiet /\ Perfect =>
    \A m \in Messages :
      There(m) /\ HasStoatEntity(rows[m]) => CopyOf(m).content.text = posted[m].content.text
=============================================================================
