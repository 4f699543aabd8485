--------------------------- MODULE MessagesProofs ---------------------------
(***************************************************************************)
(* For any number of messages, edits, failures and restarts: replies find  *)
(* their parents' copies, even if handlers overtake each other; if they do *)
(* not, a copy is edited as often as its message at most, and shows what   *)
(* the message says once all is done.                                      *)
(***************************************************************************)
EXTENDS Messages, SequenceTheorems, TLAPS

HasOp == worker.pc # "idle" => worker.op \in OpType

(* An id in a row is of a copy of the row's message; one to be confirmed is *)
(* that of the row or of the last copy; and replies are to copies.          *)
RowsNameCopies ==
  /\ \A m \in Messages :
       rows[m].id # NoId => rows[m].id \in 1..Len(copies) /\ copies[rows[m].id].msg = m
  /\ worker.pc = "confirm" =>
       /\ worker.id \in 1..Len(copies) /\ copies[worker.id].msg = worker.op.msg
       /\ worker.id \in {rows[worker.op.msg].id, Len(copies)}
  /\ \A i \in 1..Len(copies) : copies[i].reply \in 0..Len(copies)

IInv == TypeOK /\ HasOp /\ RowsNameCopies /\ RepliesLinked

(* Op drops what Stoat does not take, and keeps what the message replies to. *)
LEMMA OpTyped ==
  ASSUME NEW kind \in {"create", "update", "delete"}, NEW m \in Messages, NEW content \in Contents,
         NEW author \in {"member", "user"}, posted'[m].files \in 0..MaxFiles
  PROVE  Op(Event(kind, m, content, author)) \in OpType
<1> DEFINE e == Event(kind, m, content, author)
<1>1. /\ e.kind = kind /\ e.msg = m /\ e.content = content /\ e.author = author
      /\ e.files \in 0..MaxFiles
  BY DEF Event
<1>2. Kept(e.files) \in 0..Cap
  BY <1>1, MessagesAssumption DEF Kept
<1>3. Stripped(e) \in BOOLEAN
  BY DEF Stripped
<1>4. content \in Content /\ [content EXCEPT !.link = FALSE] \in Content
  BY MessagesAssumption DEF Content
<1>5. Op(e).state \in State
  BY <1>1, <1>4 DEF Op, State
<1>6. ReplyTo(e) \in Messages \cup {Null} /\ ReplyTo(e) = Parent[m]
  BY <1>1, MessagesAssumption DEF ReplyTo
<1>7. /\ Op(e).kind = kind /\ Op(e).msg = m /\ Op(e).reply = ReplyTo(e)
      /\ Op(e).files = Kept(e.files) /\ Op(e).gif = Stripped(e)
  BY <1>1 DEF Op
<1>8. Op(e) = [kind |-> Op(e).kind, msg |-> Op(e).msg, reply |-> Op(e).reply,
               files |-> Op(e).files, gif |-> Op(e).gif, state |-> Op(e).state]
  BY DEF Op
<1> QED BY <1>2, <1>3, <1>5, <1>6, <1>7, <1>8 DEF OpType

LEMMA SubmitTyped ==
  ASSUME queue \in Seq(OpType), NEW op \in OpType, Submit(op)
  PROVE  queue' \in Seq(OpType)
<1>1. PICK i \in 0..Len(queue) :
        queue' = SubSeq(queue, 1, i) \o <<op>> \o SubSeq(queue, i + 1, Len(queue))
  BY DEF Submit
<1>2. Len(queue) \in Nat
  OBVIOUS
<1>3. SubSeq(queue, 1, i) \in Seq(OpType)
  BY <1>2, SubSeqProperties
<1>4. SubSeq(queue, i + 1, Len(queue)) \in Seq(OpType)
  BY <1>2, SubSeqProperties
<1> QED BY <1>1, <1>3, <1>4, ConcatProperties

LEMMA InitIInv == ASSUME Init PROVE IInv
<1> USE MessagesAssumption
<1>1. TypeOK         BY DEF Init, TypeOK, PostType, MessageRow, Unsent, Idle, Absent, NoId
<1>2. HasOp /\ RowsNameCopies /\ RepliesLinked
  BY DEF Init, HasOp, RowsNameCopies, RepliesLinked, Idle, Absent
<1> QED BY <1>1, <1>2 DEF IInv

(* Discord's events touch the queue only.                                   *)
LEMMA EmitStep ==
  ASSUME IInv, UNCHANGED <<worker, rows, copies, mishaps>>, queue' \in Seq(OpType),
         posted' \in [Messages -> PostType],
         changes' \in [Messages -> Nat], updates' \in 0..MaxUpdates
  PROVE  IInv'
BY DEF IInv, TypeOK, HasOp, RowsNameCopies, RepliesLinked

LEMMA PostStep == ASSUME IInv, NEW m \in Messages, Post(m) PROVE IInv'
<1> USE MessagesAssumption
<1>1. PICK content \in Contents, n \in 0..MaxFiles :
        /\ posted' = [posted EXCEPT ![m] = [status |-> "there", content |-> content, files |-> n]]
        /\ Emit(Event("create", m, content, "member"))
  BY DEF Post
<1>2. /\ posted' \in [Messages -> PostType]
      /\ posted'[m].files \in 0..MaxFiles
  BY <1>1 DEF IInv, TypeOK, PostType
<1>3. Op(Event("create", m, content, "member")) \in OpType
  BY <1>2, OpTyped
<1>4. queue' \in Seq(OpType)
  BY <1>1, <1>3, SubmitTyped DEF Emit, IInv, TypeOK
<1> QED BY <1>2, <1>4, EmitStep DEF Post, IInv, TypeOK

LEMMA EditStep == ASSUME IInv, NEW m \in Messages, Edit(m) PROVE IInv'
<1> USE MessagesAssumption
<1>1. PICK content \in Contents, author \in {"member", "user"} :
        /\ posted' = [posted EXCEPT ![m].content = content]
        /\ Emit(Event("update", m, content, author))
  BY DEF Edit
<1>2. /\ posted' \in [Messages -> PostType]
      /\ posted'[m].files \in 0..MaxFiles
  <2>1. posted[m] \in PostType /\ [posted[m] EXCEPT !.content = content] \in PostType
    BY DEF IInv, TypeOK, PostType
  <2>2. posted' = [posted EXCEPT ![m] = [posted[m] EXCEPT !.content = content]]
    BY <1>1
  <2>3. posted'[m] \in PostType
    BY <2>1, <2>2 DEF IInv, TypeOK
  <2> QED BY <2>1, <2>2, <2>3 DEF IInv, TypeOK, PostType
<1>3. Op(Event("update", m, content, author)) \in OpType
  BY <1>2, OpTyped
<1>4. queue' \in Seq(OpType)
  BY <1>1, <1>3, SubmitTyped DEF Emit, IInv, TypeOK
<1>5. changes' \in [Messages -> Nat] /\ updates' \in 0..MaxUpdates
  <2>1. changes' \in [Messages -> Nat]
    BY DEF Edit, IInv, TypeOK
  <2>2. updates' \in 0..MaxUpdates
    BY DEF Edit, IInv, TypeOK
  <2> QED BY <2>1, <2>2
<1> QED BY <1>2, <1>4, <1>5, EmitStep DEF Edit

LEMMA UnfurlStep == ASSUME IInv, NEW m \in Messages, Unfurl(m) PROVE IInv'
<1> USE MessagesAssumption
<1>1. PICK content \in {Blank, posted[m].content}, author \in {"member", "user"} :
        Emit(Event("update", m, content, author))
  BY DEF Unfurl
<1>2. /\ posted' = posted /\ posted'[m].files \in 0..MaxFiles /\ content \in Contents
      /\ updates' \in 0..MaxUpdates
  BY DEF Unfurl, IInv, TypeOK, PostType
<1>3. Op(Event("update", m, content, author)) \in OpType
  BY <1>2, OpTyped
<1>4. queue' \in Seq(OpType)
  BY <1>1, <1>3, SubmitTyped DEF Emit, IInv, TypeOK
<1> QED BY <1>2, <1>4, EmitStep DEF Unfurl, IInv, TypeOK

LEMMA EraseStep == ASSUME IInv, NEW m \in Messages, Erase(m) PROVE IInv'
<1> USE MessagesAssumption
<1>1. /\ posted' \in [Messages -> PostType]
      /\ posted'[m].files \in 0..MaxFiles
  <2>1. posted[m] \in PostType /\ [posted[m] EXCEPT !.status = "gone"] \in PostType
    BY DEF IInv, TypeOK, PostType
  <2>2. posted' = [posted EXCEPT ![m] = [posted[m] EXCEPT !.status = "gone"]]
    BY DEF Erase
  <2>3. posted'[m] \in PostType
    BY <2>1, <2>2 DEF IInv, TypeOK
  <2> QED BY <2>1, <2>2, <2>3 DEF IInv, TypeOK, PostType
<1>2. Op(Event("delete", m, Blank, "user")) \in OpType
  BY <1>1, OpTyped
<1>3. queue' \in Seq(OpType)
  BY <1>2, SubmitTyped DEF Erase, IInv, TypeOK
<1> QED BY <1>1, <1>3, EmitStep DEF Erase, IInv, TypeOK

LEMMA TakeTyped ==
  ASSUME IInv, Take
  PROVE  queue' \in Seq(OpType) /\ Head(queue) \in OpType
BY HeadTailProperties DEF Take, IInv, TypeOK

LEMMA CopyTyped ==
  ASSUME TypeOK, NEW i \in DOMAIN copies
  PROVE  copies[i] \in CopyType
BY ElementOfSeq DEF TypeOK

LEMMA EditedTyped ==
  ASSUME NEW copy \in CopyType, NEW content \in Content
  PROVE  /\ Edited(copy, content) \in CopyType
         /\ Edited(copy, content).msg = copy.msg /\ Edited(copy, content).reply = copy.reply
<1> DEFINE edits == copy.edits + 1
<1>1. edits \in Nat
  BY DEF CopyType
<1>2. Edited(copy, content) = [copy EXCEPT !.content = content, !.quotes = FALSE, !.edits = edits]
  BY DEF Edited
<1> HIDE DEF edits
<1> QED BY <1>1, <1>2 DEF CopyType

LEMMA ParentTyped ==
  ASSUME TypeOK, NEW i \in DOMAIN copies
  PROVE  copies[i].msg \in Messages /\ Parent[copies[i].msg] \in Messages \cup {Null}
<1>1. copies[i] \in CopyType
  BY CopyTyped
<1> QED BY <1>1, MessagesAssumption DEF CopyType

LEMMA SkipStep == ASSUME IInv, Skip PROVE IInv'
<1>1. queue' \in Seq(OpType)
  BY TakeTyped DEF Skip
<1>2. UNCHANGED <<posted, changes, updates, worker, rows, copies, mishaps>>
  BY DEF Skip, discord
<1> QED BY <1>1, <1>2 DEF IInv, TypeOK, HasOp, RowsNameCopies, RepliesLinked

LEMMA WritePendingStep == ASSUME IInv, WritePending PROVE IInv'
<1> DEFINE op == Head(queue)
<1>1. queue' \in Seq(OpType) /\ op \in OpType /\ op.msg \in Messages /\ op.state \in State
  BY TakeTyped DEF WritePending, OpType
<1>2. /\ rows' = [rows EXCEPT ![op.msg] = PendingMessageRow(rows[op.msg], op.state, Channel)]
      /\ worker' = [Idle EXCEPT !.pc = "apply", !.op = op]
      /\ UNCHANGED <<posted, changes, updates, copies, mishaps>>
  BY DEF WritePending, discord
<1>3. /\ rows' \in [Messages -> MessageRow]
      /\ \A m \in Messages : rows'[m].id = rows[m].id
  BY <1>1, <1>2 DEF IInv, TypeOK, MessageRow, PendingMessageRow
<1>4. /\ worker' \in [pc : {"idle", "apply", "confirm", "remove"}, op : OpType \cup {Null}, id : Nat]
      /\ worker'.pc = "apply" /\ worker'.op = op
  BY <1>1, <1>2 DEF Idle, NoId
<1>5. TypeOK'               BY <1>1, <1>2, <1>3, <1>4 DEF IInv, TypeOK
<1>6. HasOp'                BY <1>1, <1>4 DEF HasOp
<1>7. RowsNameCopies'       BY <1>2, <1>3, <1>4 DEF IInv, RowsNameCopies
<1>8. RepliesLinked'
  BY <1>2, <1>3, ParentTyped DEF IInv, RepliesLinked
<1> QED BY <1>5, <1>6, <1>7, <1>8 DEF IInv

LEMMA BeginDeleteStep == ASSUME IInv, BeginDelete PROVE IInv'
<1>1. queue' \in Seq(OpType) /\ Head(queue) \in OpType
  BY TakeTyped DEF BeginDelete
<1>2. /\ worker' = [Idle EXCEPT !.pc = "apply", !.op = Head(queue)]
      /\ UNCHANGED <<posted, changes, updates, rows, copies, mishaps>>
  BY DEF BeginDelete, discord
<1>3. /\ worker' \in [pc : {"idle", "apply", "confirm", "remove"}, op : OpType \cup {Null}, id : Nat]
      /\ worker'.pc = "apply" /\ worker'.op = Head(queue)
  BY <1>1, <1>2 DEF Idle, NoId
<1> QED BY <1>1, <1>2, <1>3 DEF IInv, TypeOK, HasOp, RowsNameCopies, RepliesLinked

(* The copies a write to Stoat leaves: those there were, changed in what no *)
(* id depends on.                                                           *)
LEMMA CopiesStep ==
  ASSUME IInv, copies' \in Seq(CopyType), Len(copies') = Len(copies),
         \A i \in DOMAIN copies : copies'[i].msg = copies[i].msg /\ copies'[i].reply = copies[i].reply,
         UNCHANGED <<posted, changes, updates, queue, rows, mishaps>>,
         worker' \in [pc : {"idle", "apply", "confirm", "remove"}, op : OpType \cup {Null}, id : Nat],
         HasOp',
         worker'.pc = "confirm" =>
           worker'.id # NoId /\ worker'.id = rows[worker'.op.msg].id /\ worker'.op.msg \in Messages
  PROVE  IInv'
<1>1. Len(copies) \in Nat /\ DOMAIN copies = 1..Len(copies) /\ DOMAIN copies' = DOMAIN copies
  BY DEF IInv, TypeOK
<1>2. TypeOK'           BY DEF IInv, TypeOK
<1>3. RowsNameCopies'   BY <1>1 DEF IInv, RowsNameCopies
<1>4. RepliesLinked'
  <2>1. ASSUME NEW i \in DOMAIN copies
        PROVE  /\ copies[i].reply # NoId => copies[i].reply \in DOMAIN copies
               /\ copies'[i].msg = copies[i].msg /\ copies'[i].reply = copies[i].reply
    BY <1>1 DEF IInv, RowsNameCopies, NoId
  <2> QED BY <2>1, <1>1 DEF IInv, RepliesLinked
<1> QED BY <1>2, <1>3, <1>4 DEF IInv

LEMMA EditMessageStep == ASSUME IInv, EditMessage PROVE IInv'
<1> DEFINE id   == Row.id
           copy == Edited(copies[id], worker.op.state.content)
<1>1. /\ worker.pc = "apply" /\ worker.op \in OpType /\ worker.op.msg \in Messages
      /\ worker.op.state.content \in Content
  BY DEF EditMessage, Applies, At, IInv, HasOp, OpType, State
<1>2. Row.id # NoId
  BY DEF EditMessage, Applies, HasStoatEntity, Row
<1>3. id \in DOMAIN copies
  BY <1>1, <1>2 DEF IInv, TypeOK, RowsNameCopies, Row
<1>4. copies[id] \in CopyType
  BY <1>3, CopyTyped DEF IInv
<1>5. copy \in CopyType /\ copy.msg = copies[id].msg /\ copy.reply = copies[id].reply
  BY <1>1, <1>4, EditedTyped
<1>6. copies' = [copies EXCEPT ![id] = copy]
  BY DEF EditMessage
<1>7. copies' \in Seq(CopyType) /\ Len(copies') = Len(copies)
  BY <1>3, <1>5, <1>6 DEF IInv, TypeOK
<1>8. \A i \in DOMAIN copies : copies'[i].msg = copies[i].msg /\ copies'[i].reply = copies[i].reply
  BY <1>5, <1>6 DEF IInv, TypeOK
<1>9. /\ worker' = [worker EXCEPT !.pc = "confirm", !.id = id] /\ id \in Nat
      /\ UNCHANGED <<posted, changes, updates, queue, rows, mishaps>>
  BY <1>1 DEF EditMessage, discord, IInv, TypeOK, MessageRow, Row
<1>10. /\ worker' \in [pc : {"idle", "apply", "confirm", "remove"}, op : OpType \cup {Null}, id : Nat]
       /\ worker'.op = worker.op /\ worker'.id = rows[worker.op.msg].id
  BY <1>9 DEF IInv, TypeOK, Row
<1>11. HasOp'
  BY <1>1, <1>10 DEF HasOp
<1> QED BY <1>1, <1>2, <1>7, <1>8, <1>9, <1>10, <1>11, CopiesStep DEF Row

LEMMA DeleteMessageStep == ASSUME IInv, DeleteMessage PROVE IInv'
<1>1. /\ worker.pc = "apply" /\ worker.op \in OpType /\ worker.op.msg \in Messages
  BY DEF DeleteMessage, Applies, At, IInv, HasOp, OpType
<1>2. /\ worker' = [worker EXCEPT !.pc = "remove"]
      /\ UNCHANGED <<posted, changes, updates, queue, rows, mishaps>>
  BY DEF DeleteMessage, discord
<1>3. /\ worker' \in [pc : {"idle", "apply", "confirm", "remove"}, op : OpType \cup {Null}, id : Nat]
      /\ worker'.pc = "remove" /\ HasOp'
  BY <1>1, <1>2 DEF IInv, TypeOK, HasOp
<1>4. /\ copies' \in Seq(CopyType) /\ Len(copies') = Len(copies)
      /\ \A i \in DOMAIN copies : copies'[i].msg = copies[i].msg /\ copies'[i].reply = copies[i].reply
  <2>1. CASE copies' = copies
    BY <2>1 DEF IInv, TypeOK
  <2>2. CASE copies' = [copies EXCEPT ![Row.id].live = FALSE] /\ Row.id \in DOMAIN copies
    <3> DEFINE id   == Row.id
               copy == [copies[id] EXCEPT !.live = FALSE]
    <3>1. copies[id] \in CopyType
      BY <2>2, CopyTyped DEF IInv
    <3>2. copy \in CopyType /\ copy.msg = copies[id].msg /\ copy.reply = copies[id].reply
      BY <3>1 DEF CopyType
    <3>3. copies' = [copies EXCEPT ![id] = copy] /\ id \in DOMAIN copies
      BY <2>2
    <3>4. copies' \in Seq(CopyType) /\ Len(copies') = Len(copies)
      BY <3>2, <3>3 DEF IInv, TypeOK
    <3> QED BY <3>2, <3>3, <3>4 DEF IInv, TypeOK
  <2>3. CASE copies' = [copies EXCEPT ![Row.id].live = FALSE] /\ Row.id \notin DOMAIN copies
    <3>1. copies' = copies
      BY <2>3 DEF IInv, TypeOK
    <3> QED BY <2>1, <3>1
  <2> QED BY <2>1, <2>2, <2>3 DEF DeleteMessage
<1> QED BY <1>2, <1>3, <1>4, CopiesStep

(* A new copy links to the copy that its parent's row names, if any.        *)
LEMMA SentStep ==
  ASSUME IInv, worker.op \in OpType, NEW quoted \in BOOLEAN, Sent(worker.op, quoted)
  PROVE  /\ copies' \in Seq(CopyType) /\ Len(copies') = Len(copies) + 1
         /\ \A i \in DOMAIN copies : copies'[i] = copies[i]
         /\ copies'[Len(copies) + 1].msg = worker.op.msg
         /\ \A i \in DOMAIN copies' : copies'[i].reply \in 0..Len(copies')
         /\ UNCHANGED rows => RepliesLinked'
<1> DEFINE op   == worker.op
           copy == [msg |-> op.msg, content |-> op.state.content, gif |-> op.gif,
                    files |-> op.files, reply |-> Linked(op), quotes |-> quoted,
                    edits |-> 0, live |-> TRUE]
<1>1. /\ op.msg \in Messages /\ op.reply = Parent[op.msg] /\ op.reply \in Messages \cup {Null}
      /\ op.state.content \in Content /\ op.gif \in BOOLEAN /\ op.files \in 0..Cap
  BY DEF OpType, State
<1>2. Linked(op) \in Nat
  BY <1>1 DEF Linked, NoId, IInv, TypeOK, MessageRow
<1>3. copy \in CopyType
  BY <1>1, <1>2 DEF CopyType
<1>4. copies' = Append(copies, copy) /\ copies \in Seq(CopyType) /\ Len(copies) \in Nat
  BY DEF Sent, IInv, TypeOK
<1>5. /\ copies' \in Seq(CopyType) /\ Len(copies') = Len(copies) + 1
      /\ \A i \in DOMAIN copies : copies'[i] = copies[i]
      /\ copies'[Len(copies) + 1] = copy
  BY <1>3, <1>4
<1>6. ASSUME rows' = rows, NEW i \in DOMAIN copies'
      PROVE  LET parent == Parent[copies'[i].msg]
             IN /\ copies'[i].reply # NoId => copies'[copies'[i].reply].msg = parent
                /\ parent # Null /\ rows[parent].id \in 1..i => copies'[i].reply = rows[parent].id
  <2>1. CASE i \in DOMAIN copies
    <3>1. copies'[i] = copies[i]
      BY <2>1, <1>5
    <3>2. copies[i].reply # NoId => copies[i].reply \in DOMAIN copies
      BY <2>1, <1>4 DEF IInv, RowsNameCopies, NoId
    <3> QED BY <2>1, <3>1, <3>2, <1>5 DEF IInv, RepliesLinked
  <2>2. CASE i = Len(copies) + 1
    <3>1. copies'[i] = copy /\ Parent[copies'[i].msg] = op.reply /\ copies'[i].reply = Linked(op)
      BY <2>2, <1>1, <1>5
    <3>2. Linked(op) # NoId => /\ op.reply \in Messages /\ Linked(op) = rows[op.reply].id
                               /\ Linked(op) \in DOMAIN copies /\ copies[Linked(op)].msg = op.reply
      <4>1. Linked(op) # NoId => op.reply \in Messages /\ Linked(op) = rows[op.reply].id
        BY <1>1 DEF Linked
      <4>2. DOMAIN copies = 1..Len(copies)
        BY <1>4
      <4> QED BY <4>1, <4>2 DEF IInv, RowsNameCopies
    <3>3. Linked(op) # NoId => copies'[Linked(op)].msg = op.reply
      BY <3>2, <1>5
    <3>4. op.reply # Null => Linked(op) = rows[op.reply].id
      BY DEF Linked
    <3>5. op.reply # Null /\ rows[op.reply].id \in 1..i => Linked(op) = rows[op.reply].id
      BY <3>4
    <3>6. copies'[i].reply = Linked(op) /\ (Linked(op) # NoId => copies'[Linked(op)].msg = op.reply)
      BY <3>1, <3>3
    <3> HIDE DEF copy
    <3> QED BY <3>1, <3>5, <3>6
  <2>3. i \in DOMAIN copies \/ i = Len(copies) + 1
    BY <1>4, <1>5
  <2> QED BY <2>1, <2>2, <2>3
<1>7. \A i \in DOMAIN copies' : copies'[i].reply \in 0..Len(copies')
  <2>1. Linked(op) \in 0..Len(copies)
    BY <1>1, <1>4 DEF Linked, NoId, IInv, TypeOK, MessageRow, RowsNameCopies
  <2>2. \A i \in 1..Len(copies) : copies[i].reply \in 0..Len(copies)
    BY DEF IInv, RowsNameCopies
  <2> QED BY <2>1, <2>2, <1>4, <1>5
<1> QED BY <1>5, <1>6, <1>7 DEF RepliesLinked

LEMMA SendMessageStep == ASSUME IInv, SendMessage PROVE IInv'
<1>1. /\ worker.pc = "apply" /\ worker.op \in OpType /\ worker.op.msg \in Messages
  BY DEF SendMessage, Applies, At, IInv, HasOp, OpType
<1>2. Quotable(worker.op) \in BOOLEAN
  BY DEF Quotable
<1>3. /\ copies' \in Seq(CopyType) /\ Len(copies') = Len(copies) + 1
      /\ \A i \in DOMAIN copies : copies'[i] = copies[i]
      /\ copies'[Len(copies) + 1].msg = worker.op.msg
      /\ \A i \in DOMAIN copies' : copies'[i].reply \in 0..Len(copies')
      /\ RepliesLinked'
  BY <1>1, <1>2, SentStep DEF SendMessage
<1>4. /\ Len(copies) \in Nat /\ DOMAIN copies = 1..Len(copies)
      /\ DOMAIN copies' = 1..Len(copies')
  BY <1>3 DEF IInv, TypeOK
<1>5. /\ worker' = [worker EXCEPT !.pc = "confirm", !.id = Len(copies) + 1]
      /\ UNCHANGED <<posted, changes, updates, queue, rows, mishaps>>
  BY DEF SendMessage, discord
<1>6. /\ worker' \in [pc : {"idle", "apply", "confirm", "remove"}, op : OpType \cup {Null}, id : Nat]
      /\ worker'.op = worker.op /\ worker'.id = Len(copies) + 1
  <2> DEFINE id == Len(copies) + 1
  <2>1. id \in Nat
    BY <1>4
  <2>2. worker \in [pc : {"idle", "apply", "confirm", "remove"}, op : OpType \cup {Null}, id : Nat]
    BY DEF IInv, TypeOK
  <2>3. worker' = [worker EXCEPT !.pc = "confirm", !.id = id]
    BY <1>5
  <2> HIDE DEF id
  <2>4. /\ worker' \in [pc : {"idle", "apply", "confirm", "remove"}, op : OpType \cup {Null}, id : Nat]
        /\ worker'.op = worker.op /\ worker'.id = id
    BY <2>1, <2>2, <2>3
  <2> QED BY <2>4 DEF id
<1>7. TypeOK'             BY <1>3, <1>5, <1>6 DEF IInv, TypeOK
<1>8. HasOp'              BY <1>1, <1>6 DEF HasOp
<1>9. RowsNameCopies'
  <2>1. ASSUME NEW m \in Messages, rows[m].id # NoId
        PROVE  rows[m].id \in 1..Len(copies') /\ copies'[rows[m].id].msg = m
    BY <2>1, <1>3, <1>4 DEF IInv, RowsNameCopies
  <2>2. /\ worker'.id \in 1..Len(copies') /\ worker'.id = Len(copies')
        /\ copies'[worker'.id].msg = worker'.op.msg
    BY <1>3, <1>4, <1>6
  <2> QED BY <2>1, <2>2, <1>3, <1>4, <1>5 DEF RowsNameCopies
<1> QED BY <1>3, <1>7, <1>8, <1>9 DEF IInv

(* The row names the copy that it named before, or the last.                *)
LEMMA ConfirmStep == ASSUME IInv, Confirm PROVE IInv'
<1> DEFINE p == worker.op.msg
<1>1. /\ worker.pc = "confirm" /\ worker.op \in OpType /\ p \in Messages
      /\ worker.id \in 1..Len(copies) /\ copies[worker.id].msg = p
      /\ worker.id \in {rows[p].id, Len(copies)}
  BY DEF Confirm, At, IInv, HasOp, RowsNameCopies, OpType
<1>2. /\ rows' = [rows EXCEPT ![p] = ConfirmedRow(rows[p], worker.id)] /\ worker' = Idle
      /\ UNCHANGED <<posted, changes, updates, queue, copies, mishaps>>
  BY DEF Confirm, discord
<1>3. /\ rows' \in [Messages -> MessageRow] /\ rows'[p].id \in {rows[p].id, worker.id}
      /\ \A m \in Messages \ {p} : rows'[m] = rows[m]
  <2>1. rows[p] \in MessageRow /\ worker.id \in Nat
    BY <1>1 DEF IInv, TypeOK
  <2>2. ConfirmedRow(rows[p], worker.id) \in MessageRow
    BY <2>1 DEF MessageRow, ConfirmedRow
  <2>3. ConfirmedRow(rows[p], worker.id).id \in {rows[p].id, worker.id}
    BY <2>1 DEF MessageRow, ConfirmedRow
  <2> QED BY <1>1, <1>2, <2>2, <2>3 DEF IInv, TypeOK
<1>4. TypeOK'
  BY <1>2, <1>3 DEF IInv, TypeOK, Idle, NoId
<1>5. HasOp' /\ RowsNameCopies'
  BY <1>1, <1>2, <1>3 DEF IInv, HasOp, RowsNameCopies, Idle
<1>6. RepliesLinked'
  <2>1. Len(copies) \in Nat /\ DOMAIN copies = 1..Len(copies)
    BY DEF IInv, TypeOK
  <2>2. ASSUME NEW i \in DOMAIN copies, Parent[copies[i].msg] # Null,
               rows'[Parent[copies[i].msg]].id \in 1..i
        PROVE  copies[i].reply = rows'[Parent[copies[i].msg]].id
    <3> DEFINE m      == copies[i].msg
               parent == Parent[m]
    <3>1. m \in Messages /\ parent \in Messages /\ parent # m
      BY <2>2, ParentTyped, MessagesAssumption DEF IInv
    <3>2. CASE parent # p
      <4>1. rows'[parent] = rows[parent]
        BY <3>1, <3>2, <1>3
      <4> QED BY <2>2, <4>1 DEF IInv, RepliesLinked
    <3>3. CASE parent = p /\ rows'[p].id = rows[p].id
      <4>1. rows'[parent].id = rows[parent].id
        BY <3>3, <1>3
      <4> QED BY <2>2, <4>1 DEF IInv, RepliesLinked
    <3>4. CASE parent = p /\ rows'[p].id = worker.id /\ worker.id = Len(copies)
      <4>1. i = Len(copies)
        BY <2>1, <2>2, <3>4, <1>3
      <4>2. m = p
        BY <4>1, <3>4, <1>1
      <4> QED BY <3>1, <3>4, <4>2
    <3> QED BY <3>2, <3>3, <3>4, <1>1, <1>3
  <2> QED BY <2>2, <1>2 DEF IInv, RepliesLinked
<1> QED BY <1>4, <1>5, <1>6 DEF IInv

LEMMA RemoveStep == ASSUME IInv, Remove PROVE IInv'
<1> DEFINE p == worker.op.msg
<1>1. worker.pc = "remove" /\ p \in Messages
  BY DEF Remove, At, IInv, HasOp, OpType
<1>2. /\ rows' = [rows EXCEPT ![p] = Absent] /\ worker' = Idle
      /\ UNCHANGED <<posted, changes, updates, queue, copies, mishaps>>
  BY DEF Remove, discord
<1>3. /\ rows' \in [Messages -> MessageRow] /\ rows'[p].id = NoId
      /\ \A m \in Messages \ {p} : rows'[m] = rows[m]
  BY <1>1, <1>2 DEF IInv, TypeOK, MessageRow, Absent, NoId
<1>4. TypeOK'
  BY <1>2, <1>3 DEF IInv, TypeOK, Idle, NoId
<1>5. HasOp' /\ RowsNameCopies'
  BY <1>1, <1>2, <1>3 DEF IInv, HasOp, RowsNameCopies, Idle
<1>6. RepliesLinked'
  <2>1. ASSUME NEW i \in DOMAIN copies, Parent[copies[i].msg] # Null,
               rows'[Parent[copies[i].msg]].id \in 1..i
        PROVE  copies[i].reply = rows'[Parent[copies[i].msg]].id
    <3>1. Parent[copies[i].msg] \in Messages
      BY <2>1, ParentTyped DEF IInv
    <3>2. rows'[Parent[copies[i].msg]] = rows[Parent[copies[i].msg]]
      BY <2>1, <3>1, <1>3 DEF NoId
    <3> QED BY <2>1, <3>2 DEF IInv, RepliesLinked
  <2> QED BY <2>1, <1>2 DEF IInv, RepliesLinked
<1> QED BY <1>4, <1>5, <1>6 DEF IInv

LEMMA FailsStep == ASSUME IInv, Fails PROVE IInv'
<1>1. /\ worker.pc # "idle" /\ worker.op \in OpType /\ worker.op.msg \in Messages
  BY DEF Fails, At, IInv, HasOp, OpType
<1>2. /\ worker' = Idle /\ mishaps' \in 0..MaxMishaps
      /\ UNCHANGED <<posted, changes, updates, queue, rows>>
  BY MessagesAssumption DEF Fails, Mishap, discord, IInv, TypeOK
<1>3. HasOp' /\ worker'.pc = "idle"
  BY <1>2 DEF HasOp, Idle
<1>4. CASE UNCHANGED copies
  BY <1>2, <1>3, <1>4 DEF IInv, TypeOK, RowsNameCopies, RepliesLinked, Idle, NoId
<1>5. CASE Sent(worker.op, FALSE)
  <2>1. /\ copies' \in Seq(CopyType) /\ Len(copies') = Len(copies) + 1
        /\ \A i \in DOMAIN copies : copies'[i] = copies[i]
        /\ \A i \in DOMAIN copies' : copies'[i].reply \in 0..Len(copies')
        /\ RepliesLinked'
    BY <1>1, <1>2, <1>5, SentStep
  <2>2. /\ Len(copies) \in Nat /\ DOMAIN copies = 1..Len(copies)
        /\ DOMAIN copies' = 1..Len(copies')
    BY <2>1 DEF IInv, TypeOK
  <2>3. TypeOK'           BY <2>1, <1>2 DEF IInv, TypeOK, Idle, NoId
  <2>4. RowsNameCopies'   BY <2>1, <2>2, <1>2, <1>3 DEF IInv, RowsNameCopies
  <2> QED BY <2>1, <2>3, <2>4, <1>3 DEF IInv
<1> QED BY <1>4, <1>5 DEF Fails

LEMMA RestartStep == ASSUME IInv, Restart PROVE IInv'
<1>1. /\ worker' = Idle /\ queue' = <<>> /\ mishaps' \in 0..MaxMishaps
      /\ UNCHANGED <<posted, changes, updates, rows, copies>>
  BY MessagesAssumption DEF Restart, Mishap, discord, IInv, TypeOK
<1>2. queue' \in Seq(OpType)
  BY <1>1
<1> QED BY <1>1, <1>2 DEF IInv, TypeOK, HasOp, RowsNameCopies, RepliesLinked, Idle, NoId

LEMMA NextIInv == ASSUME IInv, Next PROVE IInv'
<1>1. ASSUME NEW m \in Messages, Post(m) \/ Edit(m) \/ Unfurl(m) \/ Erase(m) PROVE IInv'
  BY <1>1, PostStep, EditStep, UnfurlStep, EraseStep
<1>2. CASE Skip              BY <1>2, SkipStep
<1>3. CASE WritePending      BY <1>3, WritePendingStep
<1>4. CASE BeginDelete       BY <1>4, BeginDeleteStep
<1>5. CASE EditMessage       BY <1>5, EditMessageStep
<1>6. CASE SendMessage       BY <1>6, SendMessageStep
<1>7. CASE DeleteMessage     BY <1>7, DeleteMessageStep
<1>8. CASE Confirm           BY <1>8, ConfirmStep
<1>9. CASE Remove            BY <1>9, RemoveStep
<1>10. CASE Fails            BY <1>10, FailsStep
<1>11. CASE Restart          BY <1>11, RestartStep
<1> QED BY <1>1, <1>2, <1>3, <1>4, <1>5, <1>6, <1>7, <1>8, <1>9, <1>10, <1>11 DEF Next

LEMMA StutterIInv == ASSUME IInv, UNCHANGED vars PROVE IInv'
<1>1. UNCHANGED <<posted, changes, updates, queue, worker, rows, copies, mishaps>>
  BY DEF vars, discord
<1> QED BY <1>1 DEF IInv, TypeOK, HasOp, RowsNameCopies, RepliesLinked

LEMMA Invariance == Spec => []IInv
<1>1. Init => IInv                     BY InitIInv
<1>2. IInv /\ [Next]_vars => IInv'     BY NextIInv, StutterIInv
<1> QED BY <1>1, <1>2, PTL DEF Spec

(* Every row, op and copy is of its type.                                   *)
THEOREM MessagesTypeCorrect == Spec => []TypeOK
<1>1. IInv => TypeOK    BY DEF IInv
<1> QED BY <1>1, Invariance, PTL

(* A reply links to its parent's copy if there was one when it was sent,    *)
(* and never to another message: whichever op of a message fails, is        *)
(* repeated by an event after it, or is lost (BuildMessageOp keeps          *)
(* Discord's id; SendMessage looks it up when it is called).                *)
THEOREM RepliesFindParents == Spec => []RepliesLinked
<1>1. IInv => RepliesLinked    BY DEF IInv
<1> QED BY <1>1, Invariance, PTL

-----------------------------------------------------------------------------
(* What a copy shows and how often it is edited, if the handlers' ops are   *)
(* queued in the order of their events.  A content op is a create or an     *)
(* update.                                                                  *)
Working(m) == ~At("idle") /\ worker.op.msg = m

(* Nothing is known of a message before it is posted, a row without an id   *)
(* is not of a copy, and a GIF is taken from a create only.                 *)
WellFormed ==
  /\ \A m \in Messages : ~Found(rows[m]) => rows[m].id = NoId
  /\ \A i \in DOMAIN queue : queue[i].gif => queue[i].kind = "create"
  /\ ~At("idle") /\ worker.op.gif => worker.op.kind = "create"
  /\ \A m \in Messages :
       posted[m].status = "unsent" =>
         /\ ~Found(rows[m]) /\ changes[m] = 0 /\ ~Working(m)
         /\ \A i \in DOMAIN queue : queue[i].msg # m
  /\ At("confirm") => worker.op.kind # "delete"

(* What an op says of its message.                                          *)
LEMMA OpSays ==
  ASSUME NEW kind \in {"create", "update", "delete"}, NEW m \in Messages, NEW content \in Contents,
         NEW author \in {"member", "user"}, NEW op, op = Op(Event(kind, m, content, author))
  PROVE  /\ op.kind = kind /\ op.msg = m
         /\ op.gif => kind = "create" /\ content.link
         /\ op.state.content.text = content.text
         /\ ~op.gif => op.state.content = content
<1> DEFINE e == Event(kind, m, content, author)
<1>1. /\ e.kind = kind /\ e.msg = m /\ e.content = content
  BY DEF Event
<1>2. op.kind = kind /\ op.msg = m /\ op.gif = Stripped(e)
      /\ op.state.content = IF Stripped(e) THEN [content EXCEPT !.link = FALSE] ELSE content
  BY <1>1 DEF Op
<1>3. [content EXCEPT !.link = FALSE].text = content.text
  BY MessagesAssumption DEF Content
<1>4. Stripped(e) => kind = "create" /\ content.link
  BY <1>1 DEF Stripped
<1> QED BY <1>2, <1>3, <1>4

(* In order, an op is queued last.                                          *)
LEMMA Appended ==
  ASSUME queue \in Seq(OpType), Racing = FALSE, NEW op \in OpType, Submit(op)
  PROVE  /\ Len(queue) \in Nat /\ DOMAIN queue = 1..Len(queue)
         /\ DOMAIN queue' = 1..(Len(queue) + 1) /\ queue'[Len(queue) + 1] = op
         /\ \A i \in DOMAIN queue : queue'[i] = queue[i]
<1> DEFINE n == Len(queue)
<1>1. n \in Nat /\ DOMAIN queue = 1..n
  OBVIOUS
<1>2. queue' = SubSeq(queue, 1, n) \o <<op>> \o SubSeq(queue, n + 1, n)
  BY DEF Submit
<1>3. SubSeq(queue, 1, n) = queue /\ SubSeq(queue, n + 1, n) = <<>>
  BY <1>1, SubSeqProperties
<1>4. queue' = Append(queue, op)
  <2>1. queue' = (queue \o <<op>>) \o <<>>
    BY <1>2, <1>3
  <2>2. queue \o <<op>> \in Seq(OpType)
    BY ConcatProperties
  <2> QED BY <2>1, <2>2, ConcatEmptySeq, AppendIsConcat
<1> QED BY <1>1, <1>4

LEMMA Advanced ==
  ASSUME queue \in Seq(OpType), Take
  PROVE  /\ Len(queue) \in Nat /\ DOMAIN queue = 1..Len(queue) /\ Len(queue) >= 1
         /\ DOMAIN queue' = 1..(Len(queue) - 1) /\ Head(queue) = queue[1]
         /\ \A i \in DOMAIN queue' : i + 1 \in DOMAIN queue /\ queue'[i] = queue[i + 1]
<1>1. queue # <<>> /\ queue' = Tail(queue)
  BY DEF Take
<1> QED BY <1>1

LEMMA InitWellFormed == ASSUME Init PROVE WellFormed
BY DEF Init, WellFormed, Working, Found, Absent, Unsent, At, Idle, NoId

(* Discord's steps: a message is posted, and is not unposted.               *)
LEMMA EmitWellFormed ==
  ASSUME IInv, WellFormed, NEW m \in Messages,
         UNCHANGED <<worker, rows>>, posted'[m].status # "unsent",
         \A k \in Messages \ {m} : posted'[k] = posted[k] /\ changes'[k] = changes[k],
         \A i \in DOMAIN queue' :
           (i \in DOMAIN queue /\ queue'[i] = queue[i])
             \/ (queue'[i].msg = m /\ (queue'[i].gif => queue'[i].kind = "create"))
  PROVE  WellFormed'
<1>1. \A i \in DOMAIN queue' : queue'[i].gif => queue'[i].kind = "create"
  BY DEF WellFormed
<1>2. ASSUME NEW k \in Messages, posted'[k].status = "unsent"
      PROVE  /\ ~Found(rows[k]) /\ changes'[k] = 0 /\ ~Working(k)
             /\ \A i \in DOMAIN queue' : queue'[i].msg # k
  <2>1. k # m /\ posted[k].status = "unsent" /\ changes'[k] = changes[k]
    BY <1>2
  <2> QED BY <2>1 DEF WellFormed
<1>3. (At("idle") <=> At("idle")') /\ (At("confirm") <=> At("confirm")')
      /\ \A k \in Messages : Working(k) <=> Working(k)'
  BY DEF At, Working
<1> QED BY <1>1, <1>2, <1>3 DEF WellFormed

(* What an event leaves in the queue: nothing, or an op that says what its  *)
(* message is now, but for the link of a GIF it has taken.                  *)
Silent == UNCHANGED queue

Told(m, kind) ==
  \E op \in OpType :
    /\ op.msg = m /\ op.kind = kind /\ (op.gif => kind = "create")
    /\ DOMAIN queue' = 1..(Len(queue) + 1) /\ queue'[Len(queue) + 1] = op
    /\ \A i \in DOMAIN queue : queue'[i] = queue[i]
    /\ kind # "delete" => /\ op.state.content.text = posted'[m].content.text
                          /\ ~op.gif => op.state.content = posted'[m].content

Begun(m)   == /\ posted[m].status = "unsent" /\ posted'[m].status = "there" /\ changes'[m] = changes[m]
              /\ (Silent /\ posted'[m].content = Blank) \/ Told(m, "create")
Altered(m) == /\ There(m) /\ posted'[m].status = "there" /\ changes'[m] = changes[m] + 1
              /\ (Silent /\ posted'[m].content = Blank) \/ Told(m, "update")
Touched(m) == /\ There(m) /\ posted'[m] = posted[m] /\ changes'[m] = changes[m]
              /\ Silent \/ Told(m, "update")
Erased(m)  == /\ There(m) /\ posted'[m].status = "gone" /\ changes'[m] = changes[m]
              /\ posted'[m].content = posted[m].content /\ Told(m, "delete")

Discord(m) == Post(m) \/ Edit(m) \/ Unfurl(m) \/ Erase(m)

LEMMA ToldOp ==
  ASSUME IInv, Racing = FALSE, NEW m \in Messages, NEW kind \in {"create", "update", "delete"},
         NEW content \in Contents, NEW author \in {"member", "user"},
         posted'[m].files \in 0..MaxFiles, kind # "delete" => posted'[m].content = content,
         Submit(Op(Event(kind, m, content, author)))
  PROVE  Told(m, kind)
<1> DEFINE op == Op(Event(kind, m, content, author))
<1>1. op \in OpType
  BY OpTyped
<1>2. /\ op.kind = kind /\ op.msg = m /\ (op.gif => kind = "create")
      /\ op.state.content.text = content.text /\ (~op.gif => op.state.content = content)
  BY OpSays
<1>3. Submit(op) /\ queue \in Seq(OpType)
  BY DEF IInv, TypeOK
<1> HIDE DEF op
<1>4. /\ DOMAIN queue' = 1..(Len(queue) + 1) /\ queue'[Len(queue) + 1] = op
      /\ \A i \in DOMAIN queue : queue'[i] = queue[i]
  BY <1>1, <1>3, Appended
<1> QED BY <1>1, <1>2, <1>4 DEF Told

LEMMA PostIs ==
  ASSUME IInv, Racing = FALSE, NEW m \in Messages, Post(m)
  PROVE  Begun(m) /\ UNCHANGED changes /\ \A k \in Messages \ {m} : posted'[k] = posted[k]
<1>1. PICK content \in Contents, n \in 0..MaxFiles :
        /\ posted' = [posted EXCEPT ![m] = [status |-> "there", content |-> content, files |-> n]]
        /\ Emit(Event("create", m, content, "member"))
  BY DEF Post
<1>2. /\ posted'[m].status = "there" /\ posted'[m].content = content
      /\ posted'[m].files \in 0..MaxFiles /\ \A k \in Messages \ {m} : posted'[k] = posted[k]
  BY <1>1 DEF IInv, TypeOK
<1>3. CASE Skipped(Event("create", m, content, "member"))
  BY <1>1, <1>2, <1>3 DEF Emit, Begun, Silent, Skipped, Event, Post
<1>4. CASE Submit(Op(Event("create", m, content, "member")))
  <2>1. Told(m, "create")
    BY <1>2, <1>4, ToldOp
  <2> QED BY <1>2, <2>1 DEF Begun, Post
<1> QED BY <1>1, <1>2, <1>3, <1>4 DEF Emit, Post

LEMMA EditIs ==
  ASSUME IInv, Racing = FALSE, NEW m \in Messages, Edit(m)
  PROVE  Altered(m) /\ \A k \in Messages \ {m} : posted'[k] = posted[k] /\ changes'[k] = changes[k]
<1>1. PICK content \in Contents, author \in {"member", "user"} :
        /\ posted' = [posted EXCEPT ![m].content = content]
        /\ Emit(Event("update", m, content, author))
  BY DEF Edit
<1>2. /\ posted'[m].status = "there" /\ posted'[m].content = content
      /\ posted'[m].files \in 0..MaxFiles /\ \A k \in Messages \ {m} : posted'[k] = posted[k]
  BY <1>1 DEF IInv, TypeOK, PostType, Edit, There
<1>3. /\ changes'[m] = changes[m] + 1 /\ There(m)
      /\ \A k \in Messages \ {m} : changes'[k] = changes[k]
  BY DEF Edit, IInv, TypeOK
<1>4. CASE Skipped(Event("update", m, content, author))
  BY <1>1, <1>2, <1>3, <1>4 DEF Emit, Altered, Silent, Skipped, Event
<1>5. CASE Submit(Op(Event("update", m, content, author)))
  <2>1. Told(m, "update")
    BY <1>2, <1>5, ToldOp
  <2> QED BY <1>2, <1>3, <2>1 DEF Altered
<1> QED BY <1>1, <1>2, <1>3, <1>4, <1>5 DEF Emit

LEMMA UnfurlIs ==
  ASSUME IInv, Racing = FALSE, NEW m \in Messages, Unfurl(m)
  PROVE  Touched(m) /\ UNCHANGED <<posted, changes>>
<1>1. PICK content \in {Blank, posted[m].content}, author \in {"member", "user"} :
        Emit(Event("update", m, content, author))
  BY DEF Unfurl
<1>2. /\ posted' = posted /\ changes' = changes /\ There(m)
      /\ posted'[m].files \in 0..MaxFiles /\ posted[m].content \in Contents /\ content \in Contents
  BY MessagesAssumption DEF Unfurl, IInv, TypeOK, PostType
<1>3. CASE Skipped(Event("update", m, content, author))
  BY <1>1, <1>2, <1>3 DEF Emit, Touched, Silent
<1>4. CASE ~Skipped(Event("update", m, content, author))
  <2>1. content = posted[m].content
    BY <1>1, <1>4 DEF Skipped, Event
  <2>2. Submit(Op(Event("update", m, content, author)))
    BY <1>1, <1>4 DEF Emit
  <2>3. Told(m, "update")
    BY <1>2, <2>1, <2>2, ToldOp
  <2> QED BY <1>2, <2>3 DEF Touched
<1> QED BY <1>2, <1>3, <1>4

LEMMA EraseIs ==
  ASSUME IInv, Racing = FALSE, NEW m \in Messages, Erase(m)
  PROVE  Erased(m) /\ UNCHANGED changes /\ \A k \in Messages \ {m} : posted'[k] = posted[k]
<1>1. /\ posted'[m].status = "gone" /\ posted'[m].content = posted[m].content
      /\ posted'[m].files \in 0..MaxFiles
      /\ \A k \in Messages \ {m} : posted'[k] = posted[k]
  BY DEF Erase, IInv, TypeOK, PostType
<1>2. Blank \in Contents
  BY MessagesAssumption
<1>3. Told(m, "delete")
  BY <1>1, <1>2, ToldOp DEF Erase
<1> QED BY <1>1, <1>3 DEF Erased, Erase

(* All that an event does.                                                  *)
LEMMA DiscordIs ==
  ASSUME IInv, Racing = FALSE, NEW m \in Messages, Discord(m)
  PROVE  /\ Begun(m) \/ Altered(m) \/ Touched(m) \/ Erased(m)
         /\ UNCHANGED <<worker, rows, copies, mishaps>>
         /\ \A k \in Messages \ {m} : posted'[k] = posted[k] /\ changes'[k] = changes[k]
         /\ Len(queue) \in Nat /\ DOMAIN queue = 1..Len(queue)
         /\ Silent \/ \E kind \in {"create", "update", "delete"} : Told(m, kind)
         /\ posted'[m].status # "unsent"
<1>1. /\ Begun(m) \/ Altered(m) \/ Touched(m) \/ Erased(m)
      /\ \A k \in Messages \ {m} : posted'[k] = posted[k] /\ changes'[k] = changes[k]
  BY PostIs, EditIs, UnfurlIs, EraseIs DEF Discord
<1>2. UNCHANGED <<worker, rows, copies, mishaps>>
  BY DEF Discord, Post, Edit, Unfurl, Erase
<1>3. Silent \/ \E kind \in {"create", "update", "delete"} : Told(m, kind)
  BY <1>1 DEF Begun, Altered, Touched, Erased
<1>4. posted'[m].status # "unsent"
  BY <1>1 DEF Begun, Altered, Touched, Erased, There
<1>5. Len(queue) \in Nat /\ DOMAIN queue = 1..Len(queue)
  BY DEF IInv, TypeOK
<1> QED BY <1>1, <1>2, <1>3, <1>4, <1>5

LEMMA DiscordWellFormed ==
  ASSUME IInv, WellFormed, Racing = FALSE, NEW m \in Messages, Discord(m)
  PROVE  WellFormed'
<1>1. \A i \in DOMAIN queue' :
           (i \in DOMAIN queue /\ queue'[i] = queue[i])
             \/ (queue'[i].msg = m /\ (queue'[i].gif => queue'[i].kind = "create"))
  <2>1. CASE Silent
    BY <2>1 DEF Silent
  <2>2. ASSUME NEW kind \in {"create", "update", "delete"}, Told(m, kind)
        PROVE  \A i \in DOMAIN queue' :
                 (i \in DOMAIN queue /\ queue'[i] = queue[i])
                   \/ (queue'[i].msg = m /\ (queue'[i].gif => queue'[i].kind = "create"))
    <3>1. PICK op \in OpType :
            /\ op.msg = m /\ op.kind = kind /\ (op.gif => kind = "create")
            /\ DOMAIN queue' = 1..(Len(queue) + 1) /\ queue'[Len(queue) + 1] = op
            /\ \A i \in DOMAIN queue : queue'[i] = queue[i]
      BY <2>2 DEF Told
    <3> QED BY <3>1, DiscordIs
  <2> QED BY <2>1, <2>2, DiscordIs
<1> QED BY <1>1, DiscordIs, EmitWellFormed

(* The worker's steps but those that write a row leave them as they are.    *)
LEMMA WorkerWellFormed ==
  ASSUME IInv, WellFormed, UNCHANGED <<posted, changes>>,
         queue' = queue \/ Take \/ queue' = <<>>,
         worker' = Idle \/ (~At("idle") /\ worker'.op = worker.op)
           \/ (Take /\ worker'.op = Head(queue) /\ worker'.pc = "apply") \/ worker' = worker,
         worker'.pc = "confirm" => worker'.op.kind # "delete",
         \A m \in Messages : ~Found(rows'[m]) => rows'[m].id = NoId,
         \A m \in Messages : posted[m].status = "unsent" => ~Found(rows'[m])
  PROVE  WellFormed'
<1>1. \A i \in DOMAIN queue' : \E j \in DOMAIN queue : queue'[i] = queue[j]
  <2>1. CASE queue' = queue
    BY <2>1
  <2>2. CASE queue' = <<>>
    BY <2>2
  <2>3. CASE Take
    <3>1. \A i \in DOMAIN queue' : i + 1 \in DOMAIN queue /\ queue'[i] = queue[i + 1]
      BY <2>3, Advanced DEF IInv, TypeOK
    <3> QED BY <3>1
  <2> QED BY <2>1, <2>2, <2>3
<1>2. Take => Head(queue) = queue[1] /\ 1 \in DOMAIN queue
  BY Advanced DEF IInv, TypeOK
<1>3. ~At("idle")' /\ worker'.op.gif => worker'.op.kind = "create"
  BY <1>2 DEF WellFormed, At, Idle
<1>4. ASSUME NEW m \in Messages, posted[m].status = "unsent"
      PROVE  ~Working(m)' /\ \A i \in DOMAIN queue' : queue'[i].msg # m
  BY <1>1, <1>2, <1>4 DEF WellFormed, Working, At, Idle
<1> QED BY <1>1, <1>3, <1>4 DEF WellFormed, At

LEMMA Verbs ==
  /\ Applies("edit")   => At("apply") /\ worker.op.kind # "delete" /\ HasStoatEntity(Row)
  /\ Applies("create") => At("apply") /\ worker.op.kind # "delete" /\ ~HasStoatEntity(Row)
  /\ Applies("delete") => At("apply") /\ worker.op.kind = "delete"
<1>1. CASE worker.op.kind = "delete"                            BY <1>1 DEF Applies
<1>2. CASE worker.op.kind # "delete" /\ HasStoatEntity(Row)     BY <1>2 DEF Applies, Row
<1>3. CASE worker.op.kind # "delete" /\ ~HasStoatEntity(Row)    BY <1>3 DEF Applies, Row
<1> QED BY <1>1, <1>2, <1>3

LEMMA NextWellFormed ==
  ASSUME IInv, WellFormed, Racing = FALSE, [Next]_vars
  PROVE  WellFormed'
<1>1. ASSUME NEW m \in Messages, Discord(m) PROVE WellFormed'
  BY <1>1, DiscordWellFormed
<1>2. Take => Head(queue) \in OpType
  BY TakeTyped
<1>3. ~At("idle") => worker.op \in OpType /\ worker.op.msg \in Messages
  BY DEF IInv, HasOp, At, OpType
<1>4. /\ \A m \in Messages : ~Found(rows[m]) => rows[m].id = NoId
      /\ \A m \in Messages : posted[m].status = "unsent" => ~Found(rows[m])
  BY DEF WellFormed
<1>5. worker.pc = "confirm" => worker.op.kind # "delete"
  BY DEF WellFormed, At
<1>6. CASE Skip
  BY <1>4, <1>5, <1>6, WorkerWellFormed DEF Skip, discord
<1>7. CASE BeginDelete
  <2>1. worker'.op = Head(queue) /\ worker'.pc = "apply"
    BY <1>7 DEF BeginDelete, Idle
  <2> QED BY <1>4, <1>7, <2>1, WorkerWellFormed DEF BeginDelete, discord
<1>8. CASE WritePending
  <2> DEFINE op == Head(queue)
  <2>1. worker'.op = op /\ worker'.pc = "apply"
    BY <1>8 DEF WritePending, Idle
  <2>2. op.msg \in Messages /\ posted[op.msg].status # "unsent"
    BY <1>2, <1>8, Advanced DEF WritePending, WellFormed, OpType, IInv, TypeOK
  <2>3. /\ rows'[op.msg] = PendingMessageRow(rows[op.msg], op.state, Channel)
        /\ \A m \in Messages \ {op.msg} : rows'[m] = rows[m]
    BY <1>8, <2>2 DEF WritePending, IInv, TypeOK
  <2>4. Found(rows'[op.msg])
    BY <2>3 DEF PendingMessageRow, Found
  <2> QED BY <1>4, <1>8, <2>1, <2>2, <2>3, <2>4, WorkerWellFormed DEF WritePending, discord
<1>9. CASE EditMessage \/ SendMessage \/ DeleteMessage
  <2>1. /\ At("apply") /\ worker'.op = worker.op /\ (worker'.pc = "confirm" => worker.op.kind # "delete")
        /\ UNCHANGED <<posted, changes, queue, rows>>
    <3>1. worker \in [pc : {"idle", "apply", "confirm", "remove"}, op : OpType \cup {Null}, id : Nat]
      BY DEF IInv, TypeOK
    <3>2. CASE EditMessage
      <4>1. At("apply") /\ worker.op.kind # "delete" /\ UNCHANGED <<posted, changes, queue, rows>>
        BY <3>2, Verbs DEF EditMessage, discord
      <4>2. worker' = [worker EXCEPT !.pc = "confirm", !.id = Row.id]
        BY <3>2 DEF EditMessage
      <4> QED BY <3>1, <4>1, <4>2
    <3>3. CASE SendMessage    BY <3>1, <3>3 DEF SendMessage, Applies, discord
    <3>4. CASE DeleteMessage  BY <3>1, <3>4 DEF DeleteMessage, Applies, discord
    <3> QED BY <1>9, <3>2, <3>3, <3>4
  <2> QED BY <1>4, <2>1, WorkerWellFormed DEF At
<1>10. CASE Confirm \/ Remove
  <2> DEFINE m == worker.op.msg
  <2>1. /\ worker' = Idle /\ m \in Messages /\ ~At("idle") /\ UNCHANGED <<posted, changes, queue>>
        /\ \A k \in Messages \ {m} : rows'[k] = rows[k]
        /\ rows'[m] = Absent \/ rows'[m] = ConfirmedRow(rows[m], worker.id)
    BY <1>3, <1>10 DEF Confirm, Remove, At, discord, IInv, TypeOK
  <2>2. posted[m].status # "unsent"
    BY <2>1 DEF WellFormed, Working
  <2>3. rows[m] \in MessageRow
    BY <2>1 DEF IInv, TypeOK
  <2>4. ~Found(rows'[m]) => rows'[m].id = NoId
    <3>1. CASE rows'[m] = Absent
      BY <3>1 DEF Absent
    <3>2. CASE rows'[m] = ConfirmedRow(rows[m], worker.id) /\ Found(rows[m])
      BY <2>3, <3>2 DEF ConfirmedRow, Found, MessageRow
    <3>3. CASE rows'[m] = ConfirmedRow(rows[m], worker.id) /\ ~Found(rows[m])
      BY <1>4, <2>1, <3>3 DEF ConfirmedRow
    <3> QED BY <2>1, <3>1, <3>2, <3>3
  <2> QED BY <1>4, <2>1, <2>2, <2>4, WorkerWellFormed DEF Idle
<1>11. CASE Fails \/ Restart
  <2>1. worker' = Idle /\ UNCHANGED <<posted, changes, rows>> /\ (queue' = queue \/ queue' = <<>>)
    BY <1>11 DEF Fails, Restart, discord
  <2> QED BY <1>4, <2>1, WorkerWellFormed DEF Idle
<1>12. CASE UNCHANGED vars
  BY <1>4, <1>5, <1>12, WorkerWellFormed DEF vars, discord
<1> QED BY <1>1, <1>6, <1>7, <1>8, <1>9, <1>10, <1>11, <1>12 DEF Next, Discord

-----------------------------------------------------------------------------
(* Each content op bears a stamp: how often its message had been changed by *)
(* then, from 1 on; or 0, if it took the link of a GIF.  Two ops of a       *)
(* message with one stamp say the same; base is the stamp of what its row   *)
(* says.                                                                    *)
Placed(op, s, base) ==
  LET m == op.msg IN
  /\ base[m] <= s /\ s <= changes[m] + 1 /\ (op.gif \/ s >= 1)
  /\ Found(rows[m]) /\ base[m] = s => op.state.content = rows[m].state.content
  /\ s = changes[m] + 1 => op.state.content = posted[m].content

Known(base) ==
  \A m \in Messages :
    /\ base[m] <= changes[m] + 1
    /\ posted[m].status = "unsent" => base[m] = 0
    /\ Found(rows[m]) /\ base[m] = changes[m] + 1 => rows[m].state.content = posted[m].content

InLine(st, base) ==
  \A i \in DOMAIN queue : queue[i].kind # "delete" => Placed(queue[i], st[i], base)

InOrder(st) ==
  \A i, j \in DOMAIN queue :
    i < j /\ queue[i].kind # "delete" /\ queue[j].kind # "delete" /\ queue[i].msg = queue[j].msg =>
      st[i] <= st[j] /\ (st[i] = st[j] => queue[i].state.content = queue[j].state.content)

(* The edit the worker is about to make of a copy.                          *)
Due(i) ==
  IF At("apply") /\ worker.op.kind # "delete" /\ rows[worker.op.msg].id = i THEN 1 ELSE 0

(* A copy was edited once for each stamp after its own.                     *)
Charged(base) ==
  /\ At("apply") /\ worker.op.kind # "delete" => worker.op.gif \/ base[worker.op.msg] >= 1
  /\ \A i \in DOMAIN copies :
       copies[i].edits + Due(i) + (IF copies[i].gif THEN 0 ELSE 1) <= base[copies[i].msg]

Stamped(st, base) == Known(base) /\ InLine(st, base) /\ InOrder(st) /\ Charged(base)

Stamps ==
  \E st \in [DOMAIN queue -> Nat], base \in [Messages -> Nat] : Stamped(st, base)

LEMMA InitStamps == ASSUME Init PROVE Stamps
<1>1. PICK st \in [DOMAIN queue -> Nat] : \A i \in DOMAIN queue : st[i] = 0
  <2>1. [i \in DOMAIN queue |-> 0] \in [DOMAIN queue -> Nat]
    OBVIOUS
  <2> QED BY <2>1
<1>2. PICK base \in [Messages -> Nat] : \A m \in Messages : base[m] = 0
  <2>1. [m \in Messages |-> 0] \in [Messages -> Nat]
    OBVIOUS
  <2> QED BY <2>1
<1>3. DOMAIN queue = {} /\ DOMAIN copies = {}
  BY DEF Init
<1>4. Known(base)
  BY <1>2 DEF Init, Known, Found, Absent
<1>5. InLine(st, base) /\ InOrder(st)
  BY <1>3 DEF InLine, InOrder
<1>6. Charged(base)
  BY <1>3 DEF Init, Charged, At, Idle
<1> QED BY <1>1, <1>2, <1>4, <1>5, <1>6 DEF Stamps, Stamped

(* An event changes nothing of what was stamped before it.                  *)
LEMMA StillPlaced ==
  ASSUME IInv, WellFormed, Racing = FALSE, NEW m \in Messages, Discord(m),
         NEW base \in [Messages -> Nat], Known(base)
  PROVE  /\ Known(base)'
         /\ \A op \in OpType, s \in Nat :
              Placed(op, s, base) /\ posted[op.msg].status # "unsent" => Placed(op, s, base)'
<1>1. /\ Begun(m) \/ Altered(m) \/ Touched(m) \/ Erased(m)
      /\ rows' = rows /\ posted'[m].status # "unsent"
      /\ \A k \in Messages \ {m} : posted'[k] = posted[k] /\ changes'[k] = changes[k]
  BY DiscordIs
<1>2. \A k \in Messages : base[k] \in Nat /\ changes[k] \in Nat
  BY DEF IInv, TypeOK
<1>3. posted[m].status = "unsent" => ~Found(rows[m])
  BY DEF WellFormed
<1>4. \/ posted[m].status = "unsent" /\ changes'[m] = changes[m]
      \/ changes'[m] = changes[m] + 1
      \/ changes'[m] = changes[m] /\ posted'[m].content = posted[m].content
  BY <1>1 DEF Begun, Altered, Touched, Erased
<1>5. Known(base)'
  BY <1>1, <1>2, <1>3, <1>4 DEF Known
<1>6. ASSUME NEW op \in OpType, NEW s \in Nat, Placed(op, s, base), posted[op.msg].status # "unsent"
      PROVE  Placed(op, s, base)'
  <2>1. op.msg \in Messages
    BY DEF OpType
  <2>2. CASE op.msg # m
    BY <1>1, <1>6, <2>1, <2>2 DEF Placed
  <2>3. CASE op.msg = m /\ changes'[m] = changes[m] + 1
    BY <1>1, <1>2, <1>6, <2>1, <2>3 DEF Placed
  <2>4. CASE op.msg = m /\ changes'[m] = changes[m] /\ posted'[m].content = posted[m].content
    BY <1>1, <1>6, <2>1, <2>4 DEF Placed
  <2> QED BY <1>4, <1>6, <2>2, <2>3, <2>4
<1> QED BY <1>5, <1>6

LEMMA DiscordStamps ==
  ASSUME IInv, WellFormed, Stamps, Racing = FALSE, NEW m \in Messages, Discord(m)
  PROVE  Stamps'
<1>1. PICK st \in [DOMAIN queue -> Nat], base \in [Messages -> Nat] : Stamped(st, base)
  BY DEF Stamps
<1> DEFINE n == Len(queue)
<1>2. /\ UNCHANGED <<worker, rows, copies>> /\ n \in Nat /\ DOMAIN queue = 1..n
      /\ Silent \/ \E kind \in {"create", "update", "delete"} : Told(m, kind)
  BY DiscordIs
<1>3. /\ Known(base)'
      /\ \A op \in OpType, s \in Nat :
           Placed(op, s, base) /\ posted[op.msg].status # "unsent" => Placed(op, s, base)'
  BY <1>1, StillPlaced DEF Stamped
<1>4. \A i \in DOMAIN queue : queue[i] \in OpType /\ queue[i].msg \in Messages
                              /\ posted[queue[i].msg].status # "unsent"
  <2>1. \A i \in DOMAIN queue : queue[i] \in OpType
    BY <1>2, ElementOfSeq DEF IInv, TypeOK
  <2>2. \A i \in DOMAIN queue : queue[i].msg \in Messages
    BY <2>1 DEF OpType
  <2> QED BY <2>1, <2>2 DEF WellFormed
<1>5. \A i \in DOMAIN queue : queue[i].kind # "delete" => Placed(queue[i], st[i], base)
  BY <1>1 DEF Stamped, InLine
<1>6. Charged(base)'
  BY <1>1, <1>2 DEF Stamped, Charged, Due, At
<1>7. CASE Silent
  <2>1. \A i \in DOMAIN queue' : queue'[i] = queue[i] /\ queue' = queue
    BY <1>7 DEF Silent
  <2>2. InLine(st, base)'
    BY <1>3, <1>4, <1>5, <2>1 DEF InLine
  <2>3. InOrder(st)'
    BY <1>1, <2>1 DEF Stamped, InOrder
  <2>4. st \in [DOMAIN queue' -> Nat]
    BY <1>7 DEF Silent
  <2> QED BY <1>3, <1>6, <2>2, <2>3, <2>4 DEF Stamps, Stamped
<1>8. ASSUME NEW kind \in {"create", "update", "delete"}, Told(m, kind) PROVE Stamps'
  <2>1. PICK op \in OpType :
          /\ op.msg = m /\ op.kind = kind /\ (op.gif => kind = "create")
          /\ DOMAIN queue' = 1..(n + 1) /\ queue'[n + 1] = op
          /\ \A i \in DOMAIN queue : queue'[i] = queue[i]
          /\ kind # "delete" => /\ op.state.content.text = posted'[m].content.text
                                /\ ~op.gif => op.state.content = posted'[m].content
    BY <1>8 DEF Told
  <2>2. changes[m] \in Nat /\ changes'[m] \in Nat /\ base[m] \in Nat
    BY NextIInv DEF IInv, TypeOK, Next, Discord
  <2>3. PICK s \in Nat : s = IF op.gif THEN 0 ELSE changes'[m] + 1
    BY <2>2
  <2>4. PICK st2 \in [DOMAIN queue' -> Nat] :
          st2[n + 1] = s /\ \A i \in DOMAIN queue : st2[i] = st[i]
    <3> DEFINE f == [i \in DOMAIN queue' |-> IF i = n + 1 THEN s ELSE st[i]]
    <3>1. f \in [DOMAIN queue' -> Nat] /\ f[n + 1] = s /\ \A i \in DOMAIN queue : f[i] = st[i]
      BY <1>2, <2>1
    <3> QED BY <3>1
  (* What the new op finds before it.                                       *)
  <2>5. kind # "delete" =>
          \/ posted[m].status = "unsent" /\ changes'[m] = changes[m]
          \/ ~op.gif /\ changes'[m] = changes[m] + 1
          \/ ~op.gif /\ changes'[m] = changes[m] /\ posted'[m].content = posted[m].content
    <3>1. ~Silent
      BY <1>2, <2>1 DEF Silent
    <3>2. \A other : Told(m, other) => other = kind
      BY <2>1 DEF Told
    <3> QED BY <2>1, <3>1, <3>2, DiscordIs DEF Begun, Altered, Touched, Erased
  <2>6. kind # "delete" => Placed(op, s, base)'
    <3>1. /\ base[m] <= changes[m] + 1 /\ (posted[m].status = "unsent" => base[m] = 0)
          /\ Found(rows[m]) /\ base[m] = changes[m] + 1 => rows[m].state.content = posted[m].content
      BY <1>1 DEF Stamped, Known
    <3>2. posted[m].status = "unsent" => ~Found(rows[m])
      BY DEF WellFormed
    <3>3. /\ kind # "delete" => base[m] <= s
          /\ s <= changes'[m] + 1 /\ (op.gif \/ s >= 1)
      BY <2>2, <2>3, <2>5, <3>1
    <3>4. kind # "delete" /\ s = changes'[m] + 1 => op.state.content = posted'[m].content
      BY <2>1, <2>2, <2>3
    <3>5. kind # "delete" /\ Found(rows[m]) /\ base[m] = s => op.state.content = rows[m].state.content
      BY <2>2, <2>3, <2>5, <3>1, <3>2, <3>4
    <3> QED BY <1>2, <2>1, <3>3, <3>4, <3>5 DEF Placed
  <2>7. ASSUME NEW i \in DOMAIN queue, queue[i].msg = m, queue[i].kind # "delete", kind # "delete"
        PROVE  st[i] <= s /\ (st[i] = s => queue[i].state.content = op.state.content)
    <3>1. /\ posted[m].status # "unsent" /\ st[i] \in Nat /\ st[i] <= changes[m] + 1
          /\ st[i] = changes[m] + 1 => queue[i].state.content = posted[m].content
      BY <1>4, <1>5, <2>7 DEF Placed
    <3> QED BY <2>1, <2>2, <2>3, <2>5, <2>7, <3>1
  <2>8. InLine(st2, base)'
    BY <1>2, <1>3, <1>4, <1>5, <2>1, <2>4, <2>6 DEF InLine
  <2>9. InOrder(st2)'
    <3> SUFFICES ASSUME NEW i \in DOMAIN queue', NEW j \in DOMAIN queue', i < j,
                        queue'[i].kind # "delete", queue'[j].kind # "delete",
                        queue'[i].msg = queue'[j].msg
                 PROVE  /\ st2[i] <= st2[j]
                        /\ st2[i] = st2[j] => queue'[i].state.content = queue'[j].state.content
      BY DEF InOrder
    <3>1. i \in DOMAIN queue /\ queue'[i] = queue[i] /\ st2[i] = st[i]
      BY <1>2, <2>1, <2>4
    <3>2. CASE j = n + 1
      BY <2>1, <2>4, <2>7, <3>1, <3>2
    <3>3. CASE j \in DOMAIN queue
      <4>1. queue'[j] = queue[j] /\ st2[j] = st[j]
        BY <2>1, <2>4, <3>3
      <4> QED BY <1>1, <3>1, <3>3, <4>1 DEF Stamped, InOrder
    <3> QED BY <1>2, <2>1, <3>2, <3>3
  <2> QED BY <1>3, <1>6, <2>8, <2>9 DEF Stamps, Stamped
<1> QED BY <1>2, <1>7, <1>8

(* Steps of the worker that leave the queue, or that take an op from it.    *)
LEMMA KeepStamps ==
  ASSUME IInv, NEW st \in [DOMAIN queue -> Nat], NEW base \in [Messages -> Nat], Stamped(st, base),
         UNCHANGED <<posted, changes, queue>>, Charged(base)',
         \A m \in Messages :
           Found(rows'[m]) => Found(rows[m]) /\ rows'[m].state = rows[m].state
  PROVE  Stamps'
<1>1. \A i \in DOMAIN queue : queue[i].msg \in Messages
  BY ElementOfSeq DEF IInv, TypeOK, OpType
<1>2. Known(base)'
  BY DEF Stamped, Known
<1>3. InLine(st, base)'
  BY <1>1 DEF Stamped, InLine, Placed
<1>4. InOrder(st)'
  BY DEF Stamped, InOrder
<1> QED BY <1>2, <1>3, <1>4 DEF Stamps, Stamped

LEMMA TakeStamps ==
  ASSUME IInv, Take, NEW st \in [DOMAIN queue -> Nat], NEW base \in [Messages -> Nat],
         InOrder(st), UNCHANGED <<posted, changes>>, Known(base)', Charged(base)',
         \A i \in DOMAIN queue, op \in OpType :
           i > 1 /\ op = queue[i] /\ op.kind # "delete" => Placed(op, st[i], base)'
  PROVE  Stamps'
<1>1. /\ Len(queue) \in Nat /\ DOMAIN queue = 1..Len(queue) /\ Len(queue) >= 1
      /\ DOMAIN queue' = 1..(Len(queue) - 1)
      /\ \A i \in DOMAIN queue' : i + 1 \in DOMAIN queue /\ queue'[i] = queue[i + 1]
  BY Advanced DEF IInv, TypeOK
<1>2. PICK st2 \in [DOMAIN queue' -> Nat] : \A i \in DOMAIN queue' : st2[i] = st[i + 1]
  <2> DEFINE f == [i \in DOMAIN queue' |-> st[i + 1]]
  <2>1. f \in [DOMAIN queue' -> Nat] /\ \A i \in DOMAIN queue' : f[i] = st[i + 1]
    BY <1>1
  <2> QED BY <2>1
<1>3. \A i \in DOMAIN queue : queue[i] \in OpType
  BY <1>1, ElementOfSeq DEF IInv, TypeOK
<1>4. InLine(st2, base)'
  BY <1>1, <1>2, <1>3 DEF InLine
<1>5. InOrder(st2)'
  <2> SUFFICES ASSUME NEW i \in DOMAIN queue', NEW j \in DOMAIN queue', i < j,
                      queue'[i].kind # "delete", queue'[j].kind # "delete",
                      queue'[i].msg = queue'[j].msg
               PROVE  /\ st2[i] <= st2[j]
                      /\ st2[i] = st2[j] => queue'[i].state.content = queue'[j].state.content
    BY DEF InOrder
  <2>1. /\ i + 1 \in DOMAIN queue /\ j + 1 \in DOMAIN queue /\ i + 1 < j + 1
        /\ queue'[i] = queue[i + 1] /\ queue'[j] = queue[j + 1]
        /\ st2[i] = st[i + 1] /\ st2[j] = st[j + 1]
    BY <1>1, <1>2
  <2> QED BY <2>1 DEF InOrder
<1> QED BY <1>4, <1>5 DEF Stamps, Stamped

(* A row that is written takes the stamp of its op: a later one, if a copy  *)
(* is to be edited, as Diff found them different.                           *)
LEMMA WritePendingStamps ==
  ASSUME IInv, WellFormed, Stamps, WritePending
  PROVE  Stamps'
<1>1. PICK st \in [DOMAIN queue -> Nat], base \in [Messages -> Nat] : Stamped(st, base)
  BY DEF Stamps
<1>2. PICK op : op = Head(queue)
  OBVIOUS
<1> DEFINE m == op.msg
<1>3. /\ op \in OpType /\ m \in Messages /\ op.kind # "delete" /\ 1 \in DOMAIN queue
      /\ op = queue[1] /\ At("idle") /\ \A i \in DOMAIN queue : i \in Nat
  BY <1>2, TakeTyped, Advanced DEF WritePending, Take, OpType, IInv, TypeOK
<1>4. /\ rows'[m] = PendingMessageRow(rows[m], op.state, Channel)
      /\ \A k \in Messages \ {m} : rows'[k] = rows[k]
      /\ worker'.pc = "apply" /\ worker'.op = op
      /\ UNCHANGED <<posted, changes, copies>>
  BY <1>2, <1>3 DEF WritePending, discord, IInv, TypeOK, Idle
<1>5. /\ Found(rows'[m]) /\ rows'[m].state = op.state /\ rows'[m].id = rows[m].id
  BY <1>4 DEF PendingMessageRow, Found
<1>6. Placed(op, st[1], base) /\ st[1] \in Nat
  BY <1>1, <1>3 DEF Stamped, InLine
<1>7. PICK base2 \in [Messages -> Nat] :
        base2[m] = st[1] /\ \A k \in Messages \ {m} : base2[k] = base[k]
  <2> DEFINE f == [base EXCEPT ![m] = st[1]]
  <2>1. f \in [Messages -> Nat] /\ f[m] = st[1] /\ \A k \in Messages \ {m} : f[k] = base[k]
    BY <1>3, <1>6
  <2> QED BY <2>1
<1>8. \A k \in Messages : base[k] \in Nat /\ base2[k] \in Nat /\ base[k] <= base2[k]
  BY <1>3, <1>6, <1>7 DEF Placed
<1>9. Known(base2)'
  <2>1. posted[m].status # "unsent"
    BY <1>3 DEF WellFormed
  <2>2. base2[m] <= changes[m] + 1 /\ (base2[m] = changes[m] + 1 => op.state.content = posted[m].content)
    BY <1>6, <1>7 DEF Placed
  <2>3. ASSUME NEW k \in Messages \ {m}
        PROVE  /\ base2[k] <= changes[k] + 1 /\ (posted[k].status = "unsent" => base2[k] = 0)
               /\ Found(rows[k]) /\ base2[k] = changes[k] + 1 => rows[k].state.content = posted[k].content
    BY <1>1, <1>7 DEF Stamped, Known
  <2> QED BY <1>4, <1>5, <2>1, <2>2, <2>3 DEF Known
<1>10. Charged(base2)'
  <2>1. op.gif \/ base2[m] >= 1
    BY <1>6, <1>7 DEF Placed
  <2>2. ASSUME NEW i \in DOMAIN copies
        PROVE  copies[i].edits + (IF rows[m].id = i THEN 1 ELSE 0) + (IF copies[i].gif THEN 0 ELSE 1)
                 <= base2[copies[i].msg]
    <3>1. copies[i].edits \in Nat /\ copies[i].msg \in Messages
      BY CopyTyped DEF IInv, CopyType
    <3>2. copies[i].edits + (IF copies[i].gif THEN 0 ELSE 1) <= base[copies[i].msg]
      BY <1>1, <1>3, <3>1 DEF Stamped, Charged, Due, At
    <3>3. CASE rows[m].id # i
      BY <1>8, <3>1, <3>2, <3>3
    <3>4. CASE rows[m].id = i
      <4>1. i # NoId /\ copies[i].msg = m
        <5>1. i \in 1..Len(copies) /\ Len(copies) \in Nat
          BY DEF IInv, TypeOK
        <5>2. i # NoId
          BY <5>1 DEF NoId
        <5> QED BY <1>3, <3>4, <5>2 DEF IInv, RowsNameCopies
      <4>2. Found(rows[m])
        BY <1>3, <3>4, <4>1 DEF WellFormed
      <4>3. rows[m].state.content # op.state.content
        BY <1>2, <4>2 DEF WritePending, Unchanged, Same
      <4>4. base[m] # st[1] /\ base[m] <= st[1]
        BY <1>6, <4>2, <4>3 DEF Placed
      <4> QED BY <1>6, <1>7, <1>8, <3>1, <3>2, <4>1, <4>4
    <3> QED BY <3>3, <3>4
  <2> QED BY <1>3, <1>4, <1>5, <2>1, <2>2 DEF Charged, Due, At
<1>11. ASSUME NEW i \in DOMAIN queue, NEW later \in OpType, i > 1, later = queue[i], later.kind # "delete"
       PROVE  Placed(later, st[i], base2)'
  <2>1. Placed(later, st[i], base) /\ st[i] \in Nat /\ later.msg \in Messages
    BY <1>1, <1>11 DEF Stamped, InLine, OpType
  <2>2. CASE later.msg # m
    BY <1>4, <1>7, <2>1, <2>2 DEF Placed
  <2>3. CASE later.msg = m
    <3>1. st[1] <= st[i] /\ (st[1] = st[i] => op.state.content = later.state.content)
      BY <1>1, <1>3, <1>11, <2>3 DEF Stamped, InOrder
    <3> QED BY <1>4, <1>5, <1>7, <2>1, <2>3, <3>1 DEF Placed
  <2> QED BY <2>2, <2>3
<1>12. Take /\ InOrder(st) /\ UNCHANGED <<posted, changes>>
  BY <1>1, <1>4 DEF WritePending, Stamped
<1> QED BY <1>9, <1>10, <1>11, <1>12, TakeStamps

(* A copy that is edited was due to be; a new one was edited never.         *)
LEMMA SentCharged ==
  ASSUME IInv, NEW base \in [Messages -> Nat], Charged(base), Applies("create"), NEW quoted \in BOOLEAN,
         Sent(worker.op, quoted), worker'.pc # "apply"
  PROVE  Charged(base)'
<1>1. /\ worker.op.kind # "delete" /\ At("apply") /\ worker.op \in OpType
  BY Verbs DEF IInv, HasOp, At
<1> DEFINE copy == [msg |-> worker.op.msg, content |-> worker.op.state.content, gif |-> worker.op.gif,
                    files |-> worker.op.files, reply |-> Linked(worker.op), quotes |-> quoted,
                    edits |-> 0, live |-> TRUE]
<1>2. copies' = Append(copies, copy) /\ Len(copies) \in Nat /\ DOMAIN copies = 1..Len(copies)
  BY DEF Sent, IInv, TypeOK
<1>3. /\ \A i \in DOMAIN copies : copies'[i] = copies[i]
      /\ copies'[Len(copies) + 1] = copy /\ DOMAIN copies' = 1..(Len(copies) + 1)
  BY <1>2 DEF IInv, TypeOK
<1>4. base[worker.op.msg] \in Nat /\ (worker.op.gif \/ base[worker.op.msg] >= 1)
  BY <1>1 DEF Charged, OpType
<1>5. ASSUME NEW i \in DOMAIN copies'
      PROVE  copies'[i].edits + (IF copies'[i].gif THEN 0 ELSE 1) <= base[copies'[i].msg]
  <2>1. CASE i \in DOMAIN copies
    <3>1. copies[i].edits \in Nat /\ copies[i].msg \in Messages
      BY <2>1, CopyTyped DEF IInv, CopyType
    <3>2. copies[i].edits + Due(i) + (IF copies[i].gif THEN 0 ELSE 1) <= base[copies[i].msg]
      BY <2>1 DEF Charged
    <3>3. Due(i) \in {0, 1}
      BY DEF Due
    <3>4. copies'[i] = copies[i] /\ base[copies[i].msg] \in Nat
      BY <2>1, <3>1, <1>3
    <3> QED BY <3>1, <3>2, <3>3, <3>4
  <2>2. CASE i = Len(copies) + 1
    BY <2>2, <1>3, <1>4
  <2> QED BY <2>1, <2>2, <1>2, <1>3
<1>6. \A i \in DOMAIN copies' : copies'[i].edits \in Nat
  <2>1. \A i \in DOMAIN copies : copies[i].edits \in Nat
    BY CopyTyped DEF IInv, CopyType
  <2> QED BY <2>1, <1>2, <1>3
<1> QED BY <1>5, <1>6 DEF Charged, Due, At

LEMMA NextStamps ==
  ASSUME IInv, WellFormed, Stamps, Racing = FALSE, [Next]_vars
  PROVE  Stamps'
<1>1. ASSUME NEW m \in Messages, Discord(m) PROVE Stamps'
  BY <1>1, DiscordStamps
<1>2. PICK st \in [DOMAIN queue -> Nat], base \in [Messages -> Nat] : Stamped(st, base)
  BY DEF Stamps
<1>3. /\ \A i \in DOMAIN copies : copies[i].edits \in Nat /\ copies[i].msg \in Messages
      /\ \A i \in DOMAIN copies : base[copies[i].msg] \in Nat /\ Due(i) \in {0, 1}
      /\ worker \in [pc : {"idle", "apply", "confirm", "remove"}, op : OpType \cup {Null}, id : Nat]
  BY CopyTyped DEF IInv, CopyType, Due, TypeOK
<1>4. worker'.pc # "apply" /\ copies' = copies => Charged(base)'
  BY <1>2, <1>3 DEF Stamped, Charged, Due, At
<1>5. UNCHANGED <<posted, changes, queue, rows>> /\ Charged(base)' => Stamps'
  BY <1>2, KeepStamps
<1>6. CASE Skip \/ BeginDelete
  <2>1. Take /\ UNCHANGED <<posted, changes, rows, copies>> /\ At("idle")
    BY <1>6 DEF Skip, BeginDelete, Take, discord
  <2>2. Known(base)' /\ InOrder(st)
    BY <1>2, <2>1 DEF Stamped, Known
  <2>3. worker' = worker \/ worker'.op.kind = "delete"
    BY <1>6 DEF Skip, BeginDelete, Idle
  <2>4. Charged(base)'
    BY <1>2, <1>3, <2>1, <2>3 DEF Stamped, Charged, Due, At
  <2>5. \A i \in DOMAIN queue, op \in OpType :
          i > 1 /\ op = queue[i] /\ op.kind # "delete" => Placed(op, st[i], base)'
    BY <1>2, <2>1 DEF Stamped, InLine, Placed
  <2> QED BY <2>1, <2>2, <2>4, <2>5, TakeStamps
<1>7. CASE WritePending
  BY <1>7, WritePendingStamps
<1>8. CASE EditMessage
  <2> DEFINE id == Row.id
  <2>1. At("apply") /\ worker.op.kind # "delete" /\ id # NoId
    BY <1>8, Verbs DEF EditMessage, HasStoatEntity
  <2>2. id \in DOMAIN copies /\ worker.op.msg \in Messages
    BY <2>1 DEF IInv, HasOp, RowsNameCopies, TypeOK, Row, OpType, At
  <2>3. /\ copies' = [copies EXCEPT ![id] = Edited(copies[id], worker.op.state.content)]
        /\ worker'.pc = "confirm" /\ UNCHANGED <<posted, changes, queue, rows>>
    BY <1>3, <1>8 DEF EditMessage, discord
  <2>4. /\ copies[id] \in CopyType /\ Due(id) = 1
    BY <2>1, <2>2, CopyTyped DEF IInv, Due, Row
  <2>5. /\ copies'[id].edits = copies[id].edits + 1 /\ copies'[id].msg = copies[id].msg
        /\ copies'[id].gif = copies[id].gif /\ DOMAIN copies' = DOMAIN copies
        /\ \A i \in DOMAIN copies \ {id} : copies'[i] = copies[i]
    BY <2>2, <2>3, <2>4 DEF Edited, CopyType, IInv, TypeOK
  <2>6. ASSUME NEW i \in DOMAIN copies
        PROVE  copies'[i].edits + 0 + (IF copies'[i].gif THEN 0 ELSE 1) <= base[copies'[i].msg]
    <3>1. copies[i].edits + Due(i) + (IF copies[i].gif THEN 0 ELSE 1) <= base[copies[i].msg]
      BY <1>2 DEF Stamped, Charged
    <3> QED BY <1>3, <2>4, <2>5, <3>1
  <2>7. Charged(base)'
    BY <2>3, <2>5, <2>6 DEF Charged, Due, At
  <2> QED BY <1>5, <2>3, <2>7
<1>9. CASE SendMessage
  <2>1. /\ Applies("create") /\ Sent(worker.op, Quotable(worker.op)) /\ Quotable(worker.op) \in BOOLEAN
        /\ UNCHANGED <<posted, changes, queue, rows>>
    BY <1>9 DEF SendMessage, discord, Quotable
  <2>2. worker'.pc = "confirm"
    BY <1>3, <1>9 DEF SendMessage
  <2>3. Charged(base)'
    BY <1>2, <2>1, <2>2, SentCharged DEF Stamped
  <2> QED BY <1>5, <2>1, <2>3
<1>10. CASE DeleteMessage
  <2>1. /\ worker'.pc = "remove" /\ UNCHANGED <<posted, changes, queue, rows>>
        /\ copies' = IF Active(Row) THEN [copies EXCEPT ![Row.id].live = FALSE] ELSE copies
    BY <1>3, <1>10 DEF DeleteMessage, discord
  <2>2. /\ DOMAIN copies' = DOMAIN copies
        /\ \A i \in DOMAIN copies :
             /\ copies'[i].edits = copies[i].edits /\ copies'[i].msg = copies[i].msg
             /\ copies'[i].gif = copies[i].gif
    <3>1. \A i \in DOMAIN copies : copies[i] \in CopyType
      BY CopyTyped DEF IInv
    <3> QED BY <2>1, <3>1 DEF CopyType, IInv, TypeOK
  <2>3. Charged(base)'
    BY <1>2, <1>3, <2>1, <2>2 DEF Stamped, Charged, Due, At
  <2> QED BY <1>5, <2>1, <2>3
<1>11. CASE Confirm \/ Remove
  <2> DEFINE m == worker.op.msg
  <2>1. /\ worker' = Idle /\ m \in Messages /\ UNCHANGED <<posted, changes, queue, copies>>
        /\ \A k \in Messages \ {m} : rows'[k] = rows[k]
        /\ rows'[m] = Absent \/ rows'[m] = ConfirmedRow(rows[m], worker.id)
    BY <1>11 DEF Confirm, Remove, At, discord, IInv, HasOp, OpType, TypeOK
  <2>2. \A k \in Messages : Found(rows'[k]) => Found(rows[k]) /\ rows'[k].state = rows[k].state
    <3>1. rows[m] \in MessageRow
      BY <2>1 DEF IInv, TypeOK
    <3>2. CASE rows'[m] = Absent
      BY <2>1, <3>2 DEF Found, Absent
    <3>3. CASE rows'[m] = ConfirmedRow(rows[m], worker.id)
      <4>1. Found(rows'[m]) => Found(rows[m])
        BY <3>3 DEF ConfirmedRow
      <4>2. rows'[m].state = rows[m].state
        BY <3>1, <3>3 DEF ConfirmedRow, MessageRow
      <4> QED BY <2>1, <4>1, <4>2
    <3> QED BY <2>1, <3>2, <3>3
  <2>3. Charged(base)'
    BY <1>4, <2>1 DEF Idle
  <2> QED BY <1>2, <2>1, <2>2, <2>3, KeepStamps
<1>12. CASE Fails
  <2>1. /\ worker' = Idle /\ UNCHANGED <<posted, changes, queue, rows>>
        /\ UNCHANGED copies \/ (Applies("create") /\ Sent(worker.op, FALSE))
    BY <1>12 DEF Fails, discord
  <2>2. Charged(base)'
    BY <1>2, <1>4, <2>1, SentCharged DEF Stamped, Idle
  <2> QED BY <1>5, <2>1, <2>2
<1>13. CASE Restart
  <2>1. /\ worker' = Idle /\ UNCHANGED <<posted, changes, rows, copies>> /\ DOMAIN queue' = {}
    BY <1>13 DEF Restart, discord
  <2>2. PICK none \in [DOMAIN queue' -> Nat] : none = [i \in DOMAIN queue' |-> 0]
    OBVIOUS
  <2>3. Known(base)' /\ InLine(none, base)' /\ InOrder(none)'
    BY <1>2, <2>1 DEF Stamped, Known, InLine, InOrder
  <2>4. Charged(base)'
    BY <1>4, <2>1 DEF Idle
  <2> QED BY <2>2, <2>3, <2>4 DEF Stamps, Stamped
<1>14. CASE UNCHANGED vars
  <2>1. UNCHANGED <<posted, changes, queue, rows, copies, worker>>
    BY <1>14 DEF vars, discord
  <2>2. Charged(base)'
    BY <1>2, <2>1 DEF Stamped, Charged, Due, At
  <2> QED BY <1>5, <2>1, <2>2
<1> QED BY <1>1, <1>6, <1>7, <1>8, <1>9, <1>10, <1>11, <1>12, <1>13, <1>14 DEF Next, Discord

(* Previews cost Stoat nothing: whatever is repeated, fails or is lost, a   *)
(* copy is edited as often as a user edits its message at most (Diff        *)
(* compares the content, BuildMessageOp skips what has none), as long as    *)
(* handlers do not overtake each other.                                     *)
THEOREM PreviewsCostNothing ==
  ASSUME Racing = FALSE
  PROVE  Spec => []PreviewsEditNothing
<1> DEFINE Inv == IInv /\ WellFormed /\ Stamps
<1>1. Init => Inv                    BY InitIInv, InitWellFormed, InitStamps
<1>2. Inv /\ [Next]_vars => Inv'     BY NextIInv, StutterIInv, NextWellFormed, NextStamps
<1>3. Inv => PreviewsEditNothing
  <2> SUFFICES ASSUME Inv, NEW i \in DOMAIN copies
               PROVE  copies[i].edits <= changes[copies[i].msg] + (IF copies[i].gif THEN 1 ELSE 0)
    BY DEF PreviewsEditNothing
  <2>1. PICK st \in [DOMAIN queue -> Nat], base \in [Messages -> Nat] : Stamped(st, base)
    BY DEF Stamps
  <2> DEFINE m == copies[i].msg
  <2>2. m \in Messages /\ copies[i].edits \in Nat /\ changes[m] \in Nat
    BY CopyTyped DEF IInv, TypeOK, CopyType
  <2>3. base[m] <= changes[m] + 1 /\ base[m] \in Nat
    BY <2>1, <2>2 DEF Stamped, Known
  <2>4. copies[i].edits + Due(i) + (IF copies[i].gif THEN 0 ELSE 1) <= base[m] /\ Due(i) \in {0, 1}
    BY <2>1 DEF Stamped, Charged, Due
  <2> QED BY <2>2, <2>3, <2>4
<1> QED BY <1>1, <1>2, <1>3, PTL DEF Spec

-----------------------------------------------------------------------------
(* The copy a message has, or is about to have.                             *)
Current(m) == IF Working(m) /\ At("confirm") THEN worker.id ELSE rows[m].id

HasGif(m) == IF Current(m) = NoId THEN worker.op.gif ELSE copies[Current(m)].gif

Shows(m, content, gif) ==
  content.text = posted[m].content.text /\ (posted[m].content.link => content.link \/ gif)

(* A create is the first op of its message, and no op of it but a delete    *)
(* is for one that is gone.                                                 *)
CreatesFirst(m) ==
  \A i \in DOMAIN queue : queue[i].msg = m =>
    /\ queue[i].kind # "delete"
    /\ queue[i].kind = "create" => ~Found(rows[m]) /\ \A j \in DOMAIN queue : j < i => queue[j].msg # m

(* A message's row says what its copy shows, or will.                       *)
RowTold(m) ==
  /\ Working(m) => worker.op.kind # "delete" /\ ~At("remove")
                   /\ Found(rows[m]) /\ rows[m].state = worker.op.state
  /\ Working(m) /\ At("apply") /\ worker.op.gif => rows[m].id = NoId
  /\ Found(rows[m]) /\ Current(m) = NoId => Working(m) /\ At("apply")
  /\ Current(m) # NoId => copies[Current(m)].live
  /\ Found(rows[m]) /\ ~(Working(m) /\ At("apply")) => copies[Current(m)].content = rows[m].state.content

LastIs(m, i) == queue[i].msg = m /\ \A j \in DOMAIN queue : j > i => queue[j].msg # m

(* The last that is queued of a message, or else its row, says what it is.  *)
UpToDate(m) ==
  \/ \E i \in DOMAIN queue : LastIs(m, i) /\ Shows(m, queue[i].state.content, queue[i].gif)
  \/ /\ \A i \in DOMAIN queue : queue[i].msg # m
     /\ Found(rows[m]) /\ Shows(m, rows[m].state.content, HasGif(m))

Faithful(m) ==
  CreatesFirst(m) /\ RowTold(m) /\ (posted[m].content # Blank => UpToDate(m))

AllFaithful == Perfect => \A m \in Messages : There(m) => Faithful(m)

LEMMA ToldFaithful ==
  ASSUME IInv, WellFormed, Racing = FALSE, NEW m \in Messages, Discord(m),
         NEW kind \in {"create", "update"}, Told(m, kind),
         posted[m].status = "unsent" \/ (kind = "update" /\ CreatesFirst(m)),
         posted'[m].content \in Content
  PROVE  CreatesFirst(m)' /\ UpToDate(m)'
<1> DEFINE n == Len(queue)
<1>1. PICK op \in OpType :
        /\ op.msg = m /\ op.kind = kind /\ (op.gif => kind = "create")
        /\ DOMAIN queue' = 1..(n + 1) /\ queue'[n + 1] = op
        /\ \A i \in DOMAIN queue : queue'[i] = queue[i]
        /\ kind # "delete" => /\ op.state.content.text = posted'[m].content.text
                              /\ ~op.gif => op.state.content = posted'[m].content
  BY DEF Told
<1>2. n \in Nat /\ DOMAIN queue = 1..n /\ rows' = rows
  BY DiscordIs
<1>3. Shows(m, op.state.content, op.gif)'
  BY <1>1 DEF Shows
<1>4. PICK last \in Nat : last = n + 1
  BY <1>2
<1>5. UpToDate(m)'
  <2>1. LastIs(m, last)' /\ last \in DOMAIN queue' /\ queue'[last] = op
    BY <1>1, <1>2, <1>4 DEF LastIs
  <2> QED BY <1>3, <2>1 DEF UpToDate, Shows
<1>6. CreatesFirst(m)'
  <2>1. CASE posted[m].status = "unsent"
    <3>1. ~Found(rows[m]) /\ \A i \in DOMAIN queue : queue[i].msg # m
      BY <2>1 DEF WellFormed
    <3> QED BY <1>1, <1>2, <3>1 DEF CreatesFirst
  <2>2. CASE kind = "update" /\ CreatesFirst(m)
    BY <1>1, <1>2, <2>2 DEF CreatesFirst
  <2> QED BY <2>1, <2>2
<1> QED BY <1>5, <1>6

LEMMA DiscordFaithful ==
  ASSUME IInv, WellFormed, AllFaithful, Racing = FALSE, NEW m \in Messages, Discord(m)
  PROVE  AllFaithful'
<1> SUFFICES ASSUME Perfect', NEW k \in Messages, There(k)' PROVE Faithful(k)'
  BY DEF AllFaithful
<1>1. /\ Begun(m) \/ Altered(m) \/ Touched(m) \/ Erased(m)
      /\ UNCHANGED <<worker, rows, copies, mishaps>>
      /\ \A j \in Messages \ {m} : posted'[j] = posted[j] /\ changes'[j] = changes[j]
      /\ Len(queue) \in Nat /\ DOMAIN queue = 1..Len(queue)
      /\ Silent \/ \E kind \in {"create", "update", "delete"} : Told(m, kind)
  BY DiscordIs
<1>2. There(k) => Faithful(k)
  BY <1>1 DEF AllFaithful, Perfect
<1>3. /\ Current(k)' = Current(k) /\ HasGif(k)' = HasGif(k) /\ Working(k)' = Working(k)
      /\ RowTold(k) => RowTold(k)'
  BY <1>1 DEF Current, HasGif, Working, At, RowTold
<1>4. posted'[k].content \in Content
  <2>1. posted' \in [Messages -> PostType]
    BY NextIInv DEF IInv, TypeOK, Next, Discord
  <2> QED BY <2>1, MessagesAssumption DEF PostType
<1>5. CASE k # m
  <2>1. There(k) /\ posted'[k] = posted[k]
    BY <1>1, <1>5 DEF There
  <2>2. CASE Silent
    BY <1>1, <1>2, <1>3, <2>1, <2>2
       DEF Silent, Faithful, CreatesFirst, UpToDate, LastIs, Shows
  <2>3. ASSUME NEW kind \in {"create", "update", "delete"}, Told(m, kind) PROVE Faithful(k)'
    <3>1. PICK op \in OpType :
            /\ op.msg = m /\ DOMAIN queue' = 1..(Len(queue) + 1) /\ queue'[Len(queue) + 1] = op
            /\ \A i \in DOMAIN queue : queue'[i] = queue[i]
      BY <2>3 DEF Told
    <3>2. \A i \in DOMAIN queue' : i \in DOMAIN queue \/ (i = Len(queue) + 1 /\ queue'[i].msg # k)
      BY <1>1, <1>5, <3>1
    <3>3. CreatesFirst(k)'
      BY <1>1, <1>2, <2>1, <3>1, <3>2 DEF Faithful, CreatesFirst
    <3>4. ASSUME UpToDate(k) PROVE UpToDate(k)'
      <4>1. ASSUME NEW i \in DOMAIN queue, LastIs(k, i), Shows(k, queue[i].state.content, queue[i].gif)
            PROVE  UpToDate(k)'
        <5>1. i \in DOMAIN queue' /\ queue'[i] = queue[i]
          BY <1>1, <3>1
        <5>2. queue'[i].msg = k /\ \A j \in DOMAIN queue' : j > i => queue'[j].msg # k
          BY <3>1, <3>2, <4>1, <5>1 DEF LastIs
        <5> QED BY <2>1, <4>1, <5>1, <5>2 DEF UpToDate, LastIs, Shows
      <4>2. CASE /\ \A i \in DOMAIN queue : queue[i].msg # k
                 /\ Found(rows[k]) /\ Shows(k, rows[k].state.content, HasGif(k))
        <5>1. \A i \in DOMAIN queue' : queue'[i].msg # k
          BY <3>1, <3>2, <4>2
        <5> QED BY <1>1, <1>3, <2>1, <4>2, <5>1 DEF UpToDate, Shows
      <4> QED BY <3>4, <4>1, <4>2 DEF UpToDate
    <3> QED BY <1>2, <1>3, <2>1, <3>3, <3>4 DEF Faithful
  <2> QED BY <1>1, <2>2, <2>3
<1>6. CASE k = m
  <2>1. CASE Begun(m)
    <3>1. ~Found(rows[m]) /\ rows[m].id = NoId /\ ~Working(m) /\ \A i \in DOMAIN queue : queue[i].msg # m
      BY <2>1 DEF Begun, WellFormed
    <3>2. RowTold(m)
      BY <3>1 DEF RowTold, Current
    <3>3. CASE Silent /\ posted'[m].content = Blank
      <4>1. CreatesFirst(m)'
        BY <3>1, <3>3 DEF Silent, CreatesFirst
      <4> QED BY <1>3, <1>6, <3>2, <3>3, <4>1 DEF Faithful
    <3>4. CASE Told(m, "create")
      BY <1>3, <1>4, <1>6, <2>1, <3>2, <3>4, ToldFaithful DEF Begun, Faithful
    <3> QED BY <2>1, <3>3, <3>4 DEF Begun
  <2>2. CASE Altered(m) \/ Touched(m)
    <3>1. Faithful(m)
      BY <1>2, <1>6, <2>2 DEF Altered, Touched
    <3>2. CASE Told(m, "update")
      BY <1>3, <1>4, <1>6, <3>1, <3>2, ToldFaithful DEF Faithful
    <3>3. CASE Silent /\ (posted'[m].content = Blank \/ posted'[m] = posted[m])
      <4>1. CreatesFirst(m)' /\ (UpToDate(m) /\ posted'[m] = posted[m] => UpToDate(m)')
        BY <1>1, <1>3, <1>6, <3>1, <3>3
           DEF Silent, Faithful, CreatesFirst, UpToDate, LastIs, Shows
      <4> QED BY <1>3, <1>6, <3>1, <3>3, <4>1 DEF Faithful
    <3> QED BY <2>2, <3>2, <3>3 DEF Altered, Touched
  <2>3. CASE Erased(m)
    BY <1>6, <2>3 DEF Erased, There
  <2> QED BY <1>1, <2>1, <2>2, <2>3
<1> QED BY <1>5, <1>6

(* The worker takes an op: what is queued after it stays so.                *)
LEMMA TakenFaithful ==
  ASSUME IInv, Take, UNCHANGED posted, NEW m \in Messages, CreatesFirst(m),
         Found(rows'[m]) => Found(rows[m]) \/ Head(queue).msg = m
  PROVE  /\ CreatesFirst(m)'
         /\ \A i \in DOMAIN queue :
              i > 1 /\ LastIs(m, i) /\ Shows(m, queue[i].state.content, queue[i].gif) => UpToDate(m)'
         /\ LastIs(m, 1) \/ (\A i \in DOMAIN queue : queue[i].msg # m) =>
              \A i \in DOMAIN queue' : queue'[i].msg # m
<1>1. /\ Len(queue) \in Nat /\ DOMAIN queue = 1..Len(queue) /\ Len(queue) >= 1
      /\ DOMAIN queue' = 1..(Len(queue) - 1) /\ Head(queue) = queue[1]
      /\ \A i \in DOMAIN queue' : i + 1 \in DOMAIN queue /\ queue'[i] = queue[i + 1]
  BY Advanced DEF IInv, TypeOK
<1>2. CreatesFirst(m)'
  <2> SUFFICES ASSUME NEW i \in DOMAIN queue', queue'[i].msg = m
               PROVE  /\ queue'[i].kind # "delete"
                      /\ queue'[i].kind = "create" =>
                           ~Found(rows'[m]) /\ \A j \in DOMAIN queue' : j < i => queue'[j].msg # m
    BY DEF CreatesFirst
  <2>1. /\ i + 1 \in DOMAIN queue /\ queue'[i] = queue[i + 1] /\ 1 < i + 1
        /\ \A j \in DOMAIN queue' : j < i => j + 1 \in DOMAIN queue /\ queue'[j] = queue[j + 1] /\ j + 1 < i + 1
    BY <1>1
  <2>2. /\ queue[i + 1].kind # "delete"
        /\ queue[i + 1].kind = "create" =>
             ~Found(rows[m]) /\ \A j \in DOMAIN queue : j < i + 1 => queue[j].msg # m
    BY <2>1 DEF CreatesFirst
  <2> QED BY <1>1, <2>1, <2>2
<1>3. ASSUME NEW i \in DOMAIN queue, i > 1, LastIs(m, i), Shows(m, queue[i].state.content, queue[i].gif)
      PROVE  UpToDate(m)'
  <2>1. PICK h \in Nat : h = i - 1
    BY <1>1, <1>3
  <2>2. h \in DOMAIN queue' /\ queue'[h] = queue[i]
    BY <1>1, <1>3, <2>1
  <2>3. ASSUME NEW j \in DOMAIN queue', j > h PROVE queue'[j].msg # m
    <3>1. j + 1 \in DOMAIN queue /\ j + 1 > i /\ queue'[j] = queue[j + 1]
      BY <1>1, <1>3, <2>1, <2>3
    <3> QED BY <1>3, <3>1 DEF LastIs
  <2>4. LastIs(m, h)'
    BY <1>3, <2>2, <2>3 DEF LastIs
  <2> QED BY <1>3, <2>2, <2>4 DEF UpToDate, Shows
<1>4. ASSUME LastIs(m, 1) \/ (\A i \in DOMAIN queue : queue[i].msg # m), NEW i \in DOMAIN queue'
      PROVE  queue'[i].msg # m
  <2>1. i + 1 \in DOMAIN queue /\ i + 1 > 1 /\ queue'[i] = queue[i + 1]
    BY <1>1
  <2> QED BY <1>4, <2>1 DEF LastIs
<1> QED BY <1>2, <1>3, <1>4

(* A message that the worker is not on.                                     *)
LEMMA OtherFaithful ==
  ASSUME IInv, UNCHANGED posted, NEW m \in Messages, Faithful(m), ~Working(m), ~Working(m)',
         rows'[m] = rows[m],
         rows[m].id # NoId => /\ copies'[rows[m].id].live = copies[rows[m].id].live
                              /\ copies'[rows[m].id].content = copies[rows[m].id].content
                              /\ copies'[rows[m].id].gif = copies[rows[m].id].gif,
         queue' = queue \/ (Take /\ Head(queue).msg # m)
  PROVE  Faithful(m)'
<1>1. Current(m) = rows[m].id /\ Current(m)' = rows[m].id
  BY DEF Current
<1>2. RowTold(m)'
  BY <1>1 DEF Faithful, RowTold
<1>3. Found(rows[m]) => HasGif(m)' = HasGif(m)
  BY <1>1 DEF Faithful, RowTold, HasGif
<1>4. CASE queue' = queue
  BY <1>2, <1>3, <1>4 DEF Faithful, CreatesFirst, UpToDate, LastIs, Shows
<1>5. CASE Take /\ Head(queue).msg # m
  <2>1. 1 \in DOMAIN queue /\ Head(queue) = queue[1] /\ \A i \in DOMAIN queue : i = 1 \/ i > 1
    BY <1>5, Advanced DEF IInv, TypeOK
  <2>2. CreatesFirst(m)'
    BY <1>5, TakenFaithful DEF Faithful
  <2>3. ASSUME UpToDate(m) PROVE UpToDate(m)'
    <3>1. CASE \E i \in DOMAIN queue : LastIs(m, i) /\ Shows(m, queue[i].state.content, queue[i].gif)
      BY <1>5, <2>1, <3>1, TakenFaithful DEF Faithful, LastIs
    <3>2. CASE /\ \A i \in DOMAIN queue : queue[i].msg # m
               /\ Found(rows[m]) /\ Shows(m, rows[m].state.content, HasGif(m))
      <4>1. \A i \in DOMAIN queue' : queue'[i].msg # m
        BY <1>5, <3>2, TakenFaithful DEF Faithful
      <4> QED BY <1>3, <3>2, <4>1 DEF UpToDate, Shows
    <3> QED BY <2>3, <3>1, <3>2 DEF UpToDate
  <2> QED BY <1>2, <2>2, <2>3 DEF Faithful
<1> QED BY <1>4, <1>5

(* An op the row says already is not needed; any other is now the worker's. *)
LEMMA TakeFaithful ==
  ASSUME IInv, WellFormed, AllFaithful, Skip \/ WritePending \/ BeginDelete
  PROVE  AllFaithful'
<1> SUFFICES ASSUME Perfect', NEW m \in Messages, There(m)' PROVE Faithful(m)'
  BY DEF AllFaithful
<1>1. PICK op : op = Head(queue)
  OBVIOUS
<1>2. /\ Take /\ op \in OpType /\ op.msg \in Messages /\ At("idle") /\ 1 \in DOMAIN queue /\ op = queue[1]
      /\ UNCHANGED <<posted, copies, mishaps>> /\ \A i \in DOMAIN queue : i = 1 \/ i > 1
  <2>1. Take /\ At("idle") /\ UNCHANGED <<posted, copies, mishaps>>
    BY DEF Skip, WritePending, BeginDelete, Take, discord
  <2>2. op \in OpType /\ op.msg \in Messages
    BY <1>1, <2>1, TakeTyped DEF OpType
  <2>3. 1 \in DOMAIN queue /\ op = queue[1] /\ \A i \in DOMAIN queue : i = 1 \/ i > 1
    BY <1>1, <2>1, Advanced DEF IInv, TypeOK
  <2> QED BY <2>1, <2>2, <2>3
<1>3. Faithful(m) /\ posted[m] = posted'[m]
  BY <1>2 DEF AllFaithful, Perfect, There
<1>4. \/ worker' = worker /\ rows' = rows
      \/ worker'.op = op /\ rows' = rows /\ op.kind = "delete"
      \/ worker'.op = op /\ WritePending
  BY <1>1 DEF Skip, BeginDelete, WritePending, Idle
<1>5. CASE op.msg # m
  <2>1. ~Working(m) /\ ~Working(m)'
    BY <1>2, <1>4, <1>5 DEF Working, At
  <2>2. rows'[m] = rows[m]
    BY <1>1, <1>2, <1>4, <1>5 DEF WritePending, IInv, TypeOK
  <2> QED BY <1>1, <1>2, <1>3, <1>5, <2>1, <2>2, OtherFaithful
<1>6. CASE op.msg = m
  <2>1. op.kind # "delete" /\ (op.kind = "create" => ~Found(rows[m])) /\ (op.gif => op.kind = "create")
    BY <1>2, <1>3, <1>6 DEF Faithful, CreatesFirst, WellFormed
  <2>2. CreatesFirst(m)'
    BY <1>1, <1>2, <1>3, <1>6, TakenFaithful DEF Faithful
  <2>3. /\ \A i \in DOMAIN queue :
             i > 1 /\ LastIs(m, i) /\ Shows(m, queue[i].state.content, queue[i].gif) => UpToDate(m)'
        /\ LastIs(m, 1) => \A i \in DOMAIN queue' : queue'[i].msg # m
    BY <1>1, <1>2, <1>3, <1>6, TakenFaithful DEF Faithful
  <2>4. Current(m) = rows[m].id /\ ~Working(m)
    BY <1>2 DEF Current, Working
  <2>5. posted[m].content # Blank =>
          UpToDate(m)' \/ (LastIs(m, 1) /\ Shows(m, op.state.content, op.gif))
    BY <1>2, <1>3, <1>6, <2>3 DEF Faithful, UpToDate
  <2>6. CASE worker' = worker /\ rows' = rows /\ Skip
    <3>1. Found(rows[m]) /\ rows[m].state.content = op.state.content
      BY <1>1, <1>6, <2>6 DEF Skip, Unchanged, Same
    <3>2. RowTold(m)' /\ HasGif(m)' = HasGif(m)
      BY <1>2, <1>3, <2>6 DEF Faithful, RowTold, Working, Current, At, HasGif
    <3>3. ASSUME LastIs(m, 1), Shows(m, op.state.content, op.gif) PROVE UpToDate(m)'
      <4>1. Shows(m, rows[m].state.content, HasGif(m))
        BY <2>1, <3>1, <3>3 DEF Shows
      <4> QED BY <1>3, <2>3, <2>6, <3>1, <3>2, <3>3, <4>1 DEF UpToDate, Shows
    <3> QED BY <1>3, <2>2, <2>5, <3>2, <3>3 DEF Faithful
  <2>7. CASE WritePending
    <3>1. /\ rows'[m] = PendingMessageRow(rows[m], op.state, Channel)
          /\ worker'.pc = "apply" /\ worker'.op = op
      BY <1>1, <1>6, <2>7 DEF WritePending, Idle, IInv, TypeOK
    <3>2. /\ Found(rows'[m]) /\ rows'[m].state = op.state /\ rows'[m].id = rows[m].id
          /\ Working(m)' /\ At("apply")' /\ Current(m)' = rows[m].id
      BY <1>6, <3>1 DEF PendingMessageRow, Found, Working, At, Current
    <3>3. op.gif => rows[m].id = NoId
      BY <2>1 DEF WellFormed
    <3>4. RowTold(m)'
      <4>1. rows[m].id # NoId => copies[rows[m].id].live
        BY <1>3, <2>4 DEF Faithful, RowTold
      <4>2. ~At("remove")'
        BY <3>1 DEF At
      <4> QED BY <1>2, <2>1, <3>1, <3>2, <3>3, <4>1, <4>2 DEF RowTold
    <3>5. ASSUME LastIs(m, 1), Shows(m, op.state.content, op.gif) PROVE UpToDate(m)'
      <4>1. op.gif => HasGif(m)' = op.gif
        BY <3>1, <3>2, <3>3 DEF HasGif
      <4>2. Shows(m, rows[m].state.content, HasGif(m))'
        BY <1>3, <3>2, <3>5, <4>1 DEF Shows
      <4> QED BY <2>3, <3>2, <3>5, <4>2 DEF UpToDate
    <3> QED BY <1>3, <2>2, <2>5, <3>4, <3>5 DEF Faithful
  <2> QED BY <1>1, <2>1, <2>6, <2>7 DEF Skip, BeginDelete
<1> QED BY <1>5, <1>6

(* The worker writes to Stoat, or the answer to the row.                    *)
LEMMA WorkFaithful ==
  ASSUME IInv, WellFormed, AllFaithful,
         EditMessage \/ SendMessage \/ DeleteMessage \/ Confirm \/ Remove
  PROVE  AllFaithful'
<1> SUFFICES ASSUME Perfect', NEW m \in Messages, There(m)' PROVE Faithful(m)'
  BY DEF AllFaithful
<1> DEFINE p == worker.op.msg
<1>1. /\ UNCHANGED <<posted, queue, mishaps>> /\ ~At("idle")
      /\ worker.op \in OpType /\ p \in Messages
      /\ worker \in [pc : {"idle", "apply", "confirm", "remove"}, op : OpType \cup {Null}, id : Nat]
      /\ copies \in Seq(CopyType) /\ Len(copies) \in Nat /\ DOMAIN copies = 1..Len(copies)
  BY DEF EditMessage, SendMessage, DeleteMessage, Confirm, Remove, Applies, At, discord,
         IInv, HasOp, OpType, TypeOK
<1>2. Faithful(m) /\ posted[m] = posted'[m]
  BY <1>1 DEF AllFaithful, Perfect, There
<1>3. /\ \A k \in Messages : rows[k].id # NoId => rows[k].id \in DOMAIN copies /\ copies[rows[k].id].msg = k
      /\ \A i \in DOMAIN copies : copies[i] \in CopyType /\ i # NoId
      /\ rows[p] \in MessageRow
  BY <1>1, CopyTyped DEF IInv, RowsNameCopies, TypeOK, NoId
<1>4. worker'.op = worker.op \/ worker' = Idle
  BY <1>1 DEF EditMessage, SendMessage, DeleteMessage, Confirm, Remove
<1>5. \A k \in Messages \ {p} : rows'[k] = rows[k]
  BY <1>1 DEF EditMessage, SendMessage, DeleteMessage, Confirm, Remove, IInv, TypeOK
<1>6. CASE p # m
  <2>1. ~Working(m) /\ ~Working(m)'
    BY <1>4, <1>6 DEF Working, At, Idle
  <2>2. ASSUME rows[m].id # NoId PROVE copies'[rows[m].id] = copies[rows[m].id]
    <3>1. rows[m].id \in DOMAIN copies /\ rows[m].id # rows[p].id
      BY <1>1, <1>3, <1>6, <2>2
    <3>2. CASE EditMessage
      BY <1>1, <3>1, <3>2 DEF EditMessage, Row
    <3>3. CASE SendMessage
      BY <1>1, <3>1, <3>3 DEF SendMessage, Sent
    <3>4. CASE DeleteMessage
      BY <1>1, <3>1, <3>4 DEF DeleteMessage, Row
    <3>5. CASE Confirm \/ Remove
      BY <3>5 DEF Confirm, Remove
    <3> QED BY <3>2, <3>3, <3>4, <3>5
  <2> QED BY <1>1, <1>2, <1>5, <1>6, <2>1, <2>2, OtherFaithful
<1>7. CASE p = m
  <2>1. /\ Working(m) /\ worker.op.kind # "delete" /\ ~At("remove")
        /\ Found(rows[m]) /\ rows[m].state = worker.op.state
    BY <1>1, <1>2, <1>7 DEF Working, Faithful, RowTold
  <2>2. CreatesFirst(m) /\ (posted[m].content # Blank => UpToDate(m))
    BY <1>2 DEF Faithful
  <2>3. Found(rows'[m]) = Found(rows[m]) /\ HasGif(m)' = HasGif(m) /\ rows'[m].state = rows[m].state
          => CreatesFirst(m)' /\ (posted'[m].content # Blank => UpToDate(m)')
    BY <1>1, <1>2, <2>2 DEF CreatesFirst, UpToDate, LastIs, Shows
  <2>4. CASE EditMessage
    <3> DEFINE id == Row.id
    <3>1. At("apply") /\ id # NoId /\ id = rows[m].id /\ rows' = rows
      BY <1>7, <2>4, Verbs DEF EditMessage, HasStoatEntity, Row
    <3>2. id \in DOMAIN copies /\ copies[id] \in CopyType
      BY <1>3, <3>1
    <3>3. /\ copies' = [copies EXCEPT ![id] = Edited(copies[id], worker.op.state.content)]
          /\ worker' = [worker EXCEPT !.pc = "confirm", !.id = id]
      BY <2>4 DEF EditMessage
    <3>4. /\ copies'[id].content = worker.op.state.content /\ copies'[id].live = copies[id].live
          /\ copies'[id].gif = copies[id].gif
      BY <1>1, <3>2, <3>3 DEF Edited, CopyType
    <3>5. Working(m)' /\ At("confirm")' /\ Current(m) = id /\ Current(m)' = id /\ ~At("apply")' /\ ~At("remove")'
      BY <1>1, <1>7, <3>1, <3>3 DEF Working, At, Current
    <3>6. copies[id].live
      BY <1>2, <3>1, <3>5 DEF Faithful, RowTold
    <3>7. worker'.op = worker.op
      BY <1>1, <3>3
    <3>8. RowTold(m)'
      BY <2>1, <3>1, <3>4, <3>5, <3>6, <3>7 DEF RowTold
    <3>9. HasGif(m)' = HasGif(m)
      BY <3>1, <3>4, <3>5 DEF HasGif
    <3> QED BY <2>3, <3>1, <3>8, <3>9 DEF Faithful
  <2>5. CASE SendMessage
    <3> DEFINE last == Len(copies) + 1
               copy == [msg |-> worker.op.msg, content |-> worker.op.state.content,
                        gif |-> worker.op.gif, files |-> worker.op.files, reply |-> Linked(worker.op),
                        quotes |-> Quotable(worker.op), edits |-> 0, live |-> TRUE]
    <3>1. At("apply") /\ rows[m].id = NoId /\ rows' = rows
      BY <1>7, <2>1, <2>5, Verbs DEF SendMessage, HasStoatEntity, Row
    <3>2. copies' = Append(copies, copy) /\ worker' = [worker EXCEPT !.pc = "confirm", !.id = last]
      BY <2>5 DEF SendMessage, Sent
    <3>3. copies'[last] = copy
      BY <1>1, <3>2
    <3>4. last # NoId /\ last \in Nat
      BY <1>1 DEF NoId
    <3> HIDE DEF last
    <3>5. worker'.op = worker.op /\ worker'.pc = "confirm" /\ worker'.id = last
      BY <1>1, <3>2
    <3>6. /\ copies'[last].live /\ copies'[last].content = worker.op.state.content
          /\ copies'[last].gif = worker.op.gif
      BY <3>3
    <3> HIDE DEF copy
    <3>7. Working(m)' /\ At("confirm")' /\ Current(m) = NoId /\ Current(m)' = last /\ ~At("apply")' /\ ~At("remove")'
      BY <1>7, <3>1, <3>5 DEF Working, At, Current
    <3>8. RowTold(m)'
      BY <2>1, <3>1, <3>4, <3>5, <3>6, <3>7 DEF RowTold
    <3>9. HasGif(m)' = HasGif(m)
      BY <3>4, <3>6, <3>7 DEF HasGif
    <3> QED BY <2>3, <3>1, <3>8, <3>9 DEF Faithful
  <2>6. CASE DeleteMessage
    BY <2>1, <2>6, Verbs DEF DeleteMessage
  <2>7. CASE Confirm
    <3>1. At("confirm") /\ worker' = Idle /\ copies' = copies /\ worker.id \in DOMAIN copies
      BY <1>1, <2>7 DEF Confirm, At, IInv, RowsNameCopies
    <3>2. rows'[m] = ConfirmedRow(rows[m], worker.id)
      BY <1>1, <1>7, <2>7 DEF Confirm, IInv, TypeOK
    <3>3. Found(rows'[m]) /\ rows'[m].state = rows[m].state /\ rows'[m].id = worker.id
      BY <1>3, <1>7, <2>1, <3>2 DEF ConfirmedRow, Found, MessageRow
    <3>4. Current(m) = worker.id /\ Current(m)' = worker.id /\ ~Working(m)' /\ worker.id # NoId /\ ~At("apply")
      BY <1>3, <2>1, <3>1, <3>3 DEF Current, Working, At, Idle
    <3>5. RowTold(m)'
      <4>1. copies[worker.id].live /\ copies[worker.id].content = rows[m].state.content
        BY <1>2, <2>1, <3>4 DEF Faithful, RowTold
      <4> QED BY <3>1, <3>3, <3>4, <4>1 DEF RowTold
    <3>6. HasGif(m)' = HasGif(m)
      BY <3>1, <3>4 DEF HasGif
    <3> QED BY <2>1, <2>3, <3>3, <3>5, <3>6 DEF Faithful
  <2>8. CASE Remove
    BY <2>1, <2>8 DEF Remove
  <2> QED BY <2>4, <2>5, <2>6, <2>7, <2>8
<1> QED BY <1>6, <1>7

LEMMA NextFaithful ==
  ASSUME IInv, WellFormed, AllFaithful, Racing = FALSE, [Next]_vars
  PROVE  AllFaithful'
<1>1. ASSUME NEW m \in Messages, Discord(m) PROVE AllFaithful'
  BY <1>1, DiscordFaithful
<1>2. CASE Skip \/ WritePending \/ BeginDelete
  BY <1>2, TakeFaithful
<1>3. CASE EditMessage \/ SendMessage \/ DeleteMessage \/ Confirm \/ Remove
  BY <1>3, WorkFaithful
<1>4. CASE Fails \/ Restart
  <2>1. mishaps' = mishaps + 1 /\ mishaps \in Nat
    <3>1. mishaps' = mishaps + 1
      BY <1>4 DEF Fails, Restart, Mishap
    <3>2. mishaps \in Nat
      BY MessagesAssumption DEF IInv, TypeOK
    <3> QED BY <3>1, <3>2
  <2> QED BY <2>1 DEF AllFaithful, Perfect
<1>5. CASE UNCHANGED vars
  <2>1. UNCHANGED <<posted, queue, worker, rows, copies, mishaps>>
    BY <1>5 DEF vars, discord
  <2> QED BY <2>1
    DEF AllFaithful, Perfect, There, Faithful, CreatesFirst, RowTold, UpToDate, LastIs, Shows,
        HasGif, Current, Working, At
<1> QED BY <1>1, <1>2, <1>3, <1>4, <1>5 DEF Next, Discord

(* A message is shown with the text it last had, and with its GIF, however  *)
(* often it was edited and whatever Diff skipped or the worker turned from  *)
(* an edit into a create, once all is done and nothing failed; again, as    *)
(* long as handlers do not overtake each other.                             *)
THEOREM MessagesShownInFull ==
  ASSUME Racing = FALSE
  PROVE  Spec => []ShownInFull
<1> DEFINE Inv == IInv /\ WellFormed /\ AllFaithful
<1>1. Init => AllFaithful            BY DEF Init, AllFaithful, There, Unsent
<1>2. Init => Inv                    BY <1>1, InitIInv, InitWellFormed
<1>3. Inv /\ [Next]_vars => Inv'     BY NextIInv, StutterIInv, NextWellFormed, NextFaithful
<1>4. Inv => ShownInFull
  <2> SUFFICES ASSUME Inv, Quiet, Perfect, NEW m \in Messages, There(m), posted[m].content # Blank
               PROVE  /\ HasStoatEntity(rows[m]) /\ CopyOf(m).live
                      /\ CopyOf(m).content.text = posted[m].content.text
                      /\ posted[m].content.link => CopyOf(m).content.link \/ CopyOf(m).gif
    BY DEF ShownInFull
  <2>1. DOMAIN queue = {} /\ ~Working(m) /\ Current(m) = rows[m].id
    BY DEF Quiet, Working, At, Current
  <2>2. Found(rows[m]) /\ Shows(m, rows[m].state.content, HasGif(m)) /\ RowTold(m)
    BY <2>1 DEF AllFaithful, Faithful, UpToDate
  <2>3. rows[m].id # NoId /\ CopyOf(m).live /\ CopyOf(m).content = rows[m].state.content
        /\ HasGif(m) = CopyOf(m).gif
    BY <2>1, <2>2 DEF RowTold, CopyOf, HasGif
  <2> QED BY <2>2, <2>3 DEF Shows, HasStoatEntity
<1> QED BY <1>2, <1>3, <1>4, PTL DEF Spec
=============================================================================
