---------------------------- MODULE MCReconcile ----------------------------
(***************************************************************************)
(* Guilds, tables and servers for TLC: one admin role, two channels.       *)
(***************************************************************************)
EXTENDS Reconcile, TLC

CONSTANTS r1, c1, c2

L(name, attrs) == [name |-> name, attrs |-> attrs]

Row(id, look) == [status |-> "active", id |-> id, state |-> look, channel |-> Null]

AllLooks == Look \cup {Empty}

(* Looks change, names do not ...                                           *)
KeepNames ==
  [e \in Entities |-> CASE e = r1 -> {L("r", 1), L("r", 2)}
                        [] e = c1 -> {L("a", 1), L("a", 2)}
                        [] OTHER  -> {L("b", 1)}]
(* ... or they do.                                                          *)
Rename == [KeepNames EXCEPT ![r1] = {L("r", 1), L("s", 1)}, ![c1] = {L("a", 1), L("b", 1)}]

Bot == Object(1, "role", L("bot", 1))

World(guild, table, server, crashes) ==
  [want |-> guild, rows |-> table, stoat |-> server \cup {Bot}, next |-> 8,
   crashes |-> crashes]

Optional(o) == {{}, {o}}

(* Stoat may have c1's channel, right or drifted, another of its name, a    *)
(* channel of nobody's, r1's role and another of its name.                  *)
Servers ==
  {a \cup b \cup c \cup d :
     a \in {{}} \cup {{Object(2, "channel", L("a", n))} : n \in 1..2},
     b \in Optional(Object(3, "channel", L("a", 1))),
     c \in {{Object(4, "role", L("r", n))} : n \in 1..2},
     d \in Optional(Object(5, "role", L("r", 1)))}

Guild == (r1 :> L("r", 1)) @@ (c1 :> L("a", 1))
(* c1 unmapped, mapped, or mapped to what is dead; the same for r1.         *)
Tables ==
  {[e \in Entities |-> CASE e = r1 -> r [] e = c1 -> c [] OTHER -> Absent] :
     r \in {Absent, Row(4, L("r", 1)), Row(6, L("r", 1))},
     c \in {Absent, Row(2, L("a", 1)), Row(7, L("a", 1))}}

Tidy == {World(Guild, t, s, 2) : t \in Tables, s \in Servers}

(* Mapped objects that go by another's name; c2 has the name of c1's.       *)
Mixed ==
  {World(Guild @@ (c2 :> L("b", 1)),
         [e \in Entities |-> CASE e = r1 -> Row(4, L("r", 1)) [] e = c1 -> Row(2, L("a", 1))
                               [] OTHER -> Absent],
         {Object(2, "channel", L("b", 1)), Object(4, "role", L("r", 1))} \cup x, 0) :
     x \in Optional(Object(3, "channel", L("a", 1)))}

Starts == Tidy \cup Mixed

(* All is mirrored.                                                         *)
Mirror ==
  {World(Guild, [e \in Entities |-> CASE e = r1 -> Row(4, L("r", 1))
                                      [] e = c1 -> Row(2, L("a", 1)) [] OTHER -> Absent],
         {Object(2, "channel", L("a", 1)), Object(4, "role", L("r", 1))}, n) : n \in 0..1}

(* The theorems about names are about such looks and worlds, the theorem    *)
(* about orderly lives is about the others.                                 *)
ASSUME MayShow = KeepNames =>
         NamesApart /\ OneName /\ \A w \in Tidy : WellNamed(w) /\ Whole(w)
ASSUME \A w \in Mixed : Orderly(w)
=============================================================================
