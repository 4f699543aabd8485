--------------------------- MODULE MCCategorySync ---------------------------
(***************************************************************************)
(* Guilds for TLC.                                                         *)
(***************************************************************************)
EXTENDS CategorySync

CONSTANTS k1, k2, k3, c1, c2

Entry(id, name, parent, pos) == [id |-> id, name |-> name, parent |-> parent, pos |-> pos]

(* None or one of these, so that an entity may be missing from a guild.     *)
Optional(S) == {{}} \cup {{c} : c \in S}

Unions(A, B) == {a \cup b : a \in A, b \in B}

CategoryK1 == {{Entry(k1, n, NoId, p)} : n \in {"a", "b"}, p \in 0..1}
CategoryK2 == Optional({Entry(k2, "c", NoId, p) : p \in 0..1})
Channel(c, parents) == Optional({Entry(c, "d", k, p) : k \in parents, p \in 0..1})

(* k1 with c1, then k2 with c2.                                             *)
TwoByTwo ==
  {Entry(k1, "a", NoId, 0), Entry(k2, "c", NoId, 1), Entry(c1, "d", k1, 0), Entry(c2, "d", k2, 0)}
WithoutC2 == {c \in TwoByTwo : c.id # c2}
(* The categories in any order, tied, renamed and deleted.                  *)
Sidebars == Unions(Unions(CategoryK1, CategoryK2), {{c \in TwoByTwo : c.id \in Channels}})
(* The channels anywhere, where no two categories tie.                      *)
TidyGuilds ==
  {g \in Unions(Unions(CategoryK1, CategoryK2),
                Unions(Channel(c1, {NoId, k1, k2}), Channel(c2, {NoId, k1, k2}))) :
     Untied(CategoriesOf(g))}
PlainGuilds == Sidebars \cup TidyGuilds

(* Those of one list, among them what the run starts with.                  *)
OneListed == {g \in PlainGuilds : TellsApart(g)}
ASSUME WithoutC2 \in OneListed /\ TidyGuilds \subseteq OneListed

(* Two channels that change places in k1.                                   *)
BothInK1(p) == {Entry(k1, "a", NoId, 0), Entry(c1, "d", k1, p), Entry(c2, "d", k1, 1)}
InOrder  == BothInK1(0)
Reorders == {BothInK1(0), BothInK1(2)}

(* k1 and k2 tie; k3 is deleted, then k2 may move.                          *)
TiedPair ==
  {Entry(k1, "a", NoId, 0), Entry(k2, "c", NoId, 0), Entry(k3, "e", NoId, 1)}
PairOnly == {{Entry(k1, "a", NoId, 0), Entry(k2, "c", NoId, p)} : p \in 0..1}

(* Only k1, under three names.                                              *)
JustOne   == {Entry(k1, "a", NoId, 0)}
NamesOnly == {{Entry(k1, n, NoId, 0)} : n \in {"a", "b", "c"}}
=============================================================================
