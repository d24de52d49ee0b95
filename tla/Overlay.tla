------------------------------- MODULE Overlay -------------------------------
(***************************************************************************)
(* The panels beside the game (overlay/game_overlay.rs), laid out by       *)
(* gui/layout.rs, and the tracker of what has changed since the frame      *)
(* before (overlay/dirty_region.rs).  main.rs draws everything in every    *)
(* frame and nothing calls the tracker yet; it is modelled as its          *)
(* interface asks to be used, compare_and_update once per frame, beside    *)
(* the full drawing.  Its rectangles, of an older layout, are left out.    *)
(*                                                                         *)
(* The game is external: it keeps its data as the tables say, high byte of *)
(* a word first, money as read_int24 or read_bcd24 takes it (a comment at  *)
(* Crystal's address calls it BCD, the reader an int), and a game in       *)
(* colour may have another RAM bank selected when a frame ends.  A text is *)
(* a line of its panel, named by a label, with the numbers it shows.       *)
(***************************************************************************)
EXTENDS RamLayout

CONSTANTS
  Titles,       \* the words of the titles that cartridges may have
  Start,        \* the data of a new game: a value per field
  Values,       \* the values that play gives to fields: a set per field
  MaxChanged    \* bound: fields that differ from Start

\* What the games keep in each field: a name ends before its eleventh byte, money is
\* of six digits, a battle is none, a wild one or a trainer's; an enemy is a species and its HP.
Texts(S, n) == {s \in Seq(S) : Len(s) <= n}
MaxMoney == 999999
Money == 0..MaxMoney
Fields ==
  [name |-> Texts(Byte \ {Terminator}, 10), money |-> Money, owned |-> Texts(Byte, 19),
   badges |-> Byte, kanto |-> Byte, group |-> Byte, map |-> Byte, party_count |-> Byte,
   species |-> Byte, level |-> Byte, hp |-> Word, hp_max |-> Word, attack |-> Word, special |-> Word,
   moves |-> [1..4 -> Byte] \X [1..4 -> Byte],
   battle |-> 0..2, enemy |-> Byte \X Word, enemies |-> Byte]

ASSUME OverlayAssumption ==
  /\ MaxChanged \in Nat
  /\ DOMAIN Start = DOMAIN Fields /\ \A f \in DOMAIN Fields : Start[f] \in Fields[f]
  /\ DOMAIN Values \subseteq DOMAIN Fields /\ \A f \in DOMAIN Values : Values[f] \subseteq Fields[f]

VARIABLES
  game,     \* detected once
  data,     \* external: what the game has to show
  ram,      \* its memory, bank 1 of the switched part
  bank,     \* SVBK
  shown,    \* what the panels show after the last frame
  seen,     \* history: data and bank at the last frame, once there was one
  cache,    \* OVERLAY_CACHE
  missed    \* history: elements that the last frame drew otherwise, and the tracker left out

overlayVars == <<game, data, ram, bank, shown, seen, cache, missed>>

\* peek: D000 and up is the selected bank; nothing is known of the other ones.
Peeked == IF bank = 1 THEN ram ELSE [a \in DOMAIN ram \cap 0..\hCFFF |-> ram[a]]
-----------------------------------------------------------------------------
(* layout.rs *)
ScreenWidth  == 320
ScreenHeight == 200
GB_X == 80
GB_WIDTH == 160
GB_BOTTOM == 28 + 144
Region(x, y, w, h) == [x |-> x, y |-> y, width |-> w, height |-> h]
left_sidebar   == Region(0, 0, GB_X - 4, ScreenHeight)
right_sidebar  == Region(GB_X + GB_WIDTH + 4, 0, ScreenWidth - GB_X - GB_WIDTH - 4, ScreenHeight)
bottom_sidebar == Region(0, GB_BOTTOM + 4, ScreenWidth, ScreenHeight - (GB_BOTTOM + 4))

BottomOf(r) == r.y + r.height
Meet(a, b) == /\ a.x < b.x + b.width /\ b.x < a.x + a.width
              /\ a.y < BottomOf(b) /\ b.y < BottomOf(a)

\* LayoutCursor: take and space go on by a height, to the bottom at most.
TEXT == 7
Line(label, value) == [h |-> TEXT, label |-> label, value |-> value]
Gap(h) == [h |-> h, label |-> "", value |-> <<>>]
Tops(r, pad, items) ==
  LET y[i \in 1..Len(items)] ==
        IF i = 1 THEN r.y + pad ELSE Min({y[i - 1] + items[i - 1].h, BottomOf(r) - pad})
  IN  y
-----------------------------------------------------------------------------
(* game_overlay.rs *)
swap_bytes(w) == WordOf(Lo(w), Hi(w))

Badges(label, b) == [Line(label, BitsOf(b)) EXCEPT !.h = 14]

\* The PP that are drawn: of a byte whose high bits are gone already.
MoveLabels == <<"move1", "move2", "move3", "move4">>
MoveLine(p, i) == Line(MoveLabels[i], <<p.moves[i], p.pp[i] % 64, p.pp[i] \div 64>>)

Details(g, p) ==
  <<Line("name", <<p.species>>), Line("level", <<p.level>>), Gap(2), Gap(TEXT),
    MoveLine(p, 1), MoveLine(p, 2), MoveLine(p, 3), MoveLine(p, 4), Gap(2),
    Line("hp", <<swap_bytes(p.hp_current), swap_bytes(p.hp_max)>>),
    Line("attack", <<swap_bytes(p.attack), swap_bytes(p.defense)>>),
    Line("speed", <<swap_bytes(p.speed), swap_bytes(p.special)>>)>>
  \o (IF generation(g) = 2 THEN <<Line("special", <<swap_bytes(p.special_def), p.friendship>>)>> ELSE <<>>)

left_items(g, m) ==
  LET trainer == read_trainer(g, m)
      lead    == read_party(g, m)[1]
  IN  <<Line("map", <<read_map_group(g, m), read_location(g, m)[1]>>), Gap(4), Gap(TEXT),
        Badges("badges", trainer.badges)>>
      \o (IF generation(g) = 2 THEN <<Gap(2), Gap(TEXT), Badges("kanto", trainer.badges_kanto)>> ELSE <<>>)
      \o <<Gap(4)>> \o (IF lead = NoPokemon THEN <<>> ELSE Details(g, lead))

player_items(g, m) ==
  LET trainer == read_trainer(g, m)
  IN  <<Line("player", decode_text(trainer.name)), Gap(2), Line("money", <<trainer.money>>), Gap(4), Gap(TEXT)>>

\* An empty move takes no line.
EnemyMoves(p) ==
  LET line(i) == IF p.moves[i] = 0 THEN <<>> ELSE <<Line(MoveLabels[i], <<p.moves[i]>>)>>
  IN  line(1) \o line(2) \o line(3) \o line(4)
battle_items(g, m) ==
  LET p    == read_battle_enemy_pokemon(g, m)
      type == read_battle_type(g, m)
  IN  <<Line("battle", <<type>>), Gap(2)>>
      \o (IF p = NoPokemon THEN <<>>
          ELSE <<Line("name", <<p.species>>), Line("level", <<p.level>>),
                 Line("hp", <<swap_bytes(p.hp_current), swap_bytes(p.hp_max)>>), Gap(2), Gap(TEXT)>>
               \o EnemyMoves(p) \o <<Gap(2)>>
               \o (CASE type = 1 -> <<Gap(TEXT), Line("catch", <<p.species>>)>>
                     [] type = 2 -> <<Line("party", <<read_enemy_party_count(g, m)>>)>>
                     [] OTHER    -> <<>>))

\* A bar is in 20 steps, of words that were read low byte first.
BarColor(percent) == IF percent > 50 THEN 3 ELSE IF percent > 20 THEN 2 ELSE 1
Bar(cur, max) == <<Min({20, (cur * 20) \div Max({max, 1})}),
                   BarColor(IF max > 0 THEN (cur * 100) \div max ELSE 0)>>
bottom_slots(g, m) ==
  LET party == read_party(g, m)
  IN  [i \in 1..6 |-> IF party[i] = NoPokemon THEN <<>>
                      ELSE Append(Bar(party[i].hp_current, party[i].hp_max), party[i].level)]

\* The lines of a panel that are left when the bottom panel is cleared after it.
Standing(r, items) ==
  LET y == Tops(r, 2, items)
      kept == {i \in DOMAIN items : /\ items[i].label # ""
                                    /\ ~Meet(Region(r.x + 2, y[i], r.width - 4, items[i].h), bottom_sidebar)}
  IN  [label \in {items[i].label : i \in kept} |->
         items[CHOOSE i \in kept : items[i].label = label].value]
render_full(g, m) ==
  [left   |-> Standing(left_sidebar, left_items(g, m)),
   right  |-> Standing(right_sidebar, IF in_battle(g, m) THEN battle_items(g, m) ELSE player_items(g, m)),
   bottom |-> bottom_slots(g, m)]
-----------------------------------------------------------------------------
(* dirty_region.rs *)
Slots == <<"PARTY_SLOT_0", "PARTY_SLOT_1", "PARTY_SLOT_2", "PARTY_SLOT_3", "PARTY_SLOT_4", "PARTY_SLOT_5">>
Elements == {"GAME_TITLE", "TRAINER_NAME", "MONEY", "POKEDEX", "PARTY_HEADER", "LOCATION", "BADGES",
             "PLAYTIME", "BOTTOM_BAR"} \cup ToSet(Slots)

EmptyCache ==
  [trainer |-> [name |-> [i \in 1..11 |-> 0], money |-> 0, badges |-> <<0, 0>>, owned |-> 0, hours |-> 0],
   party |-> [i \in 1..6 |-> [present |-> FALSE, species |-> 0, level |-> 0, hp |-> <<0, 0>>]],
   location |-> <<0, 0, 0>>, game |-> "UNKNOWN", initialized |-> FALSE]

CachedPokemon(p) ==
  IF p = NoPokemon THEN EmptyCache.party[1]
  ELSE [present |-> TRUE, species |-> p.species, level |-> p.level, hp |-> <<p.hp_current, p.hp_max>>]
Cached(g, m) ==
  LET t == read_trainer(g, m)
      p == read_party(g, m)
  IN  [trainer |-> [name |-> t.name, money |-> t.money, badges |-> <<t.badges, t.badges_kanto>>,
                    owned |-> t.pokedex_owned, hours |-> t.play_hours],
       party |-> [i \in 1..6 |-> CachedPokemon(p[i])],
       location |-> read_location(g, m), game |-> g, initialized |-> TRUE]

sidebar_changed(p, q) == p.present # q.present \/ p.species # q.species \/ p.level # q.level
hp_changed(p, q) == p.present # q.present \/ p.hp # q.hp

Changed(c, d) ==
  {e \in Elements :
     CASE e = "GAME_TITLE"   -> c.game # d.game
       [] e = "TRAINER_NAME" -> c.trainer.name # d.trainer.name
       [] e = "MONEY"        -> c.trainer.money # d.trainer.money
       [] e = "POKEDEX"      -> c.trainer.owned # d.trainer.owned
       [] e = "BADGES"       -> c.trainer.badges # d.trainer.badges
       [] e = "PLAYTIME"     -> c.trainer.hours # d.trainer.hours
       [] e = "LOCATION"     -> c.location # d.location
       [] e = "BOTTOM_BAR"   -> \E i \in 1..6 : hp_changed(c.party[i], d.party[i])
       [] e = "PARTY_HEADER" -> FALSE
       [] OTHER -> \E i \in 1..6 : e = Slots[i] /\ sidebar_changed(c.party[i], d.party[i])}

\* compare_and_update: what is dirty, and the cache afterwards.
\* Mutant: a slot is stored only when the side panel has to be drawn.
Updated_late(c, d) ==
  [d EXCEPT !.party = [i \in 1..6 |-> IF sidebar_changed(c.party[i], d.party[i]) THEN d.party[i] ELSE c.party[i]]]
Updated(c, d) == d
Dirty(c, d) == IF c.initialized THEN Changed(c, d) ELSE Elements

-----------------------------------------------------------------------------
(* The game: the bytes of a field. *)
Bytes(a, s) == [i \in a..a + Len(s) - 1 |-> s[i - a + 1]]
High(w) == <<Hi(w), Lo(w)>>
Both(c, d) == [a \in DOMAIN c \cup DOMAIN d |-> IF a \in DOMAIN c THEN c[a] ELSE d[a]]
Bcd(n) == 16 * (n \div 10) + (n % 10)
MoneyBytes(g, v) ==
  IF generation(g) = 1 THEN <<Bcd(v \div 10000), Bcd((v \div 100) % 100), Bcd(v % 100)>>
  ELSE <<v \div 65536, Hi(v % 65536), Lo(v % 65536)>>
\* Of the party, the field is of the first Pokemon.
Cells(g, f, v) ==
  LET t == Tables[g]
  IN  CASE f = "name"       -> Bytes(t.name, v \o <<Terminator>>)
        [] f = "money"      -> Bytes(t.money, MoneyBytes(g, v))
        [] f = "owned"      -> Bytes(t.owned, v)
        [] f = "group"      -> IF "group" \in DOMAIN t THEN Bytes(t.group, <<v>>) ELSE NoMemory
        [] f = "kanto"      -> IF "kanto" \in DOMAIN t THEN Bytes(t.kanto, <<v>>) ELSE NoMemory
        [] f \in {"badges", "map", "party_count", "enemies"} -> Bytes(t[f], <<v>>)
        [] f = "battle"     -> IF "battle_type" \in DOMAIN t
                               THEN Both(Bytes(t.in_battle, <<v>>), Bytes(t.battle_type, <<v>>))
                               ELSE Bytes(t.in_battle, <<v>>)
        [] f \in {"species", "level"} -> Bytes(t.party + t.mon[f], <<v>>)
        [] f \in {"hp", "hp_max", "attack", "special"} -> Bytes(t.party + t.mon[f], High(v))
        [] f = "moves"      -> Both(Bytes(t.party + t.mon.moves, v[1]), Bytes(t.party + t.mon.pp, v[2]))
        [] f = "enemy"      -> Both(Bytes(t.enemy.species, <<v[1]>>), Bytes(t.enemy.hp, High(v[2])))

\* The memory of a game that has d to show, and nothing else.
Memory(g, d) ==
  LET field(a) == CHOOSE f \in DOMAIN d : a \in DOMAIN Cells(g, f, d[f])
  IN  Overlaid(NoMemory, [a \in UNION {DOMAIN Cells(g, f, d[f]) : f \in DOMAIN d} |->
                            Cells(g, field(a), d[field(a)])[a]])

\* What a player expects to see of it.
Expected(g, d) ==
  [map |-> <<IF generation(g) = 2 THEN d.group ELSE 0, d.map>>,
   badges |-> BitsOf(d.badges), kanto |-> BitsOf(IF generation(g) = 2 THEN d.kanto ELSE 0),
   lead |-> IF d.party_count = 0 \/ d.species \in {0, 255} THEN <<>>
            ELSE <<d.species, d.level, d.hp, d.hp_max, d.attack, d.special>>,
   pp |-> [i \in 1..4 |-> d.moves[2][i] % 64], moves |-> d.moves[1],
   bar |-> <<Min({20, (d.hp * 20) \div Max({d.hp_max, 1})}), d.level>>]
-----------------------------------------------------------------------------
Play(f, v) ==
  /\ game # "UNKNOWN" /\ data[f] # v
  /\ Cardinality({h \in DOMAIN data \ {f} : data[h] # Start[h]}) + (IF v = Start[f] THEN 0 ELSE 1) <= MaxChanged
  /\ data' = [data EXCEPT ![f] = v]
  /\ ram' = Overlaid(ram, Cells(game, f, v))
  /\ UNCHANGED <<game, bank, shown, seen, cache, missed>>

SelectBank(b) ==
  /\ generation(game) = 2 /\ b # bank
  /\ bank' = b
  /\ UNCHANGED <<game, data, ram, shown, seen, cache, missed>>

\* The elements that two drawings of the panels show with different values: of the
\* lines and slots that both have, or of a slot that one of them has.
Redrawn(p, q) ==
  LET differ(a, b, label) == label \in DOMAIN a \cap DOMAIN b /\ a[label] # b[label]
      bar(slot)   == {<<i, slot[i]>> : i \in DOMAIN slot \ {3}}
      level(slot) == {<<i, slot[i]>> : i \in DOMAIN slot \cap {3}}
  IN  {e \in Elements :
         CASE e = "LOCATION"     -> p.left["map"][2] # q.left["map"][2]
           [] e = "BADGES"       -> differ(p.left, q.left, "badges") \/ differ(p.left, q.left, "kanto")
           [] e = "TRAINER_NAME" -> differ(p.right, q.right, "player")
           [] e = "MONEY"        -> differ(p.right, q.right, "money")
           [] e = "BOTTOM_BAR"   -> \E i \in 1..6 : bar(p.bottom[i]) # bar(q.bottom[i])
           [] e \in ToSet(Slots) ->
                \/ \E i \in 1..6 : e = Slots[i] /\ level(p.bottom[i]) # level(q.bottom[i])
                \/ e = Slots[1] /\ (differ(p.left, q.left, "name") \/ differ(p.left, q.left, "level"))
           [] OTHER -> FALSE}

\* render_overlay_efficient; the tracker beside it.
Render ==
  /\ game # "UNKNOWN"
  /\ LET m == Peeked
         d == Cached(game, m)
         panels == render_full(game, m)
     IN  /\ shown' = panels
         /\ missed' = IF seen.drawn THEN Redrawn(shown, panels) \ Dirty(cache, d) ELSE {}
         /\ cache' = Updated(cache, d)
         /\ seen' = [data |-> data, bank |-> bank, drawn |-> TRUE]
  /\ UNCHANGED <<game, data, ram, bank>>

\* Something else was drawn over the panels: invalidate_all.
Invalidate ==
  /\ cache.initialized
  /\ cache' = [cache EXCEPT !.initialized = FALSE]
  /\ UNCHANGED <<game, data, ram, bank, shown, seen, missed>>
-----------------------------------------------------------------------------
Blank == [left |-> <<>>, right |-> <<>>, bottom |-> [i \in 1..6 |-> <<>>]]
OverlayInit(titles) ==
  /\ \E w \in titles : game = detect(w)
  /\ data = Start
  /\ ram = IF game = "UNKNOWN" THEN NoMemory ELSE Memory(game, Start)
  /\ bank = 1
  /\ shown = Blank
  /\ seen = [data |-> Start, bank |-> 1, drawn |-> FALSE]
  /\ cache = EmptyCache
  /\ missed = {}

OverlayNext ==
  \/ \E f \in DOMAIN Values : \E v \in Values[f] : Play(f, v)
  \/ \E b \in 1..2 : SelectBank(b)
  \/ Render
  \/ Invalidate

\* The panels p show d, what the game g had: the right words from the tables of this
\* game, nothing of a panel lost under another.
Shown(p, g, d) ==
  LET x == Expected(g, d)
      l == p.left
      r == p.right
  IN  /\ l["map"] = x.map /\ l["badges"] = x.badges
      /\ generation(g) = 2 => l["kanto"] = x.kanto
      /\ ("name" \in DOMAIN l) = (x.lead # <<>>)
      /\ x.lead # <<>> =>
           /\ l["name"] \o l["level"] \o l["hp"] = SubSeq(x.lead, 1, 4)
           /\ <<l["attack"][1], l["speed"][2]>> = SubSeq(x.lead, 5, 6)
           /\ \A i \in 1..4 : SubSeq(l[MoveLabels[i]], 1, 2) = <<x.moves[i], x.pp[i]>>
      /\ (p.bottom[1] # <<>>) = (x.lead # <<>>)
      \* The bars are right as long as a word has no high byte.
      /\ x.lead # <<>> /\ {d.hp, d.hp_max} \subseteq Byte => <<p.bottom[1][1], p.bottom[1][3]>> = x.bar
      /\ \A i \in 2..6 : p.bottom[i] = <<>>
      /\ IF d.battle = 0
         THEN r["money"] = <<d.money>> /\ r["player"] = decode_text(d.name)
         ELSE /\ r["battle"] = <<d.battle>>
              /\ d.enemy[1] \notin {0, 255} =>
                   /\ r["name"] = <<d.enemy[1]>> /\ r["hp"][1] = d.enemy[2]
                   /\ d.battle = 1 => r["catch"] = <<d.enemy[1]>>
                   /\ d.battle = 2 => r["party"] = <<d.enemies>>

\* The panels of a frame that is drawn with bank 1 selected.
PanelsShowGame == seen.drawn /\ seen.bank = 1 => Shown(shown, game, seen.data)

\* What a frame draws otherwise than the one before is dirty: the number of the map, badges,
\* name and money, the lead's species and level, each slot's bar and level.  The tracker
\* does not cover the rest of the panels: the group of the map (game_overlay.rs:185-190),
\* the lead's HP, moves and statistics on the left, the enemy, and the lines that come
\* and go with a battle.
ChangesAreDirty == missed = {}

OverlayFollowsGame == PanelsShowGame /\ ChangesAreDirty
=============================================================================
