------------------------------ MODULE RamLayout ------------------------------
(***************************************************************************)
(* Where the supported games keep their data, and the reader of it         *)
(* (overlay/ram_layout.rs).  m is the memory of the console, as peek sees  *)
(* it.  A Pokemon's table is the addresses of its fields, or, for the      *)
(* party, their offsets in a structure; a field without an entry reads 0.  *)
(***************************************************************************)
EXTENDS GbBits, SequencesExt

\* The first of these words in the cartridge's title names the game.
Detected == <<"YELLOW", "BLUE", "RED", "CRYSTAL", "SILVER", "GOLD">>
detect(title) ==
  LET found == {i \in DOMAIN Detected : Detected[i] \in title}
  IN  IF found = {} THEN "UNKNOWN" ELSE Detected[Min(found)]

generation(g) ==
  CASE g \in {"RED", "BLUE", "YELLOW"} -> 1 [] g \in {"GOLD", "SILVER", "CRYSTAL"} -> 2 [] OTHER -> 0
-----------------------------------------------------------------------------
Party1 == [species |-> 0, hp |-> 1, status |-> 4, moves |-> 8, pp |-> 29, level |-> 33,
           hp_max |-> 34, attack |-> 36, defense |-> 38, speed |-> 40, special |-> 42]
Party2 == [species |-> 0, item |-> 1, moves |-> 2, pp |-> 23, friendship |-> 27, level |-> 31,
           status |-> 32, hp |-> 34, hp_max |-> 36, attack |-> 38, defense |-> 40, speed |-> 42,
           special |-> 44, special_def |-> 46]
Yours1 == [species |-> \hD014, hp |-> \hD015, moves |-> \hD01C, level |-> \hD022, hp_max |-> \hD023,
           attack |-> \hD025, defense |-> \hD027, speed |-> \hD029, special |-> \hD02B, pp |-> \hD02D]
Enemy1 == [species |-> \hCFD8, hp |-> \hCFE6, moves |-> \hCFED, level |-> \hCFF3, hp_max |-> \hCFF4,
           attack |-> \hCFF6, defense |-> \hCFF8, speed |-> \hCFFA, special |-> \hCFFC]

red_blue ==
  [name |-> \hD158, money |-> \hD347, badges |-> \hD356, hours |-> \hDA40, minutes |-> \hDA42,
   seconds |-> \hDA44, owned |-> \hD2F7, seen |-> \hD30A, pokedex |-> 19,
   party_count |-> \hD163, party |-> \hD16B, mon_size |-> 44, mon |-> Party1,
   map |-> \hD35E, y |-> \hD361, x |-> \hD362, in_battle |-> \hD057,
   yours |-> Yours1, enemy |-> Enemy1, enemies |-> \hD89C, bag_count |-> \hD31D, bag |-> \hD31E]

yellow ==
  [name |-> \hD157, money |-> \hD346, badges |-> \hD355, hours |-> \hDA3F, minutes |-> \hDA41,
   seconds |-> \hDA43, owned |-> \hD2F6, seen |-> \hD309, pokedex |-> 19,
   party_count |-> \hD162, party |-> \hD16A, mon_size |-> 44, mon |-> Party1,
   map |-> \hD35D, y |-> \hD360, x |-> \hD361, in_battle |-> \hD057, pikachu |-> \hD46F,
   yours |-> Yours1, enemy |-> Enemy1, enemies |-> \hD89B, bag_count |-> \hD31C, bag |-> \hD31D]

gold_silver ==
  [name |-> \hD1A3, money |-> \hD573, badges |-> \hD57C, kanto |-> \hD57D, hours |-> \hD1EB,
   minutes |-> \hD1ED, seconds |-> \hD1EE, owned |-> \hDE99, seen |-> \hDEB9, pokedex |-> 32,
   party_count |-> \hDA22, party |-> \hDA2A, mon_size |-> 48, mon |-> Party2,
   group |-> \hDA00, map |-> \hDA01, y |-> \hDA02, x |-> \hDA03,
   in_battle |-> \hD116, battle_type |-> \hD117,
   yours |-> [species |-> \hCB0C, moves |-> \hCB0E, pp |-> \hCB14, hp |-> \hCB1C, level |-> \hCB1E,
              hp_max |-> \hCBBF, attack |-> \hCBC1, defense |-> \hCBC3, speed |-> \hCBC5,
              special |-> \hCBC7, special_def |-> \hCBC9],
   enemy |-> [species |-> \hD0EF, moves |-> \hD0F1, pp |-> \hD0F7, level |-> \hD0FC, hp |-> \hD0FF,
              hp_max |-> \hD101, attack |-> \hD103, defense |-> \hD105, speed |-> \hD107,
              special |-> \hD109, special_def |-> \hD10B],
   enemies |-> \hD0D4, bag_count |-> \hD5B7, bag |-> \hD5B8]

crystal ==
  [name |-> \hD47D, gender |-> \hD472, money |-> \hD84E, badges |-> \hD857, kanto |-> \hD858,
   hours |-> \hD4C4, minutes |-> \hD4C6, seconds |-> \hD4C7, owned |-> \hDE99, seen |-> \hDEB9,
   pokedex |-> 32, party_count |-> \hDCD7, party |-> \hDCDF, mon_size |-> 48, mon |-> Party2,
   group |-> \hDCB5, map |-> \hDCB6, y |-> \hDCB7, x |-> \hDCB8,
   in_battle |-> \hD22D, battle_type |-> \hD230,
   yours |-> [species |-> \hC62C, moves |-> \hC62E, pp |-> \hC634, level |-> \hC639, hp |-> \hC63C,
              hp_max |-> \hC63E, attack |-> \hC640, defense |-> \hC642, speed |-> \hC644,
              special |-> \hC646, special_def |-> \hC648],
   enemy |-> [species |-> \hD206, moves |-> \hD208, pp |-> \hD20E, level |-> \hD213, hp |-> \hD218,
              hp_max |-> \hD21A],
   enemies |-> \hD89C, bag_count |-> \hD892, bag |-> \hD893]

Tables == [RED |-> red_blue, BLUE |-> red_blue, YELLOW |-> yellow, GOLD |-> gold_silver,
           SILVER |-> gold_silver, CRYSTAL |-> crystal]
-----------------------------------------------------------------------------
rb(m, a) == At(m, a)
rw(m, a) == WordOf(At(m, a + 1), At(m, a))

\* The byte or the word at field f of a table, and at place i behind it.
Has8(m, base, t, f, i) == IF f \in DOMAIN t THEN rb(m, base + t[f] + i) ELSE 0
Has16(m, base, t, f)   == IF f \in DOMAIN t THEN rw(m, base + t[f]) ELSE 0

Tens(b) == 10 * (b \div 16) + Nibble(b)
read_bcd24(m, a) == 10000 * Tens(rb(m, a)) + 100 * Tens(rb(m, a + 1)) + Tens(rb(m, a + 2))
read_int24(m, a) == 65536 * rb(m, a) + WordOf(rb(m, a + 1), rb(m, a + 2))
\* Saturating: 32 bytes of ones are 256.
count_bits(m, a, n) ==
  Min({255, Cardinality(UNION {{<<i, b>> : b \in BitsOf(m[i])} : i \in DOMAIN m \cap a..a + n - 1})})

StatusOf(b) == IF b \in 0..7 \cup {8, 16, 32, 64} THEN b ELSE 0

NoPokemon == [species |-> 0]
Named(m, base, t) == rb(m, base + t.species) \notin {0, 255}

\* Pokemon and BattlePokemon.  Only the low bits of a PP byte are kept.
Pokemon(m, base, t) ==
  [species |-> rb(m, base + t.species),
   level |-> rb(m, base + t.level),
   hp_current |-> Has16(m, base, t, "hp"), hp_max |-> Has16(m, base, t, "hp_max"),
   status |-> StatusOf(Has8(m, base, t, "status", 0)),
   attack |-> Has16(m, base, t, "attack"), defense |-> Has16(m, base, t, "defense"),
   speed |-> Has16(m, base, t, "speed"),
   special |-> Has16(m, base, t, "special"), special_def |-> Has16(m, base, t, "special_def"),
   moves |-> [i \in 1..4 |-> rb(m, base + t.moves + i - 1)],
   pp |-> [i \in 1..4 |-> Has8(m, base, t, "pp", i - 1) % 64],
   held_item |-> Has8(m, base, t, "item", 0), friendship |-> Has8(m, base, t, "friendship", 0)]

party_count(g, m) == Min({6, rb(m, Tables[g].party_count)})
read_party(g, m) ==
  [i \in 1..6 |->
     LET t == Tables[g]
         base == t.party + (i - 1) * t.mon_size
     IN  IF i <= party_count(g, m) /\ Named(m, base, t.mon) THEN Pokemon(m, base, t.mon) ELSE NoPokemon]

in_battle(g, m) == rb(m, Tables[g].in_battle) # 0
read_battle_your_pokemon(g, m) ==
  IF in_battle(g, m) /\ Named(m, 0, Tables[g].yours) THEN Pokemon(m, 0, Tables[g].yours) ELSE NoPokemon
read_battle_enemy_pokemon(g, m) ==
  IF in_battle(g, m) /\ Named(m, 0, Tables[g].enemy) THEN Pokemon(m, 0, Tables[g].enemy) ELSE NoPokemon

\* 0 is no battle, 1 a wild Pokemon, 2 a trainer.
read_battle_type(g, m) ==
  IF generation(g) = 1 THEN rb(m, Tables[g].in_battle)
  ELSE IF in_battle(g, m) THEN rb(m, Tables[g].battle_type) ELSE 0
read_enemy_party_count(g, m) == IF in_battle(g, m) THEN rb(m, Tables[g].enemies) ELSE 0

read_trainer(g, m) ==
  LET t == Tables[g]
  IN  [name |-> [i \in 1..11 |-> rb(m, t.name + i - 1)],
       money |-> IF generation(g) = 1 THEN read_bcd24(m, t.money) ELSE read_int24(m, t.money),
       badges |-> rb(m, t.badges), badges_kanto |-> Has8(m, 0, t, "kanto", 0),
       play_hours |-> rw(m, t.hours), play_minutes |-> rb(m, t.minutes), play_seconds |-> rb(m, t.seconds),
       pokedex_owned |-> count_bits(m, t.owned, t.pokedex), pokedex_seen |-> count_bits(m, t.seen, t.pokedex)]

read_location(g, m) == LET t == Tables[g] IN <<rb(m, t.map), rb(m, t.x), rb(m, t.y)>>
read_map_group(g, m) == Has8(m, 0, Tables[g], "group", 0)

\* The bag of generation 1 and the items pocket of generation 2.
read_bag(g, m) ==
  LET t == Tables[g]
  IN  [i \in 1..20 |-> IF i <= rb(m, t.bag_count)
                       THEN <<rb(m, t.bag + 2 * (i - 1)), rb(m, t.bag + 2 * (i - 1) + 1)>> ELSE <<0, 0>>]

\* Characters of the games as ASCII.
DecodedChar(b) ==
  CASE b = 127 -> 32 [] b \in 128..153 -> 65 + b - 128 [] b \in 160..185 -> 97 + b - 160
    [] b \in 246..255 -> 48 + b - 246 [] b = 224 -> 39 [] b = 227 -> 45 [] b = 232 -> 46
    [] b = 239 -> 33 [] b = 244 -> 44 [] OTHER -> 63
Terminator == 80
decode_text(s) ==
  LET stop == Min({Len(s) + 1} \cup {i \in DOMAIN s : s[i] = Terminator})
  IN  [i \in 1..stop - 1 |-> DecodedChar(s[i])]
=============================================================================
