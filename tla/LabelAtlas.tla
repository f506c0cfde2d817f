------------------------------ MODULE LabelAtlas ------------------------------
(***************************************************************************)
(* The sprite atlas of the WebGL renderer (static/glrenderer.js,           *)
(* _initAtlas and _atlasSprite): every string that is drawn is rasterized  *)
(* once into a square canvas, packed in shelves from left to right and     *)
(* from top to bottom. When the canvas is full it is wiped and the shelves *)
(* start again.                                                            *)
(*                                                                         *)
(* A text is a key of the cache (font and string); its width and height in *)
(* the canvas are what measureText and the font size give.                 *)
(***************************************************************************)
EXTENDS Integers, Sequences

CONSTANTS
    Text,       \* the keys
    Size,       \* atlasSize
    Width,      \* Width[t], Height[t]: extent of the sprite, padding included
    Height

ASSUME AtlasAssumption ==
    /\ Size \in Nat \ {0}
    /\ Width \in [Text -> Nat \ {0}] /\ Height \in [Text -> Nat \ {0}]
    /\ \A t \in Text : Height[t] <= Size        \* a line of text is far lower than the canvas

(* The empty atlas. "sprites" is the set of the map's entries, "row" the
   height of the current shelf. *)
NoSprites == [sprites |-> {}, x |-> 0, y |-> 0, row |-> 0]

SpriteOf(a, t) == {s \in a.sprites : s.text = t}

-----------------------------------------------------------------------------
(* A new shelf when the sprite does not fit into this one. *)
Shelved(a, t) ==
    IF a.x + Width[t] > Size
    THEN [sprites |-> a.sprites, x |-> 0, y |-> a.y + a.row, row |-> 0] ELSE a

(* The wiped canvas when the shelf does not fit. *)
KeptWhenFull(a, t) ==               \* the cursor goes back, the map is not cleared
    IF a.y + Height[t] > Size THEN [a EXCEPT !.x = 0, !.y = 0, !.row = 0] ELSE a
WipedWhenFull(a, t) == IF a.y + Height[t] > Size THEN NoSprites ELSE a

Higher(i, j) == IF i >= j THEN i ELSE j

(* The sprite is drawn at the cursor and the cursor moves on. *)
Put(a, t) ==
    [sprites |-> a.sprites \cup {[text |-> t, x |-> a.x, y |-> a.y, w |-> Width[t], h |-> Height[t]]},
     x |-> a.x + Width[t], y |-> a.y, row |-> Higher(a.row, Height[t])]

(* _atlasSprite: the atlas after t has been asked for; a string wider than
   the canvas gets no sprite. *)
Asked(a, t) ==
    IF SpriteOf(a, t) # {} \/ Width[t] > Size THEN a
    ELSE Put(WipedWhenFull(Shelved(a, t), t), t)

(* A frame asks for its labels one by one. *)
AskedAll(a, texts) ==
    LET after[i \in 0 .. Len(texts)] == IF i = 0 THEN a ELSE Asked(after[i - 1], texts[i])
    IN after[Len(texts)]

-----------------------------------------------------------------------------
VARIABLE atlas

AtlasInit == atlas = NoSprites
AtlasNext == \E t \in Text : atlas' = Asked(atlas, t)
AtlasSpec == AtlasInit /\ [][AtlasNext]_atlas

-----------------------------------------------------------------------------
(* The atlas is a record of sprites and of a cursor. *)
AtlasTypeOK ==
    atlas \in [sprites : SUBSET [text : Text, x : Nat, y : Nat, w : Nat, h : Nat],
               x : Nat, y : Nat, row : Nat]

Apart(r, s) == r.x + r.w <= s.x \/ s.x + s.w <= r.x \/ r.y + r.h <= s.y \/ s.y + s.h <= r.y

(* The sprites that are handed out lie within the canvas and do not overlap,
   across shelves of different fonts and across a wipe, and a text has one
   sprite: a label would otherwise show a part of another label. *)
SpritesApart ==
    /\ \A s \in atlas.sprites : s.x + s.w <= Size /\ s.y + s.h <= Size
    /\ \A r, s \in atlas.sprites : r # s => Apart(r, s) /\ r.text # s.text
=============================================================================
