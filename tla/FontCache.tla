----------------------------- MODULE FontCache -----------------------------
(***************************************************************************)
(* The font file in QSPI flash and its glyph cache,                        *)
(* applications/lv_wifi_weather/src/lvww_assets.c.                         *)
(*                                                                         *)
(* The LVGL thread looks up the bitmap of a letter: a binary search in the *)
(* table of code points, then the cache, then the file.  The commands      *)
(* uires_reload and uires_unload of the shell, a thread of the same        *)
(* priority, replace or remove the font meanwhile.                         *)
(*                                                                         *)
(* A letter is a code point.  Each opened file is a font of its own, known *)
(* by its number; its table is the set of its letters in ascending order,  *)
(* and a bitmap is the place it was read from: font and index.             *)
(***************************************************************************)
EXTENDS Naturals, FiniteSets

CONSTANTS
    Letters,     \* code points, a set of numbers
    CacheCount,  \* LVWW_FONT_CACHE_COUNT
    ReadsFail,   \* a read of the flash file system may fail
    MaxFonts     \* bound: font files opened in a behaviour

VARIABLES
    tables,     \* the letters of each font file opened so far
    font,       \* the number of file_font, 0 while none is loaded
    closed,     \* fonts whose file has been closed
    freed,      \* fonts whose table has been freed
    cache,      \* file_font.cache
    lvgl,       \* the LVGL thread in file_font_get_bitmap
    shell       \* the shell in file_font_open or lvww_assets_unload

vars == <<tables, font, closed, freed, cache, lvgl, shell>>

Slots   == 0 .. CacheCount - 1
Fonts   == 1 .. MaxFonts
Nowhere == <<0, 0>>     \* a cleared bitmap
Torn    == <<0, 1>>     \* a bitmap that a failed read has half overwritten

Empty == [valid |-> FALSE, code |-> 0, bits |-> Nowhere]
Idle  == [pc |-> "idle", letter |-> 0, font |-> 0, index |-> 0, victim |-> 0]
Rest  == [pc |-> "idle", new |-> 0, old |-> 0]

(* What find_codepoint returns for a letter of a table.                    *)
Index(table, letter) == Cardinality({l \in table : l < letter})

Bitmap(f, letter) == <<f, Index(tables[f], letter)>>

(* lvww_assets_init has loaded the first font, before LVGL draws.          *)
Init ==
    /\ tables \in {[f \in Fonts |-> IF f = 1 THEN t ELSE {}] : t \in SUBSET Letters \ {{}}}
    /\ font = 1 /\ closed = {} /\ freed = {}
    /\ cache = [s \in Slots |-> Empty]
    /\ lvgl = Idle /\ shell = Rest

---------------------------------------------------------------------------
(* The LVGL thread *)

(* file_font_get_bitmap enters find_codepoint, which loads the address and *)
(* the length of the table.                                                *)
GetBitmap(letter) ==
    /\ lvgl.pc = "idle"
    /\ font # 0
    /\ lvgl' = [Idle EXCEPT !.pc = "find", !.letter = letter, !.font = font]
    /\ UNCHANGED <<tables, font, closed, freed, cache, shell>>

(* find_codepoint returns.  A table that was freed during the search is    *)
(* memory of somebody else, and the search may end anywhere.               *)
FindCodepoint ==
    /\ lvgl.pc = "find"
    /\ LET table  == tables[lvgl.font]
           At(i)  == [lvgl EXCEPT !.pc = "lookup", !.index = i]
       IN  IF lvgl.font \in freed
           THEN \E i \in 0 .. Cardinality(table) - 1 : lvgl' \in {At(i), Idle}
           ELSE lvgl' = IF lvgl.letter \in table
                        THEN At(Index(table, lvgl.letter)) ELSE Idle
    /\ UNCHANGED <<tables, font, closed, freed, cache, shell>>

Hits == {s \in Slots : cache[s].valid /\ cache[s].code = lvgl.letter}

(* The last unused slot the loop meets; with a full cache the first slot,  *)
(* since the loop looks for an older one only as long as it has none.  So  *)
(* the age of an entry, which every hit renews, never decides anything.    *)
Victim ==
    LET unused == {s \in Slots : ~cache[s].valid}
    IN  IF unused = {} THEN 0 ELSE CHOOSE s \in unused : \A t \in unused : t <= s

(* The loop over the cache: a hit is returned, a miss calls read_exact_at  *)
(* with the file that is current now.                                      *)
Lookup ==
    /\ lvgl.pc = "lookup"
    /\ lvgl' = IF Hits # {} THEN Idle
               ELSE [lvgl EXCEPT !.pc = "read", !.font = font, !.victim = Victim]
    /\ UNCHANGED <<tables, font, closed, freed, cache, shell>>

(* read_exact_at into the bitmap of the victim, which keeps its code point *)
(* and stays valid meanwhile.                                              *)
ReadBitmap ==
    /\ lvgl.pc = "read"
    /\ lvgl.font \notin closed \cup {0}
    /\ cache' = [cache EXCEPT ![lvgl.victim].bits = <<lvgl.font, lvgl.index>>]
    /\ lvgl' = [lvgl EXCEPT !.pc = "store"]
    /\ UNCHANGED <<tables, font, closed, freed, shell>>

ReadFails ==
    /\ lvgl.pc = "read"
    /\ ReadsFail \/ lvgl.font \in closed \cup {0}
    /\ \E bits \in {cache[lvgl.victim].bits} \cup (IF lvgl.font = 0 THEN {} ELSE {Torn}) :
         cache' = [cache EXCEPT ![lvgl.victim].bits = bits]
    /\ lvgl' = Idle
    /\ UNCHANGED <<tables, font, closed, freed, shell>>

StoreGlyph ==
    /\ lvgl.pc = "store"
    /\ cache' = [cache EXCEPT ![lvgl.victim] =
                    [@ EXCEPT !.valid = TRUE, !.code = lvgl.letter]]
    /\ lvgl' = Idle
    /\ UNCHANGED <<tables, font, closed, freed, shell>>

---------------------------------------------------------------------------
(* The shell *)

(* file_font_open up to its critical section: the file is open and its     *)
(* table is read and checked.  A file that is refused changes nothing.     *)
OpenFont ==
    /\ shell.pc = "idle"
    /\ \E f \in Fonts, t \in SUBSET Letters \ {{}} :
         /\ tables[f] = {} /\ \A g \in Fonts : g < f => tables[g] # {}
         /\ tables' = [tables EXCEPT ![f] = t]
         /\ shell' = [Rest EXCEPT !.pc = "publish", !.new = f]
    /\ UNCHANGED <<font, closed, freed, cache, lvgl>>

(* lvww_assets_unload begins with the same critical section, without a new *)
(* font.                                                                   *)
Unload ==
    /\ shell.pc = "idle"
    /\ shell' = [Rest EXCEPT !.pc = "publish"]
    /\ UNCHANGED <<tables, font, closed, freed, cache, lvgl>>

(* The critical sections: no other thread runs.                            *)
Publish ==
    /\ shell.pc = "publish"
    /\ font' = shell.new
    /\ cache' = [s \in Slots |-> Empty]
    /\ shell' = IF font = 0 THEN Rest ELSE [shell EXCEPT !.pc = "close", !.old = font]
    /\ UNCHANGED <<tables, closed, freed, lvgl>>

CloseOld ==
    /\ shell.pc = "close"
    /\ closed' = closed \cup {shell.old}
    /\ shell' = [shell EXCEPT !.pc = "free"]
    /\ UNCHANGED <<tables, font, freed, cache, lvgl>>

FreeOld ==
    /\ shell.pc = "free"
    /\ freed' = freed \cup {shell.old}
    /\ shell' = Rest
    /\ UNCHANGED <<tables, font, closed, cache, lvgl>>

---------------------------------------------------------------------------
Next ==
    \/ \E l \in Letters : GetBitmap(l)
    \/ FindCodepoint \/ Lookup \/ ReadBitmap \/ ReadFails \/ StoreGlyph
    \/ OpenFont \/ Unload \/ Publish \/ CloseOld \/ FreeOld

Spec == Init /\ [][Next]_vars

---------------------------------------------------------------------------
(* "Publish the new font atomically with respect to the LVGL thread"       *)
(* (lvww_assets.c:436): whatever the cache would answer between two        *)
(* look-ups is the bitmap of that letter in the font that is loaded.  It   *)
(* does not hold: a look-up that was under way when the font was replaced  *)
(* stores what it found into the cache of the new font.                    *)
CachedGlyphIsCurrent ==
    lvgl.pc = "idle" =>
        \A s \in Slots : cache[s].valid =>
            font # 0 /\ cache[s].bits = Bitmap(font, cache[s].code)
=============================================================================
