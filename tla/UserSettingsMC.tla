--------------------------- MODULE UserSettingsMC ---------------------------
(* Small instances of UserSettings: the sets the configurations choose from. *)
EXTENDS UserSettings, TLC

CONSTANTS s1, s2

(* No step tells one path from the other: nothing is chosen among them. *)
Symmetry == Permutations(Path)

(* PolicyKit authorizes everyone, or refuses one permission of one instance. *)
NoneRefused   == {}
SecondRefused == {<<s2, ConPerm>>}
=============================================================================
