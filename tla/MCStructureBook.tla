--------------------------- MODULE MCStructureBook ---------------------------
(* Instances of StructureBook for TLC: two templates, a structure of each. *)
EXTENDS StructureBook, TLC

SomeCalls ==
         [op : {"new_template"}, row : {"t"}, code : {"c"}]
    \cup [op : {"new_template"}, row : {"u"}, code : {"d"}]
    \cup [op : {"put_template", "patch_template"}, row : {"t"}, code : Codes]
    \cup [op : {"patch_template"}, row : {"u"}, code : {"c"}]
    \cup [op : {"put_legs"}, row : {"t"}, legs : LegLists \ {NoLegs}]
    \cup [op : {"put_params", "old_drop", "drop"}, row : {"t"}]
    \cup [op : {"new_structure"}, row : {"x"}, of : {"t"}, active : {TRUE}]
    \cup [op : {"new_structure"}, row : {"y"}, of : {"u"}, active : {TRUE}]
    \cup [op : {"put_structure"}, row : {"x"}, of : {"t", "u", "c"}, active : {TRUE}]
    \cup [op : {"patch_structure"}, row : {"x"}, active : {FALSE}]
    \cup [op : {"deactivate"}, row : {"x"}]
    \cup [op : {"activate"}, row : {"settings"}, structure : Structures \cup {None}]

SessionSymmetry == Permutations(Sessions)
=============================================================================
