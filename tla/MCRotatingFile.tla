--------------------------- MODULE MCRotatingFile ---------------------------
(***************************************************************************)
(* Eight settings: each kind of rotation with and without compression,     *)
(* one, two and three backups, a count and a size that are not given, and  *)
(* a size so small that every record rolls the file over.  Seven records    *)
(* roll the file over often enough to evict a backup of each of them.      *)
(***************************************************************************)
EXTENDS RotatingFile

Setting(w, b, l, z) == [when |-> w, backup_count |-> b, max_lines |-> l, compress |-> z]

MCConfigs ==
    {Setting("size", 1, 3, FALSE), Setting("size", 3, 2, FALSE),
     Setting("size", 0, 1, FALSE), Setting("size", 1, 2, TRUE),
     Setting("size", 3, 0, TRUE), Setting("unit", 2, 0, FALSE),
     Setting("unit", 0, 0, TRUE), Setting("week", 1, 0, TRUE)}
=============================================================================
