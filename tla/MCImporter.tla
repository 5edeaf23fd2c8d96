------------------------------ MODULE MCImporter ------------------------------
(***************************************************************************)
(* A manifest in which one photo stands for two poses and two students,    *)
(* with every kind of bad line, a folder with photos that are no good, and *)
(* a manifest whose header is refused.                                     *)
(***************************************************************************)
EXTENDS Importer

CONSTANTS s1, s2

L(number, image, pose) == [number |-> number, image |-> image, pose |-> pose]
Shown(id, decodes, face, quality) ==
    [id |-> id, decodes |-> decodes, face |-> face, quality |-> quality]

MCPhoto ==
    [a |-> Shown(1, TRUE, TRUE, 1), copy |-> Shown(1, TRUE, TRUE, 1),
     dim |-> Shown(2, TRUE, TRUE, 0), wall |-> Shown(3, TRUE, FALSE, 0),
     stamp |-> Shown(4, FALSE, FALSE, 0), gone |-> Unreadable, ghost |-> Shown(1, TRUE, TRUE, 1)]

MCInputs ==
    {[header |-> "twice",
      lines |-> <<L(s1, "a", ""), L(s1, "copy", "side"), L(s2, "copy", Blanks),
                  L("", "", ""), L(TooLong, "a", ""), L(s2, "", ""), L(s2, "a", TooLong),
                  L("ghost", "a", ""), L(s2, "gone", "")>>],
     [header |-> "folder",
      lines |-> <<L(s1, "stamp", "front"), L(s2, "", ""), L(s1, "a", Blanks),
                  L(s1, "dim", "side"), L(s1, "wall", "front")>>],
     [header |-> "bad", lines |-> <<>>]}

=============================================================================
