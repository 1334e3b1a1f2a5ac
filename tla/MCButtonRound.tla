--------------------------- MODULE MCButtonRound ---------------------------
(***************************************************************************)
(* Instances of ButtonRound for TLC: one scanner of every backend, and of  *)
(* plustek one for every number of buttons it decodes differently.         *)
(***************************************************************************)
EXTENDS ButtonRound

Model(b, n) == [backend |-> b, buttons |-> n]

AllScanners ==
  {Model("artec_eplus48u", 4), Model("epson", 4), Model("epson_vphoto", 5),
   Model("genesys", 15), Model("gt68xx", 5), Model("hp3500", 3),
   Model("hp3900", 4), Model("hp5590", 5), Model("mustek", 5),
   Model("niash", 4), Model("plustek_umax", 4), Model("snapscan", 4)}
  \cup {Model("plustek", n) : n \in 1..5}

\* One finger, two or three.
Fingers == {{1}, {1, 2}, {2, 3}, {3, 4}, {4, 5}, {1, 2, 3}}

OnPress == [from |-> 0, to |-> 1]
=============================================================================
