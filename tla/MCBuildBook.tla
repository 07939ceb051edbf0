---------------------------- MODULE MCBuildBook ----------------------------
(***************************************************************************)
(* Small mosaics for TLC: one to three blocks across and one to four high, *)
(* of a few pictures each; one of three across has blocks with no edge.    *)
(* And one ten across and one eight high, for which the page has no room.  *)
(***************************************************************************)
EXTENDS BuildBook

MCPhotos == {<<3, 1>>, <<2, 3>>, <<10, 1>>, <<1, 8>>}

Only(c, n) == [d \in Palette |-> IF d = c THEN n ELSE 0]
Mixed(c, n, d) == [e \in Palette |-> IF e = c THEN n ELSE IF e = d THEN 16 - n ELSE 0]

\* A column of the background: mostly red, one blue edge, one white corner.
Sky(x) == IF x = <<0, 0>> THEN Mixed("white", 5, "red")
          ELSE IF x[1] = 0 THEN Only("blue", 16) ELSE Mixed("red", 10, "blue")

\* How many of a column's studs a silhouette hides.  Of the large mosaics one
\* shape is enough: what the others show does not depend on the size.
Shapes(w, h) ==
  IF w = 3 \/ w * h > 6 THEN {[x \in Columns(w, h) |-> IF x[1] % 3 = 1 THEN 8 ELSE 0]} ELSE
  {[x \in Columns(w, h) |-> 0],                                     \* nobody there
   [x \in Columns(w, h) |-> IF x[1] % 3 = 1 THEN 8 ELSE 0],         \* gaps
   [x \in Columns(w, h) |-> IF x[2] = h - 1 THEN 16 ELSE 0],        \* a row of blocks
   [x \in Columns(w, h) |-> IF x = <<16 * w - 1, h - 1>> THEN 3 ELSE 0],
   [x \in Columns(w, h) |-> 16]}                                    \* all of it

\* The silhouette hides white studs, where the photo was filled with white.
Behind(w, h, hides) ==
  [w |-> w, h |-> h, threeD |-> TRUE,
   open   |-> [x \in Columns(w, h) |->
                 IF hides[x] = 0 THEN Sky(x) ELSE Only("red", 16 - hides[x])],
   hidden |-> [x \in Columns(w, h) |-> Only("white", hides[x])],
   fg     |-> [x \in Columns(w, h) |-> Only("blue", hides[x])]]

Flat(w, h) ==
  [w |-> w, h |-> h, threeD |-> FALSE,
   open   |-> [x \in Columns(w, h) |-> Sky(x)],
   hidden |-> [x \in Columns(w, h) |-> Only("red", 0)],
   fg     |-> [x \in Columns(w, h) |-> Only("red", 0)]]

Sizes == {s \in {<<w, BlocksHigh(w, photo)>> : w \in Widths, photo \in MCPhotos} :
            s[1] * s[2] <= 12}

MCPictures ==
  UNION {{Flat(s[1], s[2])} \cup {Behind(s[1], s[2], hides) : hides \in Shapes(s[1], s[2])}
         : s \in Sizes}
=============================================================================
