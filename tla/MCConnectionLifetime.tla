------------------------ MODULE MCConnectionLifetime ------------------------
(* Two objects, so that one can be moved from or assigned to while the other *)
(* holds a connection; a spare connection and spare handlers, so that a      *)
(* second connect() overlaps what it replaces.                               *)
EXTENDS ConnectionLifetime

CONSTANTS o1, o2, c1, c2, c3, h1, h2, h3, r1

Objects == {o1, o2}
ThreeConns == {c1, c2, c3}
ThreeHandlers == {h1, h2, h3}
OneRequest == {r1}
=============================================================================
