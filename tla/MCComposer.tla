----------------------------- MODULE MCComposer -----------------------------
(* Small instances of the composer: characters x and y, and the user's o.   *)
EXTENDS Composer

CONSTANTS x, y, o, s

MCOwnText == <<o>>
MCStables == {<<>>, <<x>>, <<x, s>>, <<x, s, y>>}
MCPartials == {<<>>, <<y>>, <<y, x>>}
MCThreeThenOne == <<3, 1>>
MCFuses == {0, 1}
=============================================================================
