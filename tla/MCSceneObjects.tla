--------------------------- MODULE MCSceneObjects ---------------------------
(* A sprite; two object names of one definition; a character of the user   *)
(* interface, whose second string is its id and whose others are files.    *)
EXTENDS SceneObjects

MCSprites == {"sprite"}
World(object, def) == [names |-> <<object, def>>, ui |-> FALSE]
Mask == [names |-> <<"mask", "label", "mbs", "ftx">>, ui |-> TRUE]
MCCasts == {World("anna", "knight"), World("bert", "knight"), Mask}
=============================================================================
