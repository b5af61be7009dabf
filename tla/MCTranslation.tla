---------------------------- MODULE MCTranslation ----------------------------
(* Small instances of Translation: texts on both sides of where the two     *)
(* limits on the length cross, and of the shortest text whose language is   *)
(* guessed; lengths on both sides of each limit.                            *)
EXTENDS Translation

CONSTANTS anna, alex, date

SomeTexts ==
    {[len |-> 19, name |-> None, slots |-> {}, likely |-> "en"],
     [len |-> 20, name |-> anna, slots |-> {}, likely |-> "en"],
     [len |-> 40, name |-> anna, slots |-> {date}, likely |-> None],
     [len |-> 41, name |-> None, slots |-> {}, likely |-> "de"]}
Limits == {99, 100, 101, 120, 121, 123, 124}

\* Nothing, the translation, wrapped, with a note, and a tag before a note.
SomeShapes == {<<>>, <<"body">>, <<"open", "body", "close">>, <<"body", "note">>,
               <<"body", "close", "note">>}
=============================================================================
