--------------------------------- MODULE MCBot ---------------------------------
(* Bot on a small instance, with the two files of the repository: see          *)
(* MCBot.cfg for the bounds.                                                   *)
EXTENDS Bot, TLC

MCFiles == {<<"telega", "checker", "rust", "AyuGram">>,
            <<"telega", "checker", "rust", "exteraGram">>}
MCNormal == [AyuGram |-> "ayugram", exteraGram |-> "exteragram"]

Symmetry == Permutations(Chats)
================================================================================
