---------------------------- MODULE MCAttachSplit ---------------------------
(* An instance of AttachSplit for TLC: F4, the Delete key, Esc, a letter,  *)
(* Enter, Backspace and Ctrl-C.  The sizes are interchangeable: the        *)
(* terminal begins with one of them.                                       *)
EXTENDS AttachSplit

MCKey == {<<"esc", "O", "S">>, <<"esc", "[", "par", "x">>, <<"esc">>, <<"x">>, <<"cr">>,
          <<"del">>, <<"intr">>}

MCInit == termSize = 1 /\ Init
MCFairSpec == MCInit /\ [][Next]_vars /\ Fairness
=============================================================================
