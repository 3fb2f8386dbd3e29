--------------------------- MODULE MCLocalTerminal --------------------------
(* Instances of LocalTerminal for TLC.  What a read of the keyboard returns*)
(* is a key, or text with the newline that follows it.                     *)
EXTENDS LocalTerminal

MCInput == {<<"a">>, <<"char<", "char>">>, <<"cr">>, <<"b", "cr">>, <<"up">>, <<"down">>, <<"left">>,
            <<"right">>, <<"backspace">>, <<"intr">>}

(* The shell, or a program that asks for a password, waits for a user who  *)
(* types nothing more.                                                     *)
Quiet == foreground # "program" /\ pty = <<>> /\ ttyInput = <<>>
MCNext == Next \/ (Quiet /\ UNCHANGED vars)
MCSpec == Init /\ [][MCNext]_vars
=============================================================================
