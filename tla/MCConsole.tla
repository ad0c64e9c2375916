----------------------------- MODULE MCConsole -----------------------------
(***************************************************************************)
(* Console with the names the shell completes, spelled with the keys of    *)
(* the sessions.                                                           *)
(***************************************************************************)
EXTENDS Console

MCCommands == {<<"v">>, <<"a", "v">>, <<" ">>}
MCFiles == {<<"a">>}

=============================================================================
