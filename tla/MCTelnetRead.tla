---------------------------- MODULE MCTelnetRead ----------------------------
(* An instance of TelnetRead: a prompt of two bytes, that may be cut in two. *)
EXTENDS TelnetRead

MCPrompt == <<"a", "b">>
=============================================================================
