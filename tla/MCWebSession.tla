---------------------------- MODULE MCWebSession ----------------------------
(***************************************************************************)
(* Instances of WebSession for TLC.                                        *)
(***************************************************************************)
EXTENDS WebSession

\* "a" and "a|b".
MCUsernames == {<<"a">>, <<"a", "b">>}
=============================================================================
