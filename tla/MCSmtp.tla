------------------------------- MODULE MCSmtp -------------------------------
(***************************************************************************)
(* Instances of Smtp for TLC: an account that is listed, in two spellings, *)
(* two of a domain that is listed as a wildcard, one of them with a slash  *)
(* in its name, and one that is not listed.                                *)
(***************************************************************************)
EXTENDS Smtp, TLC

CONSTANTS me, Me, list, slash, other, m1, m2, m3, m4

MCAddrs    == {me, Me, list, slash, other}
MCAccounts == {me, list, slash, other}
MCAccount  == [a \in MCAddrs |-> IF a = Me THEN me ELSE a]
MCDomain   == [b \in MCAccounts |-> IF b \in {list, slash} THEN "lists" ELSE "example"]

\* Two spellings of one account in an envelope that takes two transactions; a name
\* with a slash; a message that is too large; a recipient that is refused.
MCWanted == (m1 :> {me, Me, list}) @@ (m2 :> {slash}) @@ (m3 :> {list}) @@ (m4 :> {other})
=============================================================================
