------------------------- MODULE MCEntryLifecycle -------------------------
(***************************************************************************)
(* A small house: two matrices with an address each, one of them perhaps   *)
(* switched off at first, and two people with a dialogue each.             *)
(***************************************************************************)
EXTENDS EntryLifecycle, TLC

CONSTANTS m1, m2, h1, h2, e1, e2, admin, factory, other

MCDefaultLogin == [user |-> admin, password |-> factory]
MCForms ==
    {[default |-> TRUE, user |-> None, password |-> None],
     [default |-> FALSE, user |-> None, password |-> None],
     [default |-> FALSE, user |-> admin, password |-> other]}
MCChoices == {{}, {"renaming"}}
MCPlaces == {(h1 :> m1) @@ (h2 :> None), (h1 :> m1) @@ (h2 :> m2)}
MCAccounts ==
    {[m \in {m1, m2} |-> [user |-> admin, password |-> p]] : p \in {factory, other}}
MCNew == [e \in {e1, e2} |-> None]
MCStored ==
    {MCNew, [MCNew EXCEPT ![e1] = [unique |-> m1, host |-> h1,
                                   login |-> MCDefaultLogin, features |-> {"renaming"}]]}
MCCounts == [k \in PortKinds |-> 1]
===========================================================================
