------------------------------ MODULE MCGateway ------------------------------
(* Two tabs of one browser and a program with two gRPC calls; a user can     *)
(* register next to an admin who exists already, with the admin's email,     *)
(* which is refused, or with the admin's phone number as email, which is not.*)
EXTENDS Gateway, TLC

CONSTANTS tab1, tab2, cli1, cli2, web, program, u1, admin, phone, mail, root

MCCallers == {tab1, tab2, cli1, cli2}
MCTabs == {tab1, tab2}
MCBrowserOf == (tab1 :> web) @@ (tab2 :> web) @@ (cli1 :> program) @@ (cli2 :> program)
MCForms == {Row(mail, phone), Row(root, phone)}
MCAdminForm == Row(mail, root)

Symmetry == Permutations({tab1, tab2}) \cup Permutations({cli1, cli2})

=============================================================================
