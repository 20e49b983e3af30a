----------------------------- MODULE MCModules -----------------------------
(***************************************************************************)
(* Three files for Modules, with every way of including one another that   *)
(* the sets below allow: chains, diamonds, circles of one, two and three   *)
(* files.                                                                  *)
(***************************************************************************)
EXTENDS Modules

File(readable, wellFormed, names, body) ==
  [readable |-> readable, wellFormed |-> wellFormed, names |-> names, body |-> body]

Good == File(TRUE, TRUE, 2, "ends")
Throwing == File(TRUE, TRUE, 1, "throws")
Bad == {File(FALSE, TRUE, 1, "ends"), File(TRUE, FALSE, 1, "ends"),
        File(TRUE, TRUE, 1, "badCompile"), File(TRUE, TRUE, 1, "breaks"), Throwing}
Silent == File(TRUE, TRUE, 0, "ends")

WithIncludes(file, includes) ==
  [readable |-> file.readable, wellFormed |-> file.wellFormed, names |-> file.names,
   body |-> file.body, includes |-> includes]

MCFiles == {"a", "b", "c"}

MCDisks ==
  {[f \in MCFiles |-> CASE f = "a" -> WithIncludes(a, ia)
                        [] f = "b" -> WithIncludes(b, ib)
                        [] OTHER   -> WithIncludes(c, ic)] :
     a \in {Good, Throwing}, b \in {Good, Throwing, Silent}, c \in Bad \cup {Good, Silent},
     ia \in {<<>>, <<"b">>, <<"b", "c">>, <<"c", "b">>},
     ib \in {<<>>, <<"c">>, <<"a">>}, ic \in {<<>>, <<"b">>, <<"c">>}}
=============================================================================
