--------------------------- MODULE MCMeshConsole ---------------------------
(***************************************************************************)
(* The console of the mesh demo with a few lines: a complete command, one  *)
(* that lacks an argument, and the command that ends the program.          *)
(***************************************************************************)
EXTENDS MeshConsole

OnOff == [cmd |-> "goo_client", args |-> <<0, 2, 0, 1>>]
NoArg == [cmd |-> "ttl_get", args |-> <<>>]
Quit  == [cmd |-> "quit_app", args |-> <<>>]
MCLines == {OnOff, NoArg, Quit}
MCArgCount == [c \in {"goo_client", "ttl_get", "quit_app"} |->
                 CASE c = "goo_client" -> 4 [] c = "ttl_get" -> 1 [] OTHER -> 0]

\* No name here begins with a hexadecimal digit: the number ends where it did.
MCRunOn(arg, name) == arg

ASSUME MCLinesAssumption == LinesAreWhole /\ NumbersEnd
=============================================================================
