------------------------------ MODULE MCEngine ------------------------------
(***************************************************************************)
(* Instances of Engine for TLC.                                            *)
(***************************************************************************)
EXTENDS Engine

CONSTANTS t0, t1

MainThread == t0

(* Two files made in one directory. *)
TwoFiles == {<<"Mkdir", <<"x">>>>, <<"Creat", <<"x", "x">>>>, <<"Creat", <<"x", "y">>>>}

(* Calls that meet at one name and one directory. *)
OneName == {<<"Mkdir", <<"x">>>>, <<"Creat", <<"x">>>>, <<"Rmdir", <<"x">>>>, <<"Unlink", <<"x">>>>,
            <<"Creat", <<"x", "x">>>>, <<"Stat", <<"x">>>>}

=============================================================================
