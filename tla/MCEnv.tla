-------------------------------- MODULE MCEnv --------------------------------
(* Instances of Env: "AB" begins with "A"; the kernel passes AB twice.       *)
EXTENDS Env

MCNames   == {"A", "AB", "C"}
MCBegins  == {<<n, n>> : n \in MCNames} \cup {<<"AB", "A">>}
Twice     == << <<"AB", <<"x">> >>, <<"AB", <<"x", "x">> >> >>
=============================================================================
