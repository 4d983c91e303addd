------------------------------- MODULE MCWire -------------------------------
(* Instances of Wire for TLC. *)
EXTENDS Wire

Values == {"one line", "two lines"}

\* The messages of the structs given, each value either way where it is a string.
Messages(structs) ==
    UNION {{[kind |-> k, fields |-> [f \in structs[k] |->
                 IF f \in {"username", "message"} THEN v ELSE f]] : v \in Values}
           : k \in DOMAIN structs}

MCSaid == [to \in Sides |-> Messages(Structs(to))]

=============================================================================
