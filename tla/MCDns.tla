------------------------------- MODULE MCDns -------------------------------
\* Names, servers and callbacks for the run of Dns.
EXTENDS Dns

\* Two names of which one begins the other, and an unrelated one.
Names == {<<"a">>, <<"a", "b">>, <<"c">>}
Requests == {"r1", "r2"}
Asks == [r \in Requests |-> IF r = "r1" THEN {<<"a", "b">>} ELSE {<<"c">>}]

\* A second server may be set.
SecondServer == {<<1, "s1">>}

\* A callback told of a failure asks for its own name again or for another, one
\* that is given the address of c for another.
OnFailure == [n \in Names |-> IF n = <<"a", "b">> THEN NULL ELSE <<"a">>]
OnSuccess == [n \in Names |-> IF n = <<"c">> THEN <<"a">> ELSE NULL]
============================================================================
