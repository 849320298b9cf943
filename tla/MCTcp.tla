-------------------------------- MODULE MCTcp --------------------------------
(* Instances of TcpConnection for TLC. *)
EXTENDS TcpConnection

Both(c, s) == [h \in Hosts |-> IF h = Client THEN c ELSE s]

\* A connection that is up, and nobody closes it: one fault.
Data == [iss |-> Both(0, 16), write |-> Both(8, 0), sizes |-> {4}, cwnds |-> {8},
         takes |-> {TRUE}, mems |-> {TRUE}, connected |-> TRUE, closers |-> {},
         aborters |-> {}, faults |-> 1, other |-> FALSE]

\* The whole life of a connection.
Life == [Data EXCEPT !.write = Both(2, 0), !.sizes = {2}, !.closers = Hosts]

Passing ==
    {Data,
     [Data EXCEPT !.write = Both(2, 2), !.sizes = {2}],               \* both ways
     [Data EXCEPT !.write = Both(3, 0), !.sizes = {1, 3}],            \* Nagle
     [Data EXCEPT !.write = Both(4, 0), !.cwnds = {2, 8}],            \* slow start
     [Data EXCEPT !.write = Both(4, 0), !.sizes = {2}, !.mems = BOOLEAN],
     [Data EXCEPT !.write = Both(4, 0), !.sizes = {2}, !.takes = BOOLEAN],
     [Data EXCEPT !.write = Both(7, 0), !.faults = 0, !.other = TRUE],
     Life,
     [Life EXCEPT !.takes = BOOLEAN, !.faults = 0],
     [Life EXCEPT !.write = Both(6, 0), !.closers = {Client}, !.faults = 0],  \* FIN at a closed window
     [Life EXCEPT !.write = Both(6, 0), !.closers = {Client}, !.faults = 0, !.cwnds = {2, 8}],  \* FIN beyond the window
     [Life EXCEPT !.connected = FALSE, !.faults = 0],
     [Life EXCEPT !.connected = FALSE, !.write = Both(0, 0), !.mems = BOOLEAN,
                  !.aborters = Hosts]}

\* A close while the congestion window holds data back.
HeldBack == {[Life EXCEPT !.write = Both(4, 0), !.cwnds = {2}, !.faults = 0]}
==============================================================================
