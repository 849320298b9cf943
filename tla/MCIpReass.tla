----------------------------- MODULE MCIpReass -----------------------------
(***************************************************************************)
(* Small instances of IpReass for TLC.                                     *)
(***************************************************************************)
EXTENDS IpReass

Fragment(id, start, end, last, clen) ==
  [id |-> id, start |-> start, end |-> end, last |-> last, clen |-> clen]

\* Datagram id in n fragments of one unit, each of clen pbufs.
Cut(id, n, clen) == {Fragment(id, k, k + 1, k = n - 1, clen) : k \in 0..n - 1}

\* Four datagrams of two to four fragments.  Those of d2 take two pbufs, and d3
\* took two routes, which cut it in three and in two.
FourDatagrams == Cut("d1", 4, 1) \cup Cut("d2", 2, 2) \cup Cut("d4", 2, 1)
                 \cup Cut("d3", 3, 1) \cup {Fragment("d3", 1, 3, TRUE, 1)}

\* One datagram of four fragments.
OneDatagram == Cut("d1", 4, 1)
=============================================================================
