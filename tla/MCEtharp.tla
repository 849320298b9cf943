------------------------------ MODULE MCEtharp ------------------------------
(***************************************************************************)
(* Small instances of Etharp for TLC.                                      *)
(***************************************************************************)
EXTENDS Etharp

\* Every address of the link is reached through the same interface.
MCRoute == [ip \in Local |-> CHOOSE n \in Netif : TRUE]
=============================================================================
