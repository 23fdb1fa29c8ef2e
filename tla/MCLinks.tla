------------------------------- MODULE MCLinks --------------------------------
(* Who may dial whom in the runs of Links.                                  *)
EXTENDS Links

AllPairs == {e \in Peer \X Peer : e[1] # e[2]}
=============================================================================
