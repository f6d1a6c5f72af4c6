-------------------------- MODULE MCWriteBackQueue --------------------------
(***************************************************************************)
(* An instance of WriteBackQueue for TLC: two workers and a channel of one,  *)
(* with as many uploads as these hold, one of them to a bucket without a     *)
(* client, and one retry.  A Submit finds the channel full when the workers   *)
(* are slow to receive.  No symmetry, for the liveness properties.           *)
(***************************************************************************)
EXTENDS WriteBackQueue

CONSTANTS w1, w2, u1, u2, u3

MCWorker   == {w1, w2}
MCUpload   == {u1, u2, u3}
MCRoutable == {u1, u2}
=============================================================================
