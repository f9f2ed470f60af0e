------------------------------- MODULE MCWorker -------------------------------
(* TLC instances of Worker: the shapes of the worker tree that code builds. *)
EXTENDS Worker, TLC

CONSTANTS w1, w2, w3

\* A worker with two children, one of which may be the other's child instead.
TreeSpawns == {<<Main, NoOne, w1>>, <<w1, w1, w2>>, <<w1, w1, w3>>, <<w2, w2, w3>>}

\* A worker and its child, spawned by the worker or through its handle.
PairSpawns == {<<Main, NoOne, w1>>, <<w1, w1, w2>>, <<Main, w1, w2>>}

\* Only the free function spawn: no worker has a parent.
RootSpawns == {<<Main, NoOne, w1>>, <<w1, NoOne, w2>>}

=============================================================================
