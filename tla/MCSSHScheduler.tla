-------------------------- MODULE MCSSHScheduler --------------------------
EXTENDS SSHScheduler

(* A connection with two cores, where jobs and uploads share channels; two *)
(* hosts with one core each; two connections to the same host; and a       *)
(* single worker, where the fifth job has to wait until others have ended. *)
Connection(h, n) == [host |-> h, cores |-> n]
TwoCores == <<Connection("h1", 2)>>
TwoHosts == <<Connection("h1", 1), Connection("h2", 1)>>
OneHostTwice == <<Connection("h1", 1), Connection("h1", 1)>>
OneWorker == <<Connection("h1", 1)>>

MCNetworks == {TwoCores, TwoHosts, OneHostTwice, OneWorker}
MCJobLists == [n \in MCNetworks |-> CASE n = OneWorker    -> <<1, 1, 1, 1, 2>>
                                      [] n = OneHostTwice -> <<1, 1, 2>>
                                      [] OTHER            -> <<1, 1, 1, 2>>]
MCBinaryName == <<"solver", "solver-new">>
=============================================================================
