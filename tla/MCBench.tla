------------------------------ MODULE MCBench ------------------------------
(* BenchDriver for TLC; or a client of RequestSigner that calls it in any  *)
(* order while its file changes.                                           *)
EXTENDS BenchDriver

TwoRequests == {<<"t1", "GET", "/orders">>, <<"t2", "POST", "/orders">>}

VARIABLES
    caller   \* who uses the signer

allVars == <<caller, driverVars, driverRest>>

MCInit ==
    /\ caller \in {"driver", "client"}
    /\ BenchInit /\ SignerInit /\ DriverInit
    /\ caller = "driver" => file = "absent"

MCNext ==
    /\ \/ caller = "driver" /\ DriverNext
       \/ caller = "client" /\ SignerNext /\ UNCHANGED <<driverVars, roundtripVars>>
    /\ UNCHANGED caller

MCSpec == MCInit /\ [][MCNext]_allVars /\ (caller = "driver" => DriverFairness)

\* Every run of the benchmark exits, worker.join() on every path included: the client
\* is closed before stop() is called, so that a stop() that misses the connection
\* does no harm here.  By then the throwaway key is gone, "however the benchmark
\* leaves, including through the throw from a failed load".
BenchmarkExits == caller = "driver" ~> (exit # -1 /\ ~keyDir)

=============================================================================
