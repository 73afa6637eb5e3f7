--------------------------- MODULE Services_proofs ---------------------------
(***************************************************************************)
(* MCServices runs Application and Buckets as they are.                    *)
(***************************************************************************)
EXTENDS MCServices, Application_proofs, Buckets_proofs

\* A behaviour of MCServices is one of Application and one of Buckets, but for
\* their fairness: the one that is its subject goes as it likes, the other stands
\* still.
THEOREM RunsTheServices == MCSpec => Init /\ [][Next]_vars /\ BucketsSpec
<1>1. MCInit => Init /\ BucketsInit
  BY DEF MCInit
<1>2. [MCNext]_allVars => [Next]_vars /\ [BucketsNext]_bucketVars
  BY DEF MCNext, allVars, OfApplication, OfBucket
<1> QED
  BY <1>1, <1>2, PTL DEF MCSpec, BucketsSpec

\* The variables of the services, of the lifespan, the requests and the buckets
\* have their types.
THEOREM ServicesTyped == MCSpec => []ServiceTypes
<1>1. IInv /\ BucketsTypeOK => ServiceTypes
  BY DEF IInv, ServiceTypes
<1> QED
  BY <1>1, RunsTheServices, InitIInv, NextIInv, BucketsTyped, PTL
=============================================================================
