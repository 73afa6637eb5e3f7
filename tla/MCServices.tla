----------------------------- MODULE MCServices -----------------------------
(* An instance of Application, and one of Buckets, for TLC.  They share no   *)
(* state: each behaviour is about one of them, its subject, and the other    *)
(* stays in a state it starts in.                                            *)
EXTENDS Application, Buckets

VARIABLE subject

allVars == <<vars, bucketVars, subject>>

OneFolder == {{1}}

\* What is in the bucket at first: nothing, or enough for two pages, and for a
\* level that is cut in the middle of its second page.
Fillings == {{}, Objects}

MCInit ==
    /\ Init /\ BucketsInit
    /\ \/ subject = "application" /\ ~exists
       \/ subject = "bucket" /\ hosted /\ ready /\ configured /\ present \in Fillings

OfApplication(A) == subject = "application" /\ A /\ UNCHANGED <<bucketVars, subject>>

OfBucket(A) == subject = "bucket" /\ A /\ UNCHANGED <<vars, subject>>

MCNext == OfApplication(Next) \/ OfBucket(BucketsNext)

\* Fairness of Application, and of Buckets.
MCFairness ==
    /\ WF_allVars(OfApplication(Starts))
    /\ \A r \in Requests : WF_allVars(OfApplication(Handles(r)) \/ OfBucket(BucketStep(r)))

MCSpec == MCInit /\ [][MCNext]_allVars /\ MCFairness

\* Every variable of both modules has its type.
ServiceTypes == TypeOK /\ BucketsTypeOK
=============================================================================
