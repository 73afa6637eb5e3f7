--------------------------- MODULE MCObjectUpload ---------------------------
(* An instance of ObjectUpload for TLC: sizes in MB, as in the source.     *)
EXTENDS ObjectUpload

CONSTANTS api, k1

\* One upload by the API, of three parts.
OneUpload == {api}
OneKeyOf == [u \in OneUpload |-> k1]
OneSize == [u \in OneUpload |-> 25]
=============================================================================
