--------------------------- MODULE MCUploadScenes ---------------------------
(***************************************************************************)
(* An instance of ObjectUpload for TLC: sizes in MB, as in the source.  A  *)
(* behaviour is one of several scenes, each with some of the uploads (all  *)
(* on one key) and its own bound on failures.                              *)
(***************************************************************************)
EXTENDS ObjectUpload

CONSTANTS api, small, path, copy, k1

\* By the API, four full parts (so that the last read is empty) and a file of
\* exactly the threshold, put whole; of local files, two of two parts.
AllUploads == {api, small, path, copy}
OneKey == [u \in AllUploads |-> k1]
Sizes == [u \in AllUploads |-> CASE u = api -> 40 [] u = small -> 5 [] OTHER -> 12]

Scenes == {[uploads |-> {api}, faults |-> 3],
           [uploads |-> {api, small}, faults |-> 1],
           [uploads |-> {api, path}, faults |-> 0],
           [uploads |-> {path, copy}, faults |-> 2],
           [uploads |-> {small, path}, faults |-> 2]}

VARIABLE scene

SceneInit == Init /\ scene \in Scenes

InScene ==
    /\ \A u \in Uploads \ scene.uploads : pc'[u] = "idle"
    /\ faults' <= scene.faults
    /\ UNCHANGED scene

\* FairSpec, for the uploads and the failures of a scene.
SceneSpec ==
    /\ SceneInit
    /\ [][Next /\ InScene]_<<vars, scene>>
    /\ WF_vars(\E u \in scene.uploads : UploadStep(u))
=============================================================================
