--------------------------- MODULE MCRuntimeConfig ---------------------------
(***************************************************************************)
(* Small instances of RuntimeConfig: the URL of the AI provider, its key,  *)
(* its model, which may be empty, and the key of the supervised service.   *)
(***************************************************************************)
EXTENDS RuntimeConfig

CONSTANTS old, new, inner, blank, k1, k2, w1, p1, p2

MCBaseUrl == "AI_BASE_URL"
MCSettings == {MCBaseUrl, "AI_API_KEY", "AI_MODEL"}
MCSecrets == {"AI_API_KEY"}
MCBlankable == {"AI_MODEL"}
MCEnv == [k \in MCSettings |-> old]

\* The page saves a model with a URL, which may be one inside the deployment's
\* own network, or a URL with its key and the model cleared.  A cleared key is
\* refused.
MCEdits ==
    {[k \in {MCBaseUrl, "AI_MODEL"} |-> IF k = MCBaseUrl THEN inner ELSE new],
     [k \in MCSettings |-> IF k = "AI_MODEL" THEN blank ELSE new],
     [k \in MCSecrets |-> blank]}
MCReverted == {MCBaseUrl}
MCWorkerOf == [p \in Pass |-> w1]

\* Two secrets, for the rotation of their key.
TwoSecrets == {"AI_API_KEY", "JULES_API_KEY"}
TwoSecretSettings == {MCBaseUrl} \cup TwoSecrets
TwoSecretEnv == [k \in TwoSecretSettings |-> old]
TwoSecretEdits == {[k \in TwoSecrets |-> new]}
=============================================================================
