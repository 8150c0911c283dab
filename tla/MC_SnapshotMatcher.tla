------------------------- MODULE MC_SnapshotMatcher -------------------------
(***************************************************************************)
(* Model values for SnapshotMatcher: an Application with two Components,   *)
(* one build for each, with image references in the form the build         *)
(* pipeline reports them (IMAGE_URL with a tag, IMAGE_DIGEST).  b3 is a    *)
(* second PipelineRun that built the same image for cA as b1 (a rerun).    *)
(* b4 is a build of cB whose run reports no IMAGE_DIGEST.  A third         *)
(* Component cC may join the Application with its own image.  In the Port  *)
(* variant cB's images live in a registry addressed with a port.           *)
(***************************************************************************)
EXTENDS SnapshotMatcher

CONSTANTS cA, cB, cC, b1, b2, b3, b4

MCComponents == {cA, cB}
\* cC is added to the Application while builds are handled.
MCComponentsC == {cA, cB, cC}
MCBuilds == {b1, b2}
\* b4 has no IMAGE_DIGEST and is requeued by every attempt.
MCBuildsMissing == {b1, b2, b4}
MCBuildsRerun == {b1, b2, b3}
MCBuildsAll == {b1, b2, b3, b4}
MCBuildComponent == (b1 :> cA) @@ (b2 :> cB) @@ (b3 :> cA) @@ (b4 :> cB)
URL(registry, port, repository, tag) ==
    [registry |-> registry, port |-> port, repository |-> repository, tag |-> tag]
MCOutputImage == (b1 :> URL("quay.io", "", "r/a", "v2")) @@ (b2 :> URL("quay.io", "", "r/b", "v2"))
                     @@ (b3 :> URL("quay.io", "", "r/a", "v2")) @@ (b4 :> URL("quay.io", "", "r/b", "v3"))
\* cB's images are pushed to a registry reached on an explicit port.
MCOutputImagePort == [MCOutputImage EXCEPT ![b2] = URL("registry.svc", "5000", "ns/b", "v2")]
MCOutputDigest == (b1 :> "sha256:a2") @@ (b2 :> "sha256:b2") @@ (b3 :> "sha256:a2") @@ (b4 :> NoResult)
\* b2's run carries no IMAGE_DIGEST result.
MCInitialImage == (cA :> <<"quay.io/r/a", "sha256:a1">>) @@ (cB :> <<"quay.io/r/b", "sha256:b1">>)
MCInitialImagePort == [MCInitialImage EXCEPT ![cB] = <<"registry.svc:5000/ns/b", "sha256:b1">>]
MCInitialImageC == MCInitialImage @@ (cC :> <<"quay.io/r/c", "sha256:c1">>)
=============================================================================
