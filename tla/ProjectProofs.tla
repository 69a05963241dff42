---------------------------- MODULE ProjectProofs ----------------------------
(* Theorems about the release gate, for every set of builds, trees and keys, and about   *)
(* the tools of a project taken together, as MCProject composes them.                    *)
EXTENDS MCProject, ProjectRecordsProofs, RemoteBuildProofs

\* What the stages of a calm run have seen is still there.
StagesHold ==
    gate.calm =>
        /\ gate.clean /\ gate.at \in {"evidence", "policy"} => ApprovalHolds
        /\ gate.clean /\ gate.at = "policy" => Provenance = "PASS"
        /\ gate.eligible => /\ gate.at = "idle"
                            /\ target = "live"
                            /\ ApprovalHolds
                            /\ Provenance = "PASS"

GateInv == GateTypeOK /\ StagesHold

-----------------------------------------------------------------------------

\* The verdict PASS of validate_release_provenance and what it stands on.
LEMMA PassStandsOn ==
    ASSUME Provenance = "PASS"
    PROVE  /\ manifest # None
           /\ Present(files, manifest.payload)
           /\ Coherent(files, manifest.payload)
           /\ Signature(manifest) = "ok"
  BY DEF Provenance

\* A signature that holds: by a pinned key, over the payload as it is.
LEMMA SignatureStandsOn ==
    ASSUME Signature(manifest) = "ok"
    PROVE  /\ manifest.sig # None
           /\ manifest.sig.key \in pins
           /\ manifest.sig.over = manifest.payload
<1>1. CASE manifest.sig = None \/ pins = None
  BY <1>1 DEF Signature
<1>2. CASE manifest.sig # None /\ pins # None
  BY <1>2 DEF Signature
<1> QED BY <1>1, <1>2

-----------------------------------------------------------------------------

LEMMA ChangeEnds ==
    ASSUME GateTypeOK, Change
    PROVE  /\ gate' = [gate EXCEPT !.calm = FALSE]
           /\ gate'.calm = FALSE
           /\ changes' \in 0..MaxChanges
  BY GateAssumption DEF Change, GateTypeOK

LEMMA HashedTypes == GateTypeOK => \A p : Hashed(files, p) \in Evidence
  BY DEF GateTypeOK, Hashed, Evidence

LEMMA GateTypesKept == GateTypeOK /\ [GateNext]_gateVars => GateTypeOK'
<1> SUFFICES ASSUME GateTypeOK, [GateNext]_gateVars PROVE GateTypeOK'
  OBVIOUS
<1> USE GateAssumption
<1> DEFINE Gates == [at : {"idle", "compile", "approval", "evidence", "policy"},
                     clean : BOOLEAN, calm : BOOLEAN, eligible : BOOLEAN]
<1>0. gate \in Gates
  BY DEF GateTypeOK
<1>c. Change => gate' \in Gates /\ changes' \in 0..MaxChanges
  BY <1>0, ChangeEnds
<1>1. ASSUME NEW f \in Artifacts, NEW n \in Builds \union {None}, Put(f, n)
      PROVE  GateTypeOK'
  <2>1. files' \in Evidence
    BY <1>1 DEF Put, GateTypeOK, Evidence
  <2> QED BY <2>1, <1>1, <1>c DEF Put, GateTypeOK
<1>2. ASSUME NEW s \in {"2.0", "2.1"}, NEW v \in Builds, NEW t \in Trees \union {None},
             NEW n \in BOOLEAN, Record(s, v, t, n)
      PROVE  GateTypeOK'
  <2>1. [schema |-> s, build |-> v, tree |-> t, native |-> n,
         hashes |-> Hashed(files, [schema |-> s])] \in Payloads
    BY HashedTypes DEF GateTypeOK, Payloads
  <2>2. manifest' \in Manifests
    BY <1>2, <2>1 DEF Record, Manifests
  <2> QED BY <2>2, <1>2, <1>c DEF Record, GateTypeOK
<1>3. ASSUME Rehash PROVE GateTypeOK'
  <2>1. manifest \in Manifests
    BY <1>3 DEF Rehash, GateTypeOK
  <2>2. [manifest.payload EXCEPT !.hashes = Hashed(files, manifest.payload)] \in Payloads
    BY <2>1, HashedTypes DEF GateTypeOK, Payloads, Manifests
  <2>3. manifest' = [payload |-> [manifest.payload EXCEPT
                                     !.hashes = Hashed(files, manifest.payload)],
                     sig |-> manifest.sig]
    BY <1>3, <2>1 DEF Rehash, Manifests
  <2>4. manifest' \in Manifests
    BY <2>1, <2>2, <2>3 DEF Manifests
  <2> QED BY <2>4, <1>3, <1>c DEF Rehash, GateTypeOK
<1>4. ASSUME NEW k \in Keys, Sign(k) PROVE GateTypeOK'
  <2>1. manifest \in Manifests
    BY <1>4 DEF Sign, GateTypeOK
  <2>2. [key |-> k, over |-> manifest.payload] \in Signatures
    BY <2>1 DEF Signatures, Manifests
  <2>3. manifest' = [payload |-> manifest.payload,
                     sig |-> [key |-> k, over |-> manifest.payload]]
    BY <1>4, <2>1 DEF Sign, Manifests
  <2>4. manifest' \in Manifests
    BY <2>1, <2>2, <2>3 DEF Manifests
  <2> QED BY <2>4, <1>4, <1>c DEF Sign, GateTypeOK
<1>5. ASSUME NEW ks \in (SUBSET Keys) \union {None}, Pin(ks) PROVE GateTypeOK'
  BY <1>5, <1>c DEF Pin, GateTypeOK
<1>6. ASSUME NEW t \in Targets, SetTarget(t) PROVE GateTypeOK'
  BY <1>6, <1>c DEF SetTarget, GateTypeOK
<1>7. ASSUME NEW t \in Targets, Approve(t) PROVE GateTypeOK'
  <2>1. files["ex5"] # None /\ manifest # None
           => [ex5 |-> files["ex5"], manifest |-> manifest] \in Approved
    BY DEF GateTypeOK, Evidence, Artifacts, Approved
  <2>2. approval' \in Approvals
    BY <1>7, <2>1 DEF Approve, Approvals
  <2> QED BY <2>2, <1>7, <1>c DEF Approve, GateTypeOK
<1>8. CASE Start
  BY <1>8 DEF Start, GateTypeOK, project
<1>9. CASE StageEnv
  BY <1>0, <1>9 DEF StageEnv, StageEnds, GateTypeOK, project
<1>10. CASE StageApproval
  BY <1>0, <1>10 DEF StageApproval, StageEnds, GateTypeOK, project
<1>11. CASE StageEvidence
  BY <1>0, <1>11 DEF StageEvidence, StageEnds, GateTypeOK, project
<1>12. CASE ReleasePolicy
  BY <1>0, <1>12 DEF ReleasePolicy, GateTypeOK, project
<1>13. CASE UNCHANGED gateVars
  BY <1>13 DEF gateVars, GateTypeOK
<1> QED BY <1>1, <1>2, <1>3, <1>4, <1>5, <1>6, <1>7, <1>8, <1>9, <1>10, <1>11, <1>12, <1>13
        DEF GateNext

\* While the project stays as it is, so do the verdicts about it.
LEMMA VerdictsStand ==
    ASSUME UNCHANGED project
    PROVE  Provenance' = Provenance /\ ApprovalHolds' = ApprovalHolds
<1>1. /\ files' = files /\ manifest' = manifest /\ pins' = pins
      /\ target' = target /\ approval' = approval
  BY DEF project
<1>2. (manifest # None => Signature(manifest)' = Signature(manifest))
  BY <1>1 DEF Signature
<1>3. Provenance' = Provenance
  BY <1>1, <1>2 DEF Provenance, Signature, Coherent, Present, HashesMatch, Verified, Sound, InputOK,
                    StressOK, ReviewOK, OfCandidate, Required
<1>4. ApprovalHolds' = ApprovalHolds
  BY <1>1 DEF ApprovalHolds
<1> QED BY <1>3, <1>4

LEMMA StagesKept == GateInv /\ [GateNext]_gateVars => StagesHold'
<1> SUFFICES ASSUME GateInv, [GateNext]_gateVars PROVE StagesHold'
  OBVIOUS
<1> DEFINE Gates == [at : {"idle", "compile", "approval", "evidence", "policy"},
                     clean : BOOLEAN, calm : BOOLEAN, eligible : BOOLEAN]
<1>0. gate \in Gates /\ StagesHold
  BY DEF GateInv, GateTypeOK
<1>1. CASE Change
  BY <1>1, ChangeEnds DEF GateInv, StagesHold
<1>2. CASE Start
  BY <1>2 DEF Start, StagesHold
<1>3. CASE StageEnv
  BY <1>0, <1>3, VerdictsStand DEF StageEnv, StageEnds, StagesHold
<1>4. CASE StageApproval
  BY <1>0, <1>4, VerdictsStand DEF StageApproval, StageEnds, StagesHold
<1>5. CASE StageEvidence
  BY <1>0, <1>5, VerdictsStand DEF StageEvidence, StageEnds, StagesHold
<1>6. CASE ReleasePolicy
  <2>1. target' = target
    BY <1>6 DEF ReleasePolicy, project
  <2> QED BY <1>0, <1>6, <2>1, VerdictsStand DEF ReleasePolicy, StagesHold
<1>7. CASE UNCHANGED gateVars
  <2>1. UNCHANGED project /\ gate' = gate /\ target' = target
    BY <1>7 DEF gateVars, project
  <2> QED BY <1>0, <2>1, VerdictsStand DEF StagesHold
<1> QED BY <1>1, <1>2, <1>3, <1>4, <1>5, <1>6, <1>7
        DEF GateNext, Put, Record, Rehash, Sign, Pin, SetTarget, Approve

LEMMA GateInvHolds == GateSpec => []GateInv
<1>1. GateInit => GateInv
  <2> SUFFICES ASSUME GateInit PROVE GateInv
    OBVIOUS
  <2>1. files \in Evidence
    BY DEF GateInit, Evidence
  <2> QED BY <2>1, GateAssumption DEF GateInit, GateInv, GateTypeOK, StagesHold, Targets
<1>2. GateInv /\ [GateNext]_gateVars => GateInv'
  BY GateTypesKept, StagesKept DEF GateInv
<1> QED BY <1>1, <1>2, PTL DEF GateSpec

-----------------------------------------------------------------------------

\* The files and records of the gate always have their types.
THEOREM GateTypes == GateSpec => []GateTypeOK
  BY GateInvHolds, PTL DEF GateInv

\* In every state of any project a door lets through only what was signed by the holder
\* of a pinned key: validate_release_provenance and its callers.
THEOREM DoorsOpenForSigned == GateSpec => []OnlyWhatWasSigned
<1>1. OnlyWhatWasSigned
  <2> SUFFICES ASSUME Provenance = "PASS"
      PROVE  /\ manifest.sig.key \in pins
             /\ \A f \in Required(manifest.payload) :
                    files[f] = manifest.sig.over.hashes[f]
             /\ manifest.payload.tree # None =>
                    Tree[files["stress"]] = manifest.sig.over.tree
                    /\ Tree[files["review"]] = manifest.sig.over.tree
    BY DEF OnlyWhatWasSigned, MayAttest, MayPackage
  <2>1. /\ Present(files, manifest.payload)
        /\ Coherent(files, manifest.payload)
        /\ manifest.sig.key \in pins
        /\ manifest.sig.over = manifest.payload
    BY PassStandsOn, SignatureStandsOn
  <2>2. \A f \in Required(manifest.payload) : files[f] = manifest.payload.hashes[f]
    BY <2>1 DEF Present, Coherent, HashesMatch, Verified
  <2>3. "stress" \in Required(manifest.payload) /\ "review" \in Required(manifest.payload)
    BY DEF Required, Artifacts
  <2>4. files["stress"] # None /\ files["review"] # None
    BY <2>1, <2>3 DEF Present
  <2>5. manifest.payload.tree # None =>
            Tree[files["stress"]] = manifest.payload.tree
            /\ Tree[files["review"]] = manifest.payload.tree
    BY <2>1, <2>4 DEF Coherent, StressOK, ReviewOK, OfCandidate
  <2> QED BY <2>1, <2>2, <2>5
<1> QED BY <1>1, PTL

\* An undisturbed run of vkmql-check all calls eligible only what the owner approved and
\* the runner signed, over all the stages that read the files one by one.
THEOREM EligibleMeansApproved == GateSpec => []EligibleAsApproved
<1>1. GateInv => EligibleAsApproved
  <2> SUFFICES ASSUME StagesHold, gate.eligible, gate.calm
      PROVE  EligibleAsApproved
    BY DEF GateInv, EligibleAsApproved
  <2>1. target = "live" /\ ApprovalHolds /\ Provenance = "PASS"
    BY DEF StagesHold
  <2>2. MayAttest
    BY <2>1, PassStandsOn DEF MayAttest
  <2> QED BY <2>1, <2>2 DEF EligibleAsApproved, ApprovalHolds
<1> QED BY <1>1, GateInvHolds, PTL

-----------------------------------------------------------------------------
(* The tools together *)

\* Each tool behaves in the composition as it does alone.
LEMMA ToolsStepAlone ==
    [Next]_projectVars =>
        /\ UNCHANGED part
        /\ [JobNext]_jobVars /\ [GateNext]_gateVars /\ [TipNext]_tipVars
        /\ [EscNext]_escVars /\ [CompileNext]_compileVars
<1> SUFFICES ASSUME [Next]_projectVars
             PROVE  /\ UNCHANGED part
                    /\ [JobNext]_jobVars /\ [GateNext]_gateVars /\ [TipNext]_tipVars
                    /\ [EscNext]_escVars /\ [CompileNext]_compileVars
  OBVIOUS
<1>1. CASE JobNext /\ UNCHANGED <<part, gateVars, tipVars, escVars, compileVars>>
  BY <1>1
<1>2. CASE GateNext /\ UNCHANGED <<part, jobVars, tipVars, escVars, compileVars>>
  BY <1>2
<1>3. CASE TipNext /\ UNCHANGED <<part, jobVars, gateVars, escVars, compileVars>>
  BY <1>3
<1>4. CASE EscNext /\ UNCHANGED <<part, jobVars, gateVars, tipVars, compileVars>>
  BY <1>4
<1>5. CASE CompileNext /\ UNCHANGED <<part, jobVars, gateVars, tipVars, escVars>>
  BY <1>5
<1>6. CASE UNCHANGED projectVars
  BY <1>6 DEF projectVars
<1> QED BY <1>1, <1>2, <1>3, <1>4, <1>5, <1>6 DEF Next

LEMMA ToolsBehaveAlone ==
    Spec => /\ [](part \in Parts)
            /\ JobSpec /\ GateSpec /\ TipSpec /\ EscSpec /\ CompileSpec
<1>1. Init => /\ part \in Parts
              /\ JobInit /\ GateInit /\ TipInit /\ EscInit /\ CompileInit
  BY DEF Init
<1>2. part \in Parts /\ UNCHANGED part => (part \in Parts)'
  OBVIOUS
<1> QED BY <1>1, <1>2, ToolsStepAlone, PTL
        DEF Spec, JobSpec, GateSpec, TipSpec, EscSpec, CompileSpec

\* None of the five tools, of which one runs, ever leaves the types of any of them.
THEOREM ProjectTypes == Spec => []TypeOK
<1>1. (part \in Parts) /\ JobTypeOK /\ GateTypeOK /\ TipTypeOK /\ EscTypeOK /\ CompileTypeOK
          => TypeOK
  BY DEF TypeOK
<1> QED BY <1>1, ToolsBehaveAlone, JobTypes, GateTypes, TipTypes, EscTypes, CompileTypes, PTL

=============================================================================
