---------------------------- MODULE ReleaseGate -----------------------------
(***************************************************************************)
(* The release gate of the kit: the evidence of a project, the manifest    *)
(* that the native runner signs (runner_key.py), the owner's approval      *)
(* (release_approval.py), the validation of all of it (provenance.py,      *)
(* trust_root.py, execution_sources.py, github_compile_evidence.py), and   *)
(* its doors: vkmql-check all (check_all.py), the release attestation      *)
(* (evidence_attestation.py), mql5-ship and mql5-package.                  *)
(*                                                                         *)
(* A file holds the number of the build it comes from; a hash is what it   *)
(* is the hash of.  Other tools and people work on the project between any *)
(* two stages of a gate run.                                               *)
(***************************************************************************)
EXTENDS Naturals

CONSTANTS
    Builds,         \* builds whose files may lie in the project
    Trees, Tree,    \* the source tree (candidate) of each build
    Flawed,         \* <<artifact, build>>: contents its own validation refuses
    Keys,           \* signing keys of native runners
    VerifierKey,    \* VCK_RUNNER_PUBLIC_KEY_B64, or None
    None,
    MaxChanges      \* bound: changes made to the project

ASSUME GateAssumption ==
    /\ None \notin Builds \union Keys \union Trees
    /\ Tree \in [Builds -> Trees]
    /\ MaxChanges \in Nat

VARIABLES
    files,          \* evidence/: the build of each artifact, or None
    manifest,       \* evidence/manifest.json, or None
    pins,           \* RELEASE-TRUST.yaml: the pinned keys, or None
    target,         \* EA-SPEC.yaml: governance.release_target
    approval,       \* the owner's approval, or None
    gate,           \* the run of vkmql-check all
    changes         \* bound

project == <<files, manifest, pins, target, approval>>
gateVars == <<files, manifest, pins, target, approval, gate, changes>>

\* ex5: the compile log, ea.ex5 and the tester report.  input: what
\* RC6_REQUIRED_INPUT_ARTIFACTS, the generated sources and the case logs hold.
Artifacts == {"ex5", "stress", "review", "input"}

\* artifact_paths_for_manifest
Required(p) == IF p.schema = "2.1" THEN Artifacts ELSE Artifacts \ {"input"}

\* The hashes that a manifest over the files f records and a runner signs.
Hashed(f, p) == [a \in Artifacts |-> IF a \in Required(p) THEN f[a] ELSE None]

Evidence == [Artifacts -> Builds \union {None}]
Payloads == [schema : {"2.0", "2.1"}, build : Builds, tree : Trees \union {None},
             native : BOOLEAN, hashes : Evidence]
Signatures == [key : Keys, over : Payloads]
Manifests == [payload : Payloads, sig : Signatures \union {None}]
Targets == {"draft", "forward", "live"}
\* The two files an approval hashes are those of evidence/, or others (None).
Approved == [ex5 : Builds, manifest : Manifests]
Approvals == [of : Approved \union {None}, target : Targets]

GateTypeOK ==
    /\ files \in Evidence
    /\ manifest \in Manifests \union {None}
    /\ pins \in (SUBSET Keys) \union {None}
    /\ target \in Targets
    /\ approval \in Approvals \union {None}
    /\ gate \in [at : {"idle", "compile", "approval", "evidence", "policy"},
                 clean : BOOLEAN, calm : BOOLEAN, eligible : BOOLEAN]
    /\ changes \in 0..MaxChanges

\* A build has been delivered; nobody has signed or approved anything.
GateInit ==
    /\ files \in {[a \in Artifacts |-> b] : b \in Builds}
    /\ manifest = None
    /\ pins \in {None, Keys}
    /\ target \in {"forward", "live"}
    /\ approval = None
    /\ gate = [at |-> "idle", clean |-> TRUE, calm |-> TRUE, eligible |-> FALSE]
    /\ changes = 0

-----------------------------------------------------------------------------
(* validate_release_provenance *)

Present(f, p) == \A a \in Required(p) : f[a] # None

\* verified_hashes: the artifacts whose bytes are those of the manifest's record.
Verified(f, p) == {a \in Required(p) : f[a] # None /\ p.hashes[a] = f[a]}

HashesMatch(f, p) == \A a \in Required(p) : f[a] # None => a \in Verified(f, p)

Sound(f, a) == f[a] # None => <<a, f[a]>> \notin Flawed

\* candidate_source_tree_sha against the manifest's; a 2.0 manifest may name none.
OfCandidate(f, p, a) == p.tree # None => Tree[f[a]] = p.tree

\* _validate_stress_report: with schema 2.1 the case logs must be signed artifacts.
StressOK(f, p) ==
    f["stress"] # None =>
        /\ Sound(f, "stress")
        /\ OfCandidate(f, p, "stress")
        /\ p.schema = "2.1" => "input" \in Verified(f, p)

\* _validate_review_report: with schema 2.1 it names the sources it is about.
ReviewOK(f, p) ==
    f["review"] # None =>
        /\ Sound(f, "review")
        /\ OfCandidate(f, p, "review")
        /\ p.schema = "2.1" /\ "input" \in Verified(f, p) => f["input"] = f["review"]

\* _validate_rc6_input_binding: the inputs are there, and are those that the compile and
\* backtest blocks of the manifest name.
InputOK(f, p) ==
    p.schema = "2.1" =>
        /\ f["input"] # None
        /\ Sound(f, "input")
        /\ "input" \in Verified(f, p) => f["input"] = p.build

\* Mutant: the signature need not be over this payload.
SignatureOfAnything(m) ==
    IF m.sig = None \/ pins = None THEN "missing"
    ELSE IF m.sig.key \notin pins THEN "error"
    ELSE IF VerifierKey = None THEN "missing"
    ELSE IF VerifierKey = m.sig.key THEN "ok" ELSE "error"

\* _verify_runner_attestation, load_trust_root.
Signature(m) ==
    IF m.sig = None \/ pins = None THEN "missing"
    ELSE IF m.sig.key \notin pins THEN "error"
    ELSE IF VerifierKey = None THEN "missing"
    ELSE IF VerifierKey = m.sig.key /\ m.sig.over = m.payload THEN "ok" ELSE "error"

\* The checks that do not wait for the signature.
Coherent(f, p) ==
    /\ p.native
    /\ HashesMatch(f, p)
    /\ Sound(f, "ex5")
    /\ InputOK(f, p) /\ StressOK(f, p) /\ ReviewOK(f, p)

Provenance ==
    IF manifest = None THEN "INCOMPLETE"
    ELSE IF ~Coherent(files, manifest.payload) THEN "FAIL"
    ELSE IF ~Present(files, manifest.payload) \/ Signature(manifest) = "missing"
         THEN "INCOMPLETE"
    ELSE IF Signature(manifest) = "ok" THEN "PASS" ELSE "FAIL"

-----------------------------------------------------------------------------
(* Tools and people who work on the project. *)

Change ==
    /\ changes < MaxChanges
    /\ changes' = changes + 1
    /\ gate' = [gate EXCEPT !.calm = FALSE]

\* A build or a worker leaves an artifact, or one is deleted.
Put(a, b) ==
    /\ files[a] # b
    /\ Change
    /\ files' = [files EXCEPT ![a] = b]
    /\ UNCHANGED <<manifest, pins, target, approval>>

\* A manifest is written over the files as they are: by the native runner, or by
\* write_evidence_manifest after a build without trusted execution sources.
Record(schema, b, tree, native) ==
    /\ schema = "2.1" => native /\ tree = Tree[b]
    /\ tree \in {None, Tree[b]}
    /\ Change
    /\ manifest' = [payload |-> [schema |-> schema, build |-> b, tree |-> tree,
                                 native |-> native, hashes |-> Hashed(files, [schema |-> schema])],
                    sig |-> None]
    /\ UNCHANGED <<files, pins, target, approval>>

\* The records are brought up to date by hand, the signature block stays.
Rehash ==
    /\ manifest # None
    /\ manifest.payload.hashes # Hashed(files, manifest.payload)
    /\ Change
    /\ manifest' = [manifest EXCEPT !.payload.hashes = Hashed(files, manifest.payload)]
    /\ UNCHANGED <<files, pins, target, approval>>

\* cmd_sign refuses a manifest that misdescribes the bytes on disk.
Sign(k) ==
    /\ manifest # None
    /\ Verified(files, manifest.payload) = Required(manifest.payload)
    /\ Change
    /\ manifest' = [manifest EXCEPT !.sig = [key |-> k, over |-> manifest.payload]]
    /\ UNCHANGED <<files, pins, target, approval>>

Pin(ks) ==
    /\ pins # ks
    /\ Change
    /\ pins' = ks
    /\ UNCHANGED <<files, manifest, target, approval>>

SetTarget(t) ==
    /\ target # t
    /\ Change
    /\ target' = t
    /\ UNCHANGED <<files, manifest, pins, approval>>

\* mql5-release-approve: the command line names a build and an evidence file, wherever
\* they lie.
Approve(t) ==
    /\ Change
    /\ \/ /\ files["ex5"] # None /\ manifest # None
          /\ approval' = [of |-> [ex5 |-> files["ex5"], manifest |-> manifest], target |-> t]
       \/ approval' = [of |-> None, target |-> t]
    /\ UNCHANGED <<files, manifest, pins, target>>

-----------------------------------------------------------------------------
(* run_check_all: stage after stage.  Every stage is mandatory for a release, so that *)
(* of the verdicts only "all PASS so far" matters to it.                              *)

StageEnds(pass, next) == gate' = [gate EXCEPT !.clean = @ /\ pass, !.at = next]

\* scan, contract, lint, quality, forward, stress, review and retro read sources and
\* reports the model leaves out: whether all of them pass is chosen here.
Start ==
    /\ gate.at = "idle"
    /\ \E pass \in BOOLEAN :
           gate' = [at |-> "compile", clean |-> pass, calm |-> TRUE, eligible |-> FALSE]
    /\ UNCHANGED <<project, changes>>

\* _stage_env, for compile and backtest: the file and the provenance of the manifest.
StageEnv ==
    /\ gate.at = "compile"
    /\ StageEnds(files["ex5"] # None /\ Provenance = "PASS", "approval")
    /\ UNCHANGED <<project, changes>>

\* Mutant: the hash of the manifest is not compared.
ApprovalOfBinary ==
    /\ approval # None
    /\ approval.target = target
    /\ approval.of # None => approval.of.ex5 = files["ex5"]

\* release_approval.validate: two files that lie elsewhere do not change.
ApprovalHolds ==
    /\ approval # None
    /\ approval.target = target
    /\ approval.of # None => approval.of.ex5 = files["ex5"] /\ approval.of.manifest = manifest

StageApproval ==
    /\ gate.at = "approval"
    /\ StageEnds(target # "draft" /\ ApprovalHolds, "evidence")
    /\ UNCHANGED <<project, changes>>

\* _stage_evidence: the hash chain is built anew just before it is verified.
StageEvidence ==
    /\ gate.at = "evidence"
    /\ StageEnds(Provenance = "PASS", "policy")
    /\ UNCHANGED <<project, changes>>

\* compute_release_eligible
ReleasePolicy ==
    /\ gate.at = "policy"
    /\ gate' = [gate EXCEPT !.at = "idle", !.eligible = gate.clean /\ target = "live"]
    /\ UNCHANGED <<project, changes>>

-----------------------------------------------------------------------------
(* The other doors: evaluate_release_evidence for create_release_attestation, and *)
(* validate_release_manifest for mql5-ship and mql5-package.                      *)

MayAttest == manifest # None /\ Present(files, manifest.payload) /\ Provenance = "PASS"
MayPackage == manifest # None /\ manifest.payload.native /\ Provenance = "PASS"

GateNext ==
    \/ \E a \in Artifacts, b \in Builds \union {None} : Put(a, b)
    \/ \E s \in {"2.0", "2.1"}, b \in Builds, t \in Trees \union {None}, n \in BOOLEAN :
           Record(s, b, t, n)
    \/ Rehash
    \/ \E k \in Keys : Sign(k)
    \/ \E ks \in (SUBSET Keys) \union {None} : Pin(ks)
    \/ \E t \in Targets : SetTarget(t) \/ (t # "draft" /\ Approve(t))
    \/ Start \/ StageEnv \/ StageApproval \/ StageEvidence \/ ReleasePolicy

GateSpec == GateInit /\ [][GateNext]_gateVars

-----------------------------------------------------------------------------
(* Properties. *)

\* What a door lets through is what the holder of a pinned key had before him when he
\* signed: no artifact, no record and no key was exchanged since, whatever was edited
\* and put back in between; and the reports are about the candidate that was built.
OnlyWhatWasSigned ==
    MayAttest \/ MayPackage =>
        /\ manifest.sig.key \in pins
        /\ \A a \in Required(manifest.payload) : files[a] = manifest.sig.over.hashes[a]
        /\ manifest.payload.tree # None =>
               Tree[files["stress"]] = manifest.sig.over.tree
               /\ Tree[files["review"]] = manifest.sig.over.tree

\* A verdict "eligible" of a run during which nobody touched the project is about the
\* project as it lies there: the owner approved it for live use, and this binary and this
\* very manifest if he approved files of the evidence at all; and the evidence is the
\* signed one.  Approval and evidence are judged by two stages that read the files
\* separately.
EligibleAsApproved ==
    gate.eligible /\ gate.calm =>
        /\ target = "live"
        /\ approval # None
        /\ approval.target = target
        /\ approval.of # None => approval.of.ex5 = files["ex5"] /\ approval.of.manifest = manifest
        /\ MayAttest

=============================================================================
