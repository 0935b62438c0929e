--------------------------- MODULE DistributionGate ---------------------------
(***************************************************************************)
(* tools/run_distribution_gate.py: two exports of one git tree, two builds *)
(* of the wheel, a verification, a first receipt, the source checks, an    *)
(* installation of the wheel with a smoke run, and a second receipt, all   *)
(* in a fresh private directory that the one-shot runner is given later.   *)
(* The bytes of a file are told apart only by how they relate to the tree  *)
(* the operator means: right, with another file in the package cowbot/,    *)
(* or with another file elsewhere (metadata, the verifier, the build).     *)
(* FrozenRunner composes this module with the runner and lets somebody     *)
(* else change files while the gate works.                                 *)
(***************************************************************************)
EXTENDS Naturals

Flavours == {"right", "package", "other"}

\* What the gate makes below its root and the runner or the gate itself reads
\* again; the two receipts are apart.
Files == {"archive.git", "source-primary.tar", "source-rebuild.tar",
          "source-primary", "source-rebuild", "primary_wheel", "sdist",
          "rebuilt_wheel", "wheel-venv", "wheel-runtime"}

Contents == Flavours \cup {"absent"}

\* A receipt: of which commit, and the digests of what it vouches for.
Receipts == [state : {"absent", "torn", "whole"}, source : Contents,
             archive : Contents, wheel : Contents, rebuilt : Contents,
             sdist : Contents, outputs : Contents]

NoReceipt == [state |-> "absent", source |-> "absent", archive |-> "absent",
              wheel |-> "absent", rebuilt |-> "absent", sdist |-> "absent",
              outputs |-> "absent"]

VARIABLES
  gpc,       \* what the gate does next
  treeish,   \* the tree it was asked to export
  gate,      \* gate[f]: the bytes of each file below the gate root
  noted,     \* digests the gate holds in memory, as in a receipt
  receipts   \* the two receipt files, "distribution" and "smoke"

gateVars == <<gpc, treeish, gate, noted, receipts>>

GateSteps == {"repository", "export", "export_again", "compare", "extract",
              "extract_again", "build", "rebuild", "verify", "distribution",
              "unpack", "exercise", "candidate", "install", "simulate", "outputs",
              "smoke"}

GateTypeOK ==
  /\ gpc \in GateSteps \cup {"done", "failed"}
  /\ treeish \in Flavours
  /\ gate \in [Files -> Contents]
  /\ noted \in Receipts
  /\ receipts \in [{"distribution", "smoke"} -> Receipts]

\* A fresh mkdtemp directory; the tree-ish is resolved once, to object ids.
GateInit ==
  /\ gpc = "repository"
  /\ treeish \in {"right", "other"}
  /\ gate = [f \in Files |-> "absent"]
  /\ noted = [NoReceipt EXCEPT !.source = treeish]
  /\ receipts = [r \in {"distribution", "smoke"} |-> NoReceipt]

\* One step makes one file from what another holds at that moment.
Make(step, file, bytes, next) ==
  /\ gpc = step
  /\ gate' = [gate EXCEPT ![file] = bytes]
  /\ gpc' = next
  /\ UNCHANGED <<treeish, noted, receipts>>

\* A bare repository whose objects are those of the checkout.
ArchiveRepository ==
  Make("repository", "archive.git", treeish, "export")

Export ==
  \/ Make("export", "source-primary.tar", gate["archive.git"], "export_again")
  \/ Make("export_again", "source-rebuild.tar", gate["archive.git"], "compare")

CompareExports ==
  /\ gpc = "compare"
  /\ gate["source-primary.tar"] = gate["source-rebuild.tar"]
  /\ noted' = [noted EXCEPT !.archive = gate["source-primary.tar"]]
  /\ gpc' = "extract"
  /\ UNCHANGED <<treeish, gate, receipts>>

Extract ==
  \/ Make("extract", "source-primary", gate["source-primary.tar"],
          "extract_again")
  \/ Make("extract_again", "source-rebuild", gate["source-rebuild.tar"],
          "build")

\* python -m build makes the wheel and the source distribution.
Build ==
  \/ /\ gpc = "build"
     /\ gate' = [gate EXCEPT !["primary_wheel"] = gate["source-primary"],
                             !["sdist"] = gate["source-primary"]]
     /\ gpc' = "rebuild"
     /\ UNCHANGED <<treeish, noted, receipts>>
  \/ Make("rebuild", "rebuilt_wheel", gate["source-rebuild"], "verify")

\* What verify_distribution finds of artifacts and the sources beside them.
\* The two wheels are the same bytes.
WheelsEqual(wheel, rebuilt) == wheel = rebuilt

\* The wheel has the runtime files of the sources, byte for byte, the metadata
\* the project file asks for, and a RECORD that lists just them.
WheelMatches(source, wheel) == wheel = source

\* The sdist has the files of the sources in its scope, and generated metadata
\* that agrees with them.
SdistMatches(source, sdist) == sdist = source

Consistent(source, wheel, rebuilt, sdist) ==
  /\ WheelMatches(source, wheel)
  /\ WheelsEqual(wheel, rebuilt)
  /\ SdistMatches(source, sdist)

VerifyDistribution ==
  /\ gpc = "verify"
  /\ Consistent(gate["source-primary"], gate["primary_wheel"],
                gate["rebuilt_wheel"], gate["sdist"])
  /\ noted' = [noted EXCEPT !.wheel = gate["primary_wheel"],
                            !.rebuilt = gate["rebuilt_wheel"],
                            !.sdist = gate["sdist"]]
  /\ gpc' = "distribution"
  /\ UNCHANGED <<treeish, gate, receipts>>

\* A receipt is created exclusively and written; a failing write or a kill
\* may leave a part of it.
WriteReceipt(step, r, next) ==
  /\ gpc = step
  /\ \/ /\ receipts' = [receipts EXCEPT ![r] = [noted EXCEPT !.state = "whole"]]
        /\ gpc' = next
     \/ /\ receipts' = [receipts EXCEPT ![r].state = "torn"]
        /\ gpc' = "failed"
  /\ UNCHANGED <<treeish, gate, noted>>

WriteDistributionReceipt ==
  WriteReceipt("distribution", "distribution", "unpack")

\* The sdist is unpacked and its own checks run; they pass or they do not.
UnpackSdist ==
  /\ gpc = "unpack"
  /\ gpc' = "exercise"
  /\ UNCHANGED <<treeish, gate, noted, receipts>>

ExerciseSdist ==
  /\ gpc = "exercise"
  /\ gpc' = "candidate"
  /\ UNCHANGED <<treeish, gate, noted, receipts>>

\* The digest of the wheel once more, then pip opens it by its name.
CheckCandidate ==
  /\ gpc = "candidate"
  /\ gate["primary_wheel"] = noted.wheel
  /\ gpc' = "install"
  /\ UNCHANGED <<treeish, gate, noted, receipts>>

Install == Make("install", "wheel-venv", gate["primary_wheel"], "simulate")

\* What simulate and analyze of a wheel may write: a changed package may still
\* write the right bytes, anything else in a wheel does not change them.
OutputsOf(wheel) == IF wheel = "package" THEN {"right", "package"} ELSE {"right"}

Simulate ==
  \E bytes \in OutputsOf(gate["wheel-venv"]) :
    Make("simulate", "wheel-runtime", bytes, "outputs")

ReadOutputs ==
  /\ gpc = "outputs"
  /\ noted' = [noted EXCEPT !.outputs = gate["wheel-runtime"]]
  /\ gpc' = "smoke"
  /\ UNCHANGED <<treeish, gate, receipts>>

WriteSmokeReceipt == WriteReceipt("smoke", "smoke", "done")

\* A command fails, a check does not hold, or the gate is killed: nothing is
\* removed.
GateFails ==
  /\ gpc \in GateSteps
  /\ gpc' = "failed"
  /\ UNCHANGED <<treeish, gate, noted, receipts>>

GateNext ==
  \/ ArchiveRepository
  \/ Export
  \/ CompareExports
  \/ Extract
  \/ Build
  \/ VerifyDistribution
  \/ WriteDistributionReceipt
  \/ UnpackSdist
  \/ ExerciseSdist
  \/ CheckCandidate
  \/ Install
  \/ Simulate
  \/ ReadOutputs
  \/ WriteSmokeReceipt
  \/ GateFails
==============================================================================
