------------------------------ MODULE MCWorkflows ------------------------------
(***************************************************************************)
(* Small instances of the workflows of app: capture, curation, intake, the *)
(* governed shell and the letters of light.  They share no file, so they   *)
(* are explored one at a time, the others at rest.                         *)
(***************************************************************************)
EXTENDS CapturePipeline, Curation, FileIntake, GovernedShell, LettersRelease, TLC

VARIABLE part

(* CapturePipeline: two similar fragments, each of which may be a bundle. *)
OneTopic == <<"a", "a">>
OneSpine == [t \in {"a"} |-> "content_publishing"]

(* Curation: two inputs of one stem. *)
OneStem == [f \in Inputs |-> "s"]

(* FileIntake: two files of one text, one that only noted, an empty one.   *)
Document(bytes, class, text) == [bytes |-> bytes, class |-> class, text |-> text]
FewDocuments == {Document(1, "text", "t"), Document(2, "text", "t"), Document(3, "text", "u"),
                 Document(4, "too_large", "v"), Document(5, "empty", "")}

(* GovernedShell: allowed, to be confirmed, denied, not normalizable. *)
ShellOp(flaws, recurse) == [flaws |-> flaws, recurse |-> recurse]
ShellProposals == {
    [flaws |-> {}, ops |-> <<ShellOp({}, TRUE)>>],
    [flaws |-> {}, ops |-> <<ShellOp({}, FALSE)>>],
    [flaws |-> {}, ops |-> <<ShellOp({}, FALSE), ShellOp({"write_not_allowed", "unknown_binding"}, TRUE)>>],
    [flaws |-> {"path_invalid"}, ops |-> <<ShellOp({}, FALSE)>>]}
EmptyProposal == [flaws |-> {}, ops |-> <<>>]

(* Two actors, whatever they run, are interchangeable.                     *)
Actors == Permutations(Shells)

all_vars == <<part, cap_vars, curation_vars, intake_vars, shell_vars, release_vars>>

Init ==
    /\ part \in {"capture", "curation", "intake", "shell", "release"}
    /\ CaptureInit /\ CurationInit /\ IntakeInit /\ ShellInit /\ ReleaseInit
    /\ part # "capture" => installed
    /\ part # "curation" => overlapping /\ input = [f \in Inputs |-> CHOOSE k \in Contents : TRUE]
    /\ part # "intake" => source = [f \in Paths |-> CHOOSE d \in Documents : TRUE]
    /\ part # "shell" => proposal_file = CHOOSE p \in Proposals : TRUE
    /\ part # "release" => site_index = Letters

Next ==
    \/ /\ part = "capture" /\ CaptureNext
       /\ UNCHANGED <<part, curation_vars, intake_vars, shell_vars, release_vars>>
    \/ /\ part = "curation" /\ CurationNext
       /\ UNCHANGED <<part, cap_vars, intake_vars, shell_vars, release_vars>>
    \/ /\ part = "intake" /\ IntakeNext
       /\ UNCHANGED <<part, cap_vars, curation_vars, shell_vars, release_vars>>
    \/ /\ part = "shell" /\ ShellNext
       /\ UNCHANGED <<part, cap_vars, curation_vars, intake_vars, release_vars>>
    \/ /\ part = "release" /\ ReleaseNext
       /\ UNCHANGED <<part, cap_vars, curation_vars, intake_vars, shell_vars>>

Spec == Init /\ [][Next]_all_vars

TypeOK == CaptureTypeOK /\ CurationTypeOK /\ IntakeTypeOK /\ ShellTypeOK /\ ReleaseTypeOK
=============================================================================
