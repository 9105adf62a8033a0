------------------------------- MODULE Curation -------------------------------
(***************************************************************************)
(* Curation (app/hq/curation/curate.py): an input file is published under  *)
(* a name made of its stem and its hash, registered, and removed.  Any     *)
(* number of curators run at once, none takes a lock, each may die between *)
(* two steps, and an input may be rewritten while it is being curated.     *)
(*                                                                         *)
(* A content stands for its hash.  The route of a file is fixed; the gate  *)
(* is asked for compiled -> staged on an operational lane with a complete  *)
(* context, which it always allows.                                        *)
(***************************************************************************)
EXTENDS TransitionGate

CONSTANTS
    Curators,
    Inputs,        \* input files
    StemOf,        \* input -> sanitized stem
    Contents,
    NoContent,
    MaxRewrites,   \* bound: inputs rewritten
    MaxKilled      \* bound: curators killed, or failing writes

CuratedLanes == {"content_publishing", "ai_stability_diagnostic", "misc_review",
                 "concept_formalization", "video_packaging", "wtpu_content"}
ASSUME CurateGateAssumption ==
    \A lane \in CuratedLanes :
        validate_transition("compiled", "staged", lane, Required("publication_policy"), TRUE)

ASSUME ContentAssumption == NoContent \notin Contents

VARIABLES
    input,         \* input -> its content, or NoContent once removed
    output,        \* <<stem, hash>> -> content published under that name
    artifacts,     \* artifact registry: sha256, path and original name
    curator,       \* curator -> the call of curate_file it is in
    rewrites, killed,
    overlapping    \* bound: curators overlap, or inputs are rewritten, not both

curation_vars == <<input, output, artifacts, curator, rewrites, killed, overlapping>>

OutputNames == {StemOf[f] : f \in Inputs} \X Contents
IdleCurator == [pc |-> "idle", file |-> "none", sha |-> NoContent]
At(c, step) == curator[c].pc = step
Goto(c, step) == curator' = [curator EXCEPT ![c].pc = step]
Return(c) == curator' = [curator EXCEPT ![c] = IdleCurator]
FinalName(c) == <<StemOf[curator[c].file], curator[c].sha>>

CurationInit ==
    /\ input \in [Inputs -> Contents]
    /\ output = [n \in OutputNames |-> NoContent]
    /\ artifacts = {}
    /\ curator = [c \in Curators |-> IdleCurator]
    /\ rewrites = 0 /\ killed = 0
    /\ overlapping \in BOOLEAN

Registered(sha) == \E r \in artifacts : r.sha256 = sha

(* Hash and look up: a registered content is deduplicated (or reported as   *)
(* drift when its output is gone), and the input stays.                     *)
Hash(c, f) ==
    /\ At(c, "idle")
    /\ overlapping \/ \A d \in Curators : At(d, "idle")
    /\ input[f] # NoContent
    /\ ~Registered(input[f])
    /\ curator' = [curator EXCEPT ![c] = [pc |-> "check", file |-> f, sha |-> input[f]]]
    /\ UNCHANGED <<input, output, artifacts, rewrites, killed, overlapping>>

(* An output of that name nobody registered is an error.                    *)
CheckOutput(c) ==
    /\ At(c, "check")
    /\ IF output[FinalName(c)] # NoContent THEN Return(c) ELSE Goto(c, "publish")
    /\ UNCHANGED <<input, output, artifacts, rewrites, killed, overlapping>>

(* The input is copied as it is now, and replaces what has that name.       *)
Publish(c) ==
    /\ At(c, "publish")
    /\ \/ /\ input[curator[c].file] = NoContent
          /\ Return(c) /\ UNCHANGED output
       \/ /\ input[curator[c].file] # NoContent
          /\ output' = [output EXCEPT ![FinalName(c)] = input[curator[c].file]]
          /\ Goto(c, "verify")
    /\ UNCHANGED <<input, artifacts, rewrites, killed, overlapping>>

VerifyHash(c) ==
    /\ At(c, "verify")
    /\ IF output[FinalName(c)] = curator[c].sha THEN Goto(c, "register") ELSE Return(c)
    /\ UNCHANGED <<input, output, artifacts, rewrites, killed, overlapping>>

Register(c) ==
    /\ At(c, "register")
    /\ artifacts' = artifacts \cup {[sha256 |-> curator[c].sha, path |-> FinalName(c),
                                     original |-> curator[c].file]}
    /\ Goto(c, "remove")
    /\ UNCHANGED <<input, output, rewrites, killed, overlapping>>

RemoveInput(c) ==
    /\ At(c, "remove")
    /\ input' = [input EXCEPT ![curator[c].file] = NoContent]
    /\ Return(c)
    /\ UNCHANGED <<output, artifacts, rewrites, killed, overlapping>>

(* Mutant: the input goes once it is published, before it is registered. *)
RemoveEarly(c) ==
    /\ \/ /\ At(c, "register")
          /\ input' = [input EXCEPT ![curator[c].file] = NoContent]
          /\ Goto(c, "remove") /\ UNCHANGED artifacts
       \/ /\ At(c, "remove")
          /\ artifacts' = artifacts \cup {[sha256 |-> curator[c].sha, path |-> FinalName(c),
                                           original |-> curator[c].file]}
          /\ Return(c) /\ UNCHANGED input
    /\ UNCHANGED <<output, rewrites, killed, overlapping>>

RegisterThenRemove(c) == Register(c) \/ RemoveInput(c)

(* Killed, or a write fails: the failing removal is only a warning, and no  *)
(* failure undoes what was published.                                       *)
CurateStops(c) ==
    /\ ~At(c, "idle")
    /\ killed < MaxKilled
    /\ killed' = killed + 1
    /\ Return(c)
    /\ UNCHANGED <<input, output, artifacts, rewrites, overlapping>>

(* An input is rewritten.  When curators overlap as well, the late copy of  *)
(* one can replace what another has registered, so that is kept apart.      *)
Rewrite(f, content) ==
    /\ rewrites < MaxRewrites
    /\ input[f] # NoContent
    /\ ~overlapping
    /\ input' = [input EXCEPT ![f] = content]
    /\ rewrites' = rewrites + 1
    /\ UNCHANGED <<output, artifacts, curator, killed, overlapping>>

CurationNext ==
    \/ \E c \in Curators : \/ \E f \in Inputs : Hash(c, f)
                           \/ CheckOutput(c) \/ Publish(c) \/ VerifyHash(c)
                           \/ RegisterThenRemove(c) \/ CurateStops(c)
    \/ \E f \in Inputs, content \in Contents : Rewrite(f, content)

CurationSpec == CurationInit /\ [][CurationNext]_curation_vars

----------------------------------------------------------------------------
CurationTypeOK ==
    /\ input \in [Inputs -> Contents \cup {NoContent}]
    /\ output \in [OutputNames -> Contents \cup {NoContent}]
    /\ \A r \in artifacts : r.path \in OutputNames /\ r.path[2] = r.sha256

(* What the registry lists is published with the content of its hash, and   *)
(* an input that is gone is listed (curate.py, "Only delete input after     *)
(* successful registry"), however curators overlap, die or are repeated.    *)
CuratedIsKept ==
    /\ \A r \in artifacts : output[r.path] = r.sha256
    /\ \A f \in Inputs : input[f] = NoContent => \E r \in artifacts : r.original = f
=============================================================================
