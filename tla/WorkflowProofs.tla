----------------------------- MODULE WorkflowProofs -----------------------------
(***************************************************************************)
(* Proofs about the workflows of the HQ, the shell and the releases, each  *)
(* under its own specification, for every number of processes, every       *)
(* content and every bound; and of all of them side by side.               *)
(***************************************************************************)
EXTENDS MCWorkflows, FiniteSetTheorems, WellFoundedInduction, TLAPS

----------------------------------------------------------------------------
(* Curation.                                                                *)
CuratorSteps == {"idle", "check", "publish", "verify", "register", "remove"}
Calls == [pc : CuratorSteps, file : Inputs \cup {"none"}, sha : Contents \cup {NoContent}]

CurationTypes ==
    /\ input \in [Inputs -> Contents \cup {NoContent}]
    /\ output \in [OutputNames -> Contents \cup {NoContent}]
    /\ \A r \in artifacts : r.path \in OutputNames /\ r.path[2] = r.sha256
    /\ curator \in [Curators -> Calls]
    /\ \A c \in Curators : ~At(c, "idle") => curator[c].file \in Inputs /\ curator[c].sha \in Contents
    /\ overlapping \in BOOLEAN

(* What a call relies on from its own step on.                              *)
StepsAreBacked ==
    \A c \in Curators : /\ At(c, "register") => output[FinalName(c)] = curator[c].sha
                        /\ At(c, "remove") => \E r \in artifacts : r.original = curator[c].file

(* While curators overlap, no input is rewritten: a call's input is what it *)
(* hashed or gone, and an output is the content of its name.                *)
OverlapIsHarmless ==
    overlapping =>
        /\ \A c \in Curators : ~At(c, "idle") => input[curator[c].file] \in {curator[c].sha, NoContent}
        /\ \A n \in OutputNames : output[n] \in {NoContent, n[2]}

(* While inputs are rewritten one curator works, and replaces no output.    *)
OneAtATime ==
    ~overlapping =>
        /\ \A c, d \in Curators : ~At(c, "idle") /\ ~At(d, "idle") => c = d
        /\ \A c \in Curators : At(c, "publish") => output[FinalName(c)] = NoContent

CurationInv == CurationTypes /\ StepsAreBacked /\ OverlapIsHarmless /\ OneAtATime /\ CuratedIsKept

LEMMA IdleCuratorTyped == IdleCurator \in Calls /\ IdleCurator.pc = "idle"
  BY DEF IdleCurator, Calls, CuratorSteps

LEMMA CurationInitInv == CurationInit => CurationInv
  <1> SUFFICES ASSUME CurationInit PROVE CurationInv
    OBVIOUS
  <1> USE DEF CurationInit
  <1>1. \A c \in Curators : curator[c] = IdleCurator /\ curator[c].pc = "idle"
    BY IdleCuratorTyped
  <1>2. CurationTypes
    BY <1>1, IdleCuratorTyped DEF CurationTypes, At
  <1>3. CuratedIsKept
    BY ContentAssumption DEF CuratedIsKept
  <1>4. StepsAreBacked /\ OverlapIsHarmless /\ OneAtATime
    BY <1>1 DEF StepsAreBacked, OverlapIsHarmless, OneAtATime, At
  <1> QED  BY <1>2, <1>3, <1>4 DEF CurationInv

LEMMA CurationStepInv == CurationInv /\ [CurationNext]_curation_vars => CurationInv'
  <1> SUFFICES ASSUME CurationInv, [CurationNext]_curation_vars PROVE CurationInv'
    OBVIOUS
  <1> USE DEF CurationInv
  <1>t. ASSUME NEW c \in Curators, ~At(c, "idle")
        PROVE  /\ curator[c].file \in Inputs /\ curator[c].sha \in Contents
               /\ FinalName(c) \in OutputNames /\ FinalName(c)[2] = curator[c].sha
    BY <1>t DEF CurationTypes, FinalName, OutputNames
  (* Steps that only move a curator on.                                     *)
  <1>g. ASSUME NEW c \in Curators, ~At(c, "idle"), NEW pc \in CuratorSteps, Goto(c, pc), pc # "idle",
               UNCHANGED <<input, output, artifacts, overlapping>>,
               pc = "register" => output[FinalName(c)] = curator[c].sha,
               pc = "publish" => output[FinalName(c)] = NoContent,
               pc = "remove" => \E r \in artifacts : r.original = curator[c].file
        PROVE  CurationInv'
    <2>1. /\ curator' \in [Curators -> Calls] /\ curator'[c].pc = pc
          /\ curator'[c].file = curator[c].file /\ curator'[c].sha = curator[c].sha
          /\ \A d \in Curators \ {c} : curator'[d] = curator[d]
      BY <1>g DEF Goto, CurationTypes, Calls
    <2>2. CurationTypes'
      BY <2>1, <1>g DEF CurationTypes, At
    <2>3. StepsAreBacked'
      BY <2>1, <1>g DEF StepsAreBacked, At, FinalName
    <2>4. OverlapIsHarmless'
      BY <2>1, <1>g DEF OverlapIsHarmless, At
    <2>5. OneAtATime'
      BY <2>1, <1>g DEF OneAtATime, At, FinalName
    <2> QED  BY <2>2, <2>3, <2>4, <2>5, <1>g DEF CuratedIsKept
  (* Steps that end a call.                                                 *)
  <1>r. ASSUME NEW c \in Curators, Return(c), UNCHANGED <<input, output, artifacts, overlapping>>
        PROVE  CurationInv'
    <2>1. /\ curator' \in [Curators -> Calls] /\ curator'[c].pc = "idle"
          /\ \A d \in Curators \ {c} : curator'[d] = curator[d]
      BY <1>r, IdleCuratorTyped DEF Return, CurationTypes
    <2>2. CurationTypes'
      BY <2>1, <1>r DEF CurationTypes, At
    <2>3. StepsAreBacked' /\ OverlapIsHarmless' /\ OneAtATime'
      BY <2>1, <1>r DEF StepsAreBacked, OverlapIsHarmless, OneAtATime, At, FinalName
    <2> QED  BY <2>2, <2>3, <1>r DEF CuratedIsKept
  <1>1. ASSUME NEW c \in Curators, NEW f \in Inputs, Hash(c, f) PROVE CurationInv'
    <2>1. /\ curator' \in [Curators -> Calls] /\ curator'[c].pc = "check"
          /\ curator'[c].file = f /\ curator'[c].sha = input[f]
          /\ \A d \in Curators \ {c} : curator'[d] = curator[d]
          /\ input[f] \in Contents /\ UNCHANGED <<input, output, artifacts, overlapping>>
      BY <1>1 DEF Hash, CurationTypes, Calls, CuratorSteps
    <2>2. CurationTypes'
      BY <2>1 DEF CurationTypes, At
    <2>3. StepsAreBacked' /\ OverlapIsHarmless'
      BY <2>1 DEF StepsAreBacked, OverlapIsHarmless, At, FinalName
    <2>4. OneAtATime'
      BY <2>1, <1>1 DEF OneAtATime, At, FinalName, Hash
    <2> QED  BY <2>1, <2>2, <2>3, <2>4 DEF CuratedIsKept
  <1>2. ASSUME NEW c \in Curators, CheckOutput(c) PROVE CurationInv'
    <2>1. ~At(c, "idle") /\ "publish" \in CuratorSteps
      BY <1>2 DEF CheckOutput, At, CuratorSteps
    <2>2. CASE output[FinalName(c)] # NoContent  BY <1>2, <2>2, <1>r DEF CheckOutput
    <2>3. CASE output[FinalName(c)] = NoContent  BY <1>2, <2>1, <2>3, <1>g DEF CheckOutput
    <2> QED  BY <2>2, <2>3
  <1>3. ASSUME NEW c \in Curators, Publish(c) PROVE CurationInv'
    <2>1. CASE input[curator[c].file] = NoContent  BY <1>3, <2>1, <1>r DEF Publish
    <2>2. CASE input[curator[c].file] # NoContent
      <3> DEFINE n == FinalName(c)  f == curator[c].file
      <3>1. ~At(c, "idle") /\ n \in OutputNames /\ n[2] = curator[c].sha /\ f \in Inputs
        BY <1>3, <1>t DEF Publish, At
      <3>2. /\ curator' \in [Curators -> Calls] /\ curator'[c].pc = "verify"
            /\ curator'[c].file = curator[c].file /\ curator'[c].sha = curator[c].sha
            /\ \A d \in Curators \ {c} : curator'[d] = curator[d]
        BY <1>3, <2>2 DEF Publish, Goto, CurationTypes, Calls, CuratorSteps
      <3>3. /\ output' = [output EXCEPT ![n] = input[f]] /\ UNCHANGED <<input, artifacts, overlapping>>
            /\ output \in [OutputNames -> Contents \cup {NoContent}] /\ input[f] \in Contents
        BY <1>3, <2>2, <3>1 DEF Publish, CurationTypes
      <3>4. overlapping => input[f] = n[2]
        BY <2>2, <3>1 DEF OverlapIsHarmless
      <3>5. ~overlapping => output[n] = NoContent
        BY <1>3 DEF OneAtATime, Publish
      <3> HIDE DEF n, f
      <3>6. output' \in [OutputNames -> Contents \cup {NoContent}] /\ output'[n] = input[f]
            /\ \A m \in OutputNames \ {n} : output'[m] = output[m]
        BY <3>1, <3>3
      <3>7. CurationTypes'
        BY <3>1, <3>2, <3>3, <3>6 DEF CurationTypes, At, f
      <3>8. \A d \in Curators \ {c} : ~At(d, "idle") => overlapping
        BY <3>1 DEF OneAtATime
      <3>9. StepsAreBacked'
        <4>1. ASSUME NEW d \in Curators, At(d, "register")' PROVE (output[FinalName(d)] = curator[d].sha)'
          <5>1. d # c /\ At(d, "register") /\ ~At(d, "idle")  BY <4>1, <3>2 DEF At
          <5>2. output[FinalName(d)] = curator[d].sha /\ FinalName(d) \in OutputNames /\ FinalName(d)[2] = curator[d].sha
            BY <5>1, <1>t DEF StepsAreBacked
          <5>3. FinalName(d)' = FinalName(d) /\ curator'[d] = curator[d]  BY <5>1, <3>2 DEF FinalName
          <5> QED  BY <5>1, <5>2, <5>3, <3>4, <3>6, <3>8
        <4> QED  BY <4>1, <3>2, <3>3 DEF StepsAreBacked, At
      <3>10. OverlapIsHarmless'
        BY <3>2, <3>3, <3>4, <3>6, <1>3 DEF OverlapIsHarmless, At, Publish
      <3>11. OneAtATime'
        BY <3>1, <3>2, <3>3, <3>8 DEF OneAtATime, At
      <3>12. CuratedIsKept'
        <4>1. ASSUME NEW r \in artifacts PROVE output'[r.path] = r.sha256
          <5>1. output[r.path] = r.sha256 /\ r.path \in OutputNames /\ r.path[2] = r.sha256 /\ r.sha256 \in Contents
            BY DEF CuratedIsKept, CurationTypes, OutputNames
          <5> QED  BY <5>1, <3>4, <3>5, <3>6, ContentAssumption
        <4> QED  BY <4>1, <3>3 DEF CuratedIsKept
      <3> QED  BY <3>7, <3>9, <3>10, <3>11, <3>12
    <2> QED  BY <2>1, <2>2
  <1>4. ASSUME NEW c \in Curators, VerifyHash(c) PROVE CurationInv'
    <2>1. ~At(c, "idle") /\ "register" \in CuratorSteps
      BY <1>4 DEF VerifyHash, At, CuratorSteps
    <2>2. CASE output[FinalName(c)] # curator[c].sha  BY <1>4, <2>2, <1>r DEF VerifyHash
    <2>3. CASE output[FinalName(c)] = curator[c].sha  BY <1>4, <2>1, <2>3, <1>g DEF VerifyHash
    <2> QED  BY <2>2, <2>3
  <1>5. ASSUME NEW c \in Curators, Register(c) PROVE CurationInv'
    <2> DEFINE row == [sha256 |-> curator[c].sha, path |-> FinalName(c), original |-> curator[c].file]
    <2>1. ~At(c, "idle") /\ artifacts' = artifacts \cup {row} /\ UNCHANGED <<input, output, overlapping>>
      BY <1>5 DEF Register, At
    <2>2. row.path \in OutputNames /\ row.path[2] = row.sha256 /\ row.original = curator[c].file
          /\ output[row.path] = row.sha256
      BY <2>1, <1>t, <1>5 DEF Register, StepsAreBacked
    <2>3. /\ curator' \in [Curators -> Calls] /\ curator'[c].pc = "remove"
          /\ curator'[c].file = curator[c].file /\ curator'[c].sha = curator[c].sha
          /\ \A d \in Curators \ {c} : curator'[d] = curator[d]
      BY <1>5 DEF Register, Goto, CurationTypes, Calls, CuratorSteps
    <2> HIDE DEF row
    <2>4. CurationTypes'
      BY <2>1, <2>2, <2>3, <1>t DEF CurationTypes, At
    <2>5. StepsAreBacked'
      BY <2>1, <2>2, <2>3 DEF StepsAreBacked, At, FinalName
    <2>6. OverlapIsHarmless' /\ OneAtATime'
      BY <2>1, <2>3 DEF OverlapIsHarmless, OneAtATime, At, FinalName
    <2>7. CuratedIsKept'
      BY <2>1, <2>2 DEF CuratedIsKept
    <2> QED  BY <2>4, <2>5, <2>6, <2>7
  <1>6. ASSUME NEW c \in Curators, RemoveInput(c) PROVE CurationInv'
    <2>1. ~At(c, "idle") /\ curator[c].file \in Inputs /\ UNCHANGED <<output, artifacts, overlapping>>
          /\ \E r \in artifacts : r.original = curator[c].file
      BY <1>6, <1>t DEF RemoveInput, At, StepsAreBacked
    <2>2. /\ curator' \in [Curators -> Calls] /\ curator'[c].pc = "idle"
          /\ \A d \in Curators \ {c} : curator'[d] = curator[d]
      BY <1>6, IdleCuratorTyped DEF RemoveInput, Return, CurationTypes
    <2>3. /\ input' \in [Inputs -> Contents \cup {NoContent}] /\ input'[curator[c].file] = NoContent
          /\ \A f \in Inputs : f # curator[c].file => input'[f] = input[f]
      BY <1>6, <2>1 DEF RemoveInput, CurationTypes
    <2>4. CurationTypes'
      BY <2>1, <2>2, <2>3 DEF CurationTypes, At
    <2>5. StepsAreBacked' /\ OneAtATime'
      BY <2>1, <2>2 DEF StepsAreBacked, OneAtATime, At, FinalName
    <2>6. OverlapIsHarmless'
      <3>1. ASSUME NEW d \in Curators, ~At(d, "idle")', overlapping
            PROVE  input'[curator'[d].file] \in {curator'[d].sha, NoContent}
        <4>1. d # c /\ ~At(d, "idle")  BY <3>1, <2>2 DEF At
        <4>2. curator'[d] = curator[d] /\ curator[d].file \in Inputs  BY <4>1, <2>2, <1>t
        <4> QED  BY <3>1, <4>1, <4>2, <2>3 DEF OverlapIsHarmless
      <3> QED  BY <3>1, <2>1 DEF OverlapIsHarmless
    <2>7. CuratedIsKept'
      BY <2>1, <2>3 DEF CuratedIsKept
    <2> QED  BY <2>4, <2>5, <2>6, <2>7
  <1>7. ASSUME NEW c \in Curators, CurateStops(c) PROVE CurationInv'
    BY <1>7, <1>r DEF CurateStops
  <1>8. ASSUME NEW f \in Inputs, NEW content \in Contents, Rewrite(f, content) PROVE CurationInv'
    <2>1. /\ input' \in [Inputs -> Contents \cup {NoContent}] /\ input'[f] = content
          /\ \A g \in Inputs \ {f} : input'[g] = input[g]
          /\ UNCHANGED <<output, artifacts, curator, overlapping>> /\ ~overlapping
      BY <1>8 DEF Rewrite, CurationTypes
    <2>2. CurationTypes'
      BY <2>1 DEF CurationTypes, At
    <2>3. StepsAreBacked' /\ OverlapIsHarmless' /\ OneAtATime'
      BY <2>1 DEF StepsAreBacked, OverlapIsHarmless, OneAtATime, At, FinalName
    <2>4. CuratedIsKept'
      BY <2>1, ContentAssumption DEF CuratedIsKept
    <2> QED  BY <2>2, <2>3, <2>4
  <1>9. CASE UNCHANGED curation_vars
    BY <1>9 DEF curation_vars, CurationTypes, StepsAreBacked, OverlapIsHarmless, OneAtATime, CuratedIsKept, At, FinalName
  <1> QED  BY <1>1, <1>2, <1>3, <1>4, <1>5, <1>6, <1>7, <1>8, <1>9 DEF CurationNext, RegisterThenRemove

(* The invariant holds of every state of the curators.                       *)
LEMMA CurationInvariant == CurationSpec => []CurationInv
  BY CurationInitInv, CurationStepInv, PTL DEF CurationSpec

(* Curation's part of TypeOK (curate.py): inputs, outputs and the registry, *)
(* each of whose rows names its output by the hash it lists.                *)
THEOREM CurationTypesHold == CurationSpec => []CurationTypeOK
  <1>1. CurationInv => CurationTypeOK
    BY DEF CurationInv, CurationTypes, CurationTypeOK
  <1> QED  BY <1>1, CurationInvariant, PTL

(* curate_file (curate.py): what the registry lists is published with the   *)
(* content of its hash, and an input is only gone once it is listed, for    *)
(* any number of curators, deaths, failing writes and rewritten inputs.     *)
THEOREM CurationKeeps == CurationSpec => []CuratedIsKept
  <1>1. CurationInv => CuratedIsKept
    BY DEF CurationInv
  <1> QED  BY <1>1, CurationInvariant, PTL

----------------------------------------------------------------------------
(* The release gate of Letters of Light.                                    *)
Versioned == [text : Versions, media : Versions]
Release == [state : ReleaseStates, approved : BOOLEAN, site : {"pending", "published"},
            video : {"pending", "published", "failed"}]
RequestSteps == {"idle", "check", "text", "media", "page", "index", "merge", "captions", "upload", "write"}
RequestJobs == [op : Operations \cup {"none"}, pc : RequestSteps, letter : Letters, release : Release,
                media : Versions, index : SUBSET Letters, next : {"none", "approve"}]

ReleaseTypes ==
    /\ letter \in [Letters -> [version : 1..(MaxChanges + 1), eligible : BOOLEAN]]
    /\ release \in [Letters -> Release]
    /\ exported \in [Letters -> Versioned] /\ page \in [Letters -> Versioned]
    /\ captions \in [Letters -> Versions]
    /\ site_index \subseteq Letters /\ approvals \subseteq Letters
    /\ uploads \in [Letters -> Nat]
    /\ request \in [Requests -> RequestJobs]
    /\ site_overlap \in BOOLEAN
    /\ changes \in 0..MaxChanges /\ \A l \in Letters : letter[l].version <= changes + 1
    /\ req_kills \in Nat

LEMMA VersionsTyped ==
    /\ 0 \in Versions /\ 1 \in 1..(MaxChanges + 1) /\ 1 \in Versions /\ 1..(MaxChanges + 1) \subseteq Versions
    /\ Nothing \in Versioned /\ Nothing.text = 0 /\ Nothing.media = 0
  <1>1. /\ 0 \in Versions /\ 1 \in 1..(MaxChanges + 1) /\ 1 \in Versions /\ 1..(MaxChanges + 1) \subseteq Versions
    BY ReleaseAssumption DEF Versions
  <1> QED  BY <1>1 DEF Nothing, Versioned

LEMMA IdleRequestTyped ==
    /\ IdleRequest \in RequestJobs /\ NoRelease \in Release
    /\ IdleRequest.op = "none" /\ IdleRequest.pc = "idle" /\ IdleRequest.release = NoRelease
    /\ IdleRequest.index = {} /\ IdleRequest.next = "none"
    /\ NoRelease.state = "unseen" /\ ~NoRelease.approved /\ NoRelease.site = "pending"
  <1>1. (CHOOSE l \in Letters : TRUE) \in Letters
    BY ReleaseAssumption
  <1>2. NoRelease \in Release
    BY DEF NoRelease, Release, ReleaseStates
  <1>3. "none" \in Operations \cup {"none"} /\ "idle" \in RequestSteps /\ {} \in SUBSET Letters
    BY DEF RequestSteps
  <1>4. IdleRequest \in RequestJobs
    BY <1>1, <1>2, <1>3, VersionsTyped DEF IdleRequest, RequestJobs
  <1>5. NoRelease.state = "unseen" /\ ~NoRelease.approved /\ NoRelease.site = "pending"
    BY DEF NoRelease
  <1> QED  BY <1>2, <1>4, <1>5 DEF IdleRequest

(* What the functions make of a release is one.                             *)
LEMMA ReleasesTyped ==
    ASSUME NEW rel \in Release, NEW eligible \in BOOLEAN
    PROVE  /\ candidate_of(rel, eligible) \in Release /\ blocked(rel) \in Release
           /\ approval_of(rel) \in Release /\ export_of(rel) \in Release /\ publication_of(rel) \in Release
           /\ \A outcome \in {"published", "failed"} : video_of(rel, outcome) \in Release
  BY DEF Release, ReleaseStates, Protected, candidate_of, blocked, approval_of, export_of, publication_of, video_of
(* What each makes of an approval and of what is published.                 *)
PublishedIn(rel) == rel.state = "published" \/ rel.site = "published"
(* What a candidate, an approval and a publication keep of a release.        *)
LEMMA ReleasesMade ==
    ASSUME NEW rel \in Release, NEW eligible \in BOOLEAN
    PROVE  /\ candidate_of(rel, eligible).approved => rel.approved
           /\ PublishedIn(candidate_of(rel, eligible)) => PublishedIn(rel)
           /\ ~blocked(rel).approved /\ (PublishedIn(blocked(rel)) => PublishedIn(rel))
           /\ PublishedIn(approval_of(rel)) => PublishedIn(rel)
           /\ export_of(rel).approved = rel.approved /\ (PublishedIn(export_of(rel)) => PublishedIn(rel))
           /\ publication_of(rel).approved = rel.approved
           /\ \A outcome \in {"published", "failed"} :
                 /\ video_of(rel, outcome).approved = rel.approved
                 /\ PublishedIn(video_of(rel, outcome)) => PublishedIn(rel)
  BY DEF Release, ReleaseStates, Protected, candidate_of, blocked, approval_of, export_of, publication_of, video_of, PublishedIn

(* What a request in progress rests on.                                     *)
Sound(job) ==
    /\ job.op = "none" <=> job.pc = "idle"
    /\ job.pc = "check" => job.op \in {"candidate", "approve", "export"}
    /\ job.pc = "text" => job.op = "export"
    /\ job.pc = "media" => job.op \in {"export", "site"}
    /\ job.pc \in {"page", "index", "merge", "captions"} => job.op = "site"
    /\ job.pc = "upload" => job.op = "youtube"
    /\ job.op = "site" => job.pc \in {"media", "page", "index", "merge", "captions", "write"} /\ exported[job.letter].text # 0
    /\ job.op = "site" /\ job.pc \in {"index", "merge", "captions", "write"} => page[job.letter].text # 0
    /\ job.next # "none" => job.op = "candidate"
    /\ job.release.approved => job.letter \in approvals
    /\ job.pc \in {"text", "media", "page", "index", "merge", "captions", "upload"} => job.release.approved
    /\ job.op = "export" => job.release.approved \/ job.pc = "write"
    /\ PublishedIn(job.release) => page[job.letter].text # 0
    /\ \A l \in job.index : page[l].text # 0

(* What is out of a letter was approved and has its page.                   *)
OutIsApproved ==
    \A l \in Letters :
        exported[l] # Nothing \/ captions[l] > 0 \/ page[l] # Nothing \/ uploads[l] > 0 \/ release[l].approved => l \in approvals
PublishedHasPage ==
    /\ \A l \in site_index : page[l].text # 0
    /\ \A l \in Letters : PublishedIn(release[l]) => page[l].text # 0

(* Pages the index leaves out, save that of a publication in progress.      *)
Stray == {l \in Letters \ site_index :
             page[l] # Nothing /\ \A r \in Requests : request[r].op = "site" => request[r].letter # l}

OnePublication ==
    ~site_overlap =>
        /\ \A r, s \in Requests : request[r].op = "site" /\ request[s].op = "site" => r = s
        /\ \A r \in Requests : IsAt(r, "site", "merge") => request[r].index = site_index
        /\ \A r \in Requests : request[r].op = "site" /\ request[r].pc \in {"captions", "write"} => request[r].letter \in site_index
        /\ Cardinality(Stray) <= req_kills

ReleaseInv ==
    /\ ReleaseTypes
    /\ \A r \in Requests : Sound(request[r])
    /\ OutIsApproved
    /\ PublishedHasPage
    /\ OnePublication

LEMMA ReleaseInitInv == ReleaseInit => ReleaseInv
  <1> SUFFICES ASSUME ReleaseInit PROVE ReleaseInv
    OBVIOUS
  <1>a. PICK published \in SUBSET Letters : \E fresh \in SUBSET (Letters \ published) :
          LET kind(l) == IF l \in published THEN "published" ELSE "exported"
          IN  /\ release = [l \in Letters |-> IF l \in fresh THEN NoRelease ELSE ReleasedState(kind(l))]
              /\ exported = [l \in Letters |-> IF l \in fresh THEN Nothing ELSE [text |-> 1, media |-> 1]]
              /\ captions = [l \in Letters |-> IF l \in fresh THEN 0 ELSE 1]
              /\ page = [l \in Letters |-> IF l \in published THEN [text |-> 1, media |-> 1] ELSE Nothing]
              /\ site_index = published
              /\ approvals = Letters \ fresh
              /\ letter = [l \in Letters |-> [version |-> 1, eligible |-> TRUE]]
              /\ uploads = [l \in Letters |-> 0]
              /\ request = [r \in Requests |-> IdleRequest]
              /\ site_overlap = FALSE
              /\ requested = 0 /\ changes = 0 /\ req_kills = 0
    BY DEF ReleaseInit
  <1>1. PICK fresh \in SUBSET (Letters \ published) :
          LET kind(l) == IF l \in published THEN "published" ELSE "exported"
          IN  /\ release = [l \in Letters |-> IF l \in fresh THEN NoRelease ELSE ReleasedState(kind(l))]
              /\ exported = [l \in Letters |-> IF l \in fresh THEN Nothing ELSE [text |-> 1, media |-> 1]]
              /\ captions = [l \in Letters |-> IF l \in fresh THEN 0 ELSE 1]
              /\ page = [l \in Letters |-> IF l \in published THEN [text |-> 1, media |-> 1] ELSE Nothing]
              /\ site_index = published
              /\ approvals = Letters \ fresh
              /\ letter = [l \in Letters |-> [version |-> 1, eligible |-> TRUE]]
              /\ uploads = [l \in Letters |-> 0]
              /\ request = [r \in Requests |-> IdleRequest]
              /\ site_overlap = FALSE
              /\ requested = 0 /\ changes = 0 /\ req_kills = 0
    BY <1>a
  <1>2. \A kind \in {"published", "exported"} :
           ReleasedState(kind) \in Release /\ (PublishedIn(ReleasedState(kind)) => kind = "published")
    BY DEF ReleasedState, Release, ReleaseStates, PublishedIn
  <1>3. [text |-> 1, media |-> 1] \in Versioned
    BY VersionsTyped DEF Versioned
  <1>4. /\ release \in [Letters -> Release]
        /\ \A l \in Letters : PublishedIn(release[l]) => l \in published
        /\ \A l \in Letters : release[l].approved => l \notin fresh
    BY <1>1, <1>2, IdleRequestTyped DEF PublishedIn
  <1>5. exported \in [Letters -> Versioned] /\ page \in [Letters -> Versioned] /\ captions \in [Letters -> Versions]
    BY <1>1, <1>3, VersionsTyped
  <1>6. /\ letter \in [Letters -> [version : 1..(MaxChanges + 1), eligible : BOOLEAN]]
        /\ \A l \in Letters : letter[l].version <= changes + 1
    BY <1>1, VersionsTyped
  <1>7. request \in [Requests -> RequestJobs] /\ \A r \in Requests : request[r] = IdleRequest
    BY <1>1, IdleRequestTyped
  <1>8. ReleaseTypes
    <2>1. uploads \in [Letters -> Nat] /\ site_overlap \in BOOLEAN /\ req_kills \in Nat
      BY <1>1
    <2>2. changes \in 0..MaxChanges
      BY <1>1, ReleaseAssumption
    <2>3. site_index \subseteq Letters /\ approvals \subseteq Letters
      BY <1>1
    <2> QED  BY <1>4, <1>5, <1>6, <1>7, <2>1, <2>2, <2>3 DEF ReleaseTypes
  <1>9. \A r \in Requests : Sound(request[r])
    BY <1>7, IdleRequestTyped DEF Sound, PublishedIn
  <1>10. OutIsApproved
    BY <1>1, <1>4 DEF OutIsApproved, Nothing
  <1>11. PublishedHasPage
    BY <1>1, <1>4 DEF PublishedHasPage
  <1>12. OnePublication
    <2>1. Stray = {}
      BY <1>1 DEF Stray, Nothing
    <2> QED  BY <1>1, <1>7, <2>1, IdleRequestTyped, FS_EmptySet DEF OnePublication, IsAt
  <1> QED  BY <1>8, <1>9, <1>10, <1>11, <1>12 DEF ReleaseInv

(* What a request begins with.                                              *)
LEMMA OpenedTyped ==
    ASSUME ReleaseInv, NEW op \in Operations, NEW l \in Letters
    PROVE  LET new == Opened(op, l)
           IN  /\ new \in RequestJobs /\ Sound(new)
               /\ new.op = "site" => op = "site" /\ new.pc = "media"
  <1>1. PICK rel : rel = release[l]
    OBVIOUS
  <1>2. PICK failed : failed = video_of(rel, "failed")
    OBVIOUS
  <1>3. PICK job : job = [IdleRequest EXCEPT !.op = op, !.letter = l, !.release = rel, !.pc = "check"]
    OBVIOUS
  <1>4. PICK fresh : fresh = [job EXCEPT !.op = "candidate", !.next = op]
    OBVIOUS
  <1>5. /\ rel \in Release /\ failed \in Release
        /\ rel.approved => l \in approvals
        /\ PublishedIn(rel) => page[l].text # 0
        /\ failed.approved = rel.approved /\ (PublishedIn(failed) => PublishedIn(rel))
    <2>1. rel \in Release
      BY <1>1 DEF ReleaseInv, ReleaseTypes
    <2> QED  BY <1>1, <1>2, <2>1, ReleasesTyped, ReleasesMade DEF ReleaseInv, OutIsApproved, PublishedHasPage
  <1>6. IdleRequest \in RequestJobs /\ Sound(IdleRequest) /\ IdleRequest.op = "none"
    BY IdleRequestTyped DEF Sound, PublishedIn
  <1>7. /\ job \in RequestJobs /\ job.op = op /\ job.pc = "check" /\ job.letter = l /\ job.release = rel
        /\ job.index = {} /\ job.next = "none"
    BY <1>3, <1>5, IdleRequestTyped DEF RequestJobs, RequestSteps
  <1>8. (op = "candidate" \/ op = "approve" \/ (op = "export" /\ rel.approved)) => Sound(job)
    BY <1>5, <1>7 DEF Sound
  <1>9. \A next \in {"none", "approve"} :
           LET new == [job EXCEPT !.op = "candidate", !.next = next]
           IN  new \in RequestJobs /\ Sound(new) /\ new.op = "candidate"
    BY <1>5, <1>7 DEF Sound, RequestJobs, Operations
  <1>10. CASE op = "candidate"
    <2>1. Opened(op, l) = job
      BY <1>1, <1>3, <1>10 DEF Opened
    <2>2. Sound(job)
      BY <1>8, <1>10
    <2> QED  BY <1>7, <1>10, <2>1, <2>2
  <1>11. CASE op = "approve"
    <2>1. Opened(op, l) \in {job, [job EXCEPT !.op = "candidate", !.next = "approve"]}
      BY <1>1, <1>3, <1>11 DEF Opened
    <2>2. Sound(job)
      BY <1>8, <1>11
    <2> QED  BY <1>7, <1>9, <1>11, <2>1, <2>2
  <1>12. CASE op = "export"
    <2>1. [fresh EXCEPT !.next = "none"] = [job EXCEPT !.op = "candidate", !.next = "none"]
      BY <1>4, <1>7 DEF RequestJobs
    <2>2. \/ Opened(op, l) \in {[fresh EXCEPT !.next = "none"], IdleRequest}
          \/ rel.approved /\ Opened(op, l) = job
      BY <1>1, <1>3, <1>4, <1>12 DEF Opened
    <2> QED  BY <1>6, <1>7, <1>8, <1>9, <1>12, <2>1, <2>2
  <1>13. CASE op = "site"
    <2>1. Opened(op, l) = IF Publishable(rel, l) THEN [job EXCEPT !.pc = "media"] ELSE IdleRequest
      BY <1>1, <1>3, <1>13 DEF Opened
    <2>2. Publishable(rel, l) => rel.approved /\ exported[l].text # 0
      BY DEF Publishable
    <2>3. [job EXCEPT !.pc = "media"] \in RequestJobs
      BY <1>7 DEF RequestJobs, RequestSteps
    <2>4. Publishable(rel, l) => Sound([job EXCEPT !.pc = "media"])
      BY <1>5, <1>7, <1>13, <2>2 DEF Sound, RequestJobs
    <2> QED  BY <1>6, <1>7, <1>13, <2>1, <2>3, <2>4 DEF RequestJobs
  <1>14. CASE op \in {"youtube", "youtube_force"}
    <2>1. \/ Opened(op, l) = IdleRequest
          \/ rel.approved /\ Opened(op, l) = [job EXCEPT !.op = "youtube", !.pc = "upload"]
          \/ Opened(op, l) = [job EXCEPT !.op = "youtube", !.pc = "write", !.release = failed]
      BY <1>1, <1>2, <1>3, <1>14 DEF Opened
    <2>2. /\ [job EXCEPT !.op = "youtube", !.pc = "upload"] \in RequestJobs
          /\ [job EXCEPT !.op = "youtube", !.pc = "write", !.release = failed] \in RequestJobs
      BY <1>5, <1>7 DEF RequestJobs, RequestSteps, Operations
    <2>3. rel.approved => Sound([job EXCEPT !.op = "youtube", !.pc = "upload"])
      BY <1>5, <1>7 DEF Sound, RequestJobs
    <2>4. Sound([job EXCEPT !.op = "youtube", !.pc = "write", !.release = failed])
      BY <1>5, <1>7 DEF Sound, RequestJobs
    <2>5. /\ [job EXCEPT !.op = "youtube", !.pc = "upload"].op # "site"
          /\ [job EXCEPT !.op = "youtube", !.pc = "write", !.release = failed].op # "site"
      BY <1>7 DEF RequestJobs
    <2> QED  BY <1>6, <2>1, <2>2, <2>3, <2>4, <2>5
  <1> QED  BY <1>10, <1>11, <1>12, <1>13, <1>14 DEF Operations
(* Every step keeps the types.                                              *)
LEMMA ReleaseTypesStep ==
    ASSUME ReleaseInv, [ReleaseNext]_release_vars
    PROVE  ReleaseTypes'
  <1>i. ReleaseTypes /\ \A r \in Requests : Sound(request[r])
    BY DEF ReleaseInv
  <1> USE <1>i DEF ReleaseTypes
  <1>j. ASSUME NEW r \in Requests, NEW job \in RequestJobs, Step(r, job) PROVE request' \in [Requests -> RequestJobs]
    BY <1>j DEF Step
  <1>k. ASSUME NEW r \in Requests PROVE request[r] \in RequestJobs /\ request[r].letter \in Letters /\ request[r].release \in Release
    BY DEF RequestJobs
  <1>p. ASSUME NEW job \in RequestJobs, NEW pc \in RequestSteps, NEW rel \in Release
        PROVE  [job EXCEPT !.pc = pc] \in RequestJobs /\ [job EXCEPT !.release = rel] \in RequestJobs
               /\ [job EXCEPT !.pc = pc, !.release = rel] \in RequestJobs /\ [job EXCEPT !.release = rel, !.pc = pc] \in RequestJobs
    BY DEF RequestJobs
  <1>s. {"text", "media", "page", "index", "merge", "captions", "upload", "write", "check"} \subseteq RequestSteps
    BY DEF RequestSteps
  <1>1. ASSUME NEW l \in Letters, NEW eligible \in BOOLEAN, LetterChanges(l, eligible) PROVE ReleaseTypes'
    <2>1. changes + 1 \in 0..MaxChanges /\ letter[l].version \in 1..(MaxChanges + 1) /\ letter[l].version <= changes + 1
      BY <1>1, ReleaseAssumption DEF LetterChanges
    <2>2. letter[l].version + 1 \in 1..(MaxChanges + 1) /\ letter[l].version + 1 <= changes + 1 + 1
      BY <2>1, ReleaseAssumption
    <2>3. /\ letter' \in [Letters -> [version : 1..(MaxChanges + 1), eligible : BOOLEAN]]
          /\ letter'[l].version = letter[l].version + 1 /\ \A m \in Letters \ {l} : letter'[m] = letter[m]
      BY <1>1, <2>2 DEF LetterChanges
    <2>4. \A m \in Letters : letter'[m].version <= changes' + 1
      BY <1>1, <2>1, <2>2, <2>3 DEF LetterChanges
    <2> QED  BY <1>1, <2>1, <2>3, <2>4 DEF LetterChanges
  <1>2. ASSUME NEW r \in Requests, NEW op \in Operations, NEW l \in Letters, BeginRequest(r, op, l) PROVE ReleaseTypes'
    <2>1. Opened(op, l) \in RequestJobs
      BY OpenedTyped
    <2> QED  BY <1>2, <2>1, <1>j DEF BeginRequest
  <1>3. ASSUME NEW r \in Requests, CheckEligibility(r) PROVE ReleaseTypes'
    <2>1. Eligible(request[r].letter) \in BOOLEAN
      BY <1>k DEF Eligible
    <2>2. \A rel \in Release, pc \in RequestSteps : [request[r] EXCEPT !.release = rel, !.pc = pc] \in RequestJobs
      BY <1>k, <1>p
    <2>3. \A rel \in Release : \A eligible \in BOOLEAN :
             {candidate_of(rel, eligible), blocked(rel), approval_of(rel), rel} \subseteq Release
      BY ReleasesTyped
    <2>5. PICK made \in Release :
             Step(r, [request[r] EXCEPT !.release = made,
                        !.pc = IF request[r].op = "export" /\ Eligible(request[r].letter) THEN "text" ELSE "write"])
      BY <1>3, <1>k, <2>1, <2>3 DEF CheckEligibility
    <2>4. request' \in [Requests -> RequestJobs]
      BY <2>2, <2>5, <1>j, <1>s
    <2> QED  BY <1>3, <2>4, <1>k DEF CheckEligibility
  <1>4. ASSUME NEW r \in Requests, ExportTexts(r) PROVE ReleaseTypes'
    <2>1. request[r].letter \in Letters /\ letter[request[r].letter].version \in Versions
      BY <1>k, VersionsTyped
    <2>2. [request[r] EXCEPT !.pc = "media", !.media = letter[request[r].letter].version] \in RequestJobs
      BY <1>k, <2>1, <1>s DEF RequestJobs
    <2>3. request' \in [Requests -> RequestJobs]  BY <1>4, <2>2, <1>j DEF ExportTexts
    <2> QED  BY <1>4, <2>1, <2>3 DEF ExportTexts, Unchanged, Versioned
  <1>5. ASSUME NEW r \in Requests, ExportMedia(r) PROVE ReleaseTypes'
    <2>1. request[r].letter \in Letters /\ request[r].media \in Versions
      BY <1>k DEF RequestJobs
    <2>2. export_of(request[r].release) \in Release  BY <1>k, ReleasesTyped
    <2>3. request' \in [Requests -> RequestJobs]
      <3>1. [request[r] EXCEPT !.pc = "write", !.release = export_of(@)] \in RequestJobs
        BY <1>k, <1>p, <1>s, <2>2
      <3> QED  BY <1>5, <3>1, <1>j DEF ExportMedia
    <2> QED  BY <1>5, <2>1, <2>3 DEF ExportMedia, Unchanged, Versioned
  <1>6. ASSUME NEW r \in Requests, CopyMedia(r) PROVE ReleaseTypes'
    <2>1. request[r].letter \in Letters /\ letter[request[r].letter].version \in Versions
      BY <1>k, VersionsTyped
    <2>3. request' \in [Requests -> RequestJobs]  BY <1>6, <1>k, <1>p, <1>s, <1>j DEF CopyMedia
    <2> QED  BY <1>6, <2>1, <2>3 DEF CopyMedia, Unchanged, Versioned
  <1>7. ASSUME NEW r \in Requests, WritePage(r) PROVE ReleaseTypes'
    <2>1. request[r].letter \in Letters  BY <1>k
    <2>3. request' \in [Requests -> RequestJobs]  BY <1>7, <1>k, <1>p, <1>s, <1>j DEF WritePage
    <2> QED  BY <1>7, <2>1, <2>3 DEF WritePage, Unchanged, Versioned
  <1>8. ASSUME NEW r \in Requests, ReadIndex(r) PROVE ReleaseTypes'
    <2>2. [request[r] EXCEPT !.pc = "merge", !.index = site_index] \in RequestJobs
      BY <1>k, <1>s DEF RequestJobs
    <2>3. request' \in [Requests -> RequestJobs]  BY <1>8, <2>2, <1>j DEF ReadIndex
    <2> QED  BY <1>8, <2>3 DEF ReadIndex, Unchanged
  <1>9. ASSUME NEW r \in Requests, MergeIndex(r) PROVE ReleaseTypes'
    <2>1. request[r].letter \in Letters /\ request[r].index \subseteq Letters  BY DEF RequestJobs
    <2>2. [request[r] EXCEPT !.pc = "captions", !.index = {}] \in RequestJobs
      BY <1>k, <1>s DEF RequestJobs
    <2>3. request' \in [Requests -> RequestJobs]  BY <1>9, <2>2, <1>j DEF MergeIndex
    <2> QED  BY <1>9, <2>1, <2>3 DEF MergeIndex, Unchanged
  <1>10. ASSUME NEW r \in Requests, RefreshSocialExports(r) PROVE ReleaseTypes'
    <2>1. request[r].letter \in Letters /\ letter[request[r].letter].version \in Versions
      BY <1>k, VersionsTyped
    <2>2. [request[r] EXCEPT !.pc = "write", !.release = publication_of(@)] \in RequestJobs
      BY <1>k, <1>p, <1>s, ReleasesTyped
    <2>3. request' \in [Requests -> RequestJobs]  BY <1>10, <2>2, <1>j DEF RefreshSocialExports
    <2> QED  BY <1>10, <2>1, <2>3 DEF RefreshSocialExports, Unchanged
  <1>11. ASSUME NEW r \in Requests, Upload(r) PROVE ReleaseTypes'
    <2>1. PICK answer \in Answers :
               /\ uploads' = [uploads EXCEPT ![request[r].letter] = @ + answer.videos]
               /\ Step(r, [request[r] EXCEPT !.pc = "write", !.release = video_of(@, answer.outcome)])
      BY <1>11 DEF Upload
    <2>2. answer.outcome \in {"published", "failed"} /\ answer.videos \in Nat
      BY DEF Answers
    <2>5. video_of(request[r].release, answer.outcome) \in Release
      BY <2>2, <1>k, ReleasesTyped
    <2>3. request' \in [Requests -> RequestJobs]
      BY <2>1, <2>5, <1>k, <1>p, <1>s, <1>j
    <2>4. uploads' \in [Letters -> Nat]
      BY <2>1, <2>2, <1>k
    <2> QED  BY <1>11, <2>3, <2>4 DEF Upload, Unchanged
  <1>12. ASSUME NEW r \in Requests, WriteRelease(r) PROVE ReleaseTypes'
    <2>1. release' \in [Letters -> Release]
      BY <1>12, <1>k DEF WriteRelease
    <2>2. request[r].next # "none" => request[r].next \in Operations
      BY DEF RequestJobs, Operations
    <2>3. request[r].next # "none" => [request[r] EXCEPT !.op = request[r].next, !.pc = "check", !.next = "none"] \in RequestJobs
      BY <2>2, <1>k, <1>s DEF RequestJobs
    <2>4. request' \in [Requests -> RequestJobs]
      BY <1>12, <2>3, <1>j, IdleRequestTyped DEF WriteRelease
    <2> QED  BY <1>12, <2>1, <2>4 DEF WriteRelease, Unchanged
  <1>13. ASSUME NEW r \in Requests, RequestKilled(r) PROVE ReleaseTypes'
    BY <1>13, <1>j, IdleRequestTyped DEF RequestKilled, Done
  <1>14. CASE UNCHANGED release_vars
    BY <1>14 DEF release_vars
  <1> QED  BY <1>1, <1>2, <1>3, <1>4, <1>5, <1>6, <1>7, <1>8, <1>9, <1>10, <1>11, <1>12, <1>13, <1>14 DEF ReleaseNext

(* Approvals and what has been written of a letter only grow.               *)
LEMMA ReleaseGrows ==
    ASSUME ReleaseInv, [ReleaseNext]_release_vars
    PROVE  /\ approvals \subseteq approvals'
           /\ \A l \in Letters : exported[l].text # 0 => exported'[l].text # 0
           /\ \A l \in Letters : page[l].text # 0 => page'[l].text # 0
           /\ site_overlap => site_overlap'
  <1> USE DEF ReleaseInv, ReleaseTypes
  <1>1. CASE \E r \in Requests : ExportTexts(r)
    <2>1. PICK r \in Requests : ExportTexts(r)
      BY <1>1
    <2>2. letter[request[r].letter].version # 0 /\ request[r].letter \in Letters
      BY DEF RequestJobs
    <2> QED  BY <2>1, <2>2 DEF ExportTexts, Unchanged, Versioned
  <1>2. CASE \E r \in Requests : WritePage(r)
    <2>1. PICK r \in Requests : WritePage(r)
      BY <1>2
    <2>2. exported[request[r].letter].text # 0 /\ request[r].letter \in Letters
      BY <2>1 DEF RequestJobs, Sound, WritePage, IsAt
    <2> QED  BY <2>1, <2>2 DEF WritePage, Unchanged, Versioned
  <1>3. CASE \E r \in Requests : ExportMedia(r)
    BY <1>3 DEF ExportMedia, Unchanged, Versioned
  <1>4. CASE \E r \in Requests : CopyMedia(r)
    BY <1>4 DEF CopyMedia, Unchanged, Versioned
  <1>5. ASSUME ~(\E r \in Requests : ExportTexts(r) \/ WritePage(r) \/ ExportMedia(r) \/ CopyMedia(r))
        PROVE  UNCHANGED <<exported, page>> /\ approvals \subseteq approvals' /\ (site_overlap => site_overlap')
    BY <1>5 DEF ReleaseNext, release_vars, Unchanged, LetterChanges, BeginRequest, CheckEligibility, WriteRelease, RequestKilled,
                ReadIndex, MergeIndex, RefreshSocialExports, Upload
  <1>6. \A r \in Requests : ExportTexts(r) \/ WritePage(r) \/ ExportMedia(r) \/ CopyMedia(r) => UNCHANGED <<approvals, site_overlap>>
    BY DEF ExportTexts, WritePage, ExportMedia, CopyMedia, Unchanged
  <1> QED  BY <1>1, <1>2, <1>3, <1>4, <1>5, <1>6

(* What a request rests on stays true while others work.                    *)
LEMMA SoundStays ==
    ASSUME ReleaseInv, [ReleaseNext]_release_vars, NEW job \in RequestJobs, Sound(job)
    PROVE  Sound(job)'
  <1>1. job.letter \in Letters /\ job.index \subseteq Letters
    BY DEF RequestJobs
  <1> QED  BY <1>1, ReleaseGrows DEF Sound

(* When the request that steps stays sound, all of them do.                  *)
LEMMA StepIsSound ==
    ASSUME ReleaseInv, [ReleaseNext]_release_vars, NEW r \in Requests, NEW new, Step(r, new), Sound(new)'
    PROVE  \A s \in Requests : Sound(request[s])'
  <1> SUFFICES ASSUME NEW s \in Requests PROVE Sound(request[s])'
    OBVIOUS
  <1>1. request \in [Requests -> RequestJobs] /\ Sound(request[s])
    BY DEF ReleaseInv, ReleaseTypes
  <1>2. CASE s = r
    <2>1. request'[s] = new
      BY <1>1, <1>2 DEF Step
    <2> QED  BY <2>1 DEF Sound
  <1>3. CASE s # r
    <2>1. PICK job \in RequestJobs : job = request[s]
      BY <1>1
    <2>2. request'[s] = job
      BY <1>1, <1>3, <2>1 DEF Step
    <2>3. Sound(job)'
      BY <1>1, <2>1, SoundStays
    <2> QED  BY <2>2, <2>3 DEF Sound
  <1> QED  BY <1>2, <1>3

(* Every step leaves every request sound.                                    *)
LEMMA JobsStaySound ==
    ASSUME ReleaseInv, [ReleaseNext]_release_vars
    PROVE  \A r \in Requests : Sound(request[r])'
  <1> USE DEF ReleaseInv, ReleaseTypes
  <1>k. ASSUME NEW r \in Requests
        PROVE  request[r] \in RequestJobs /\ Sound(request[r]) /\ request[r].letter \in Letters /\ request[r].release \in Release
               /\ request[r].index \subseteq Letters
    BY DEF RequestJobs
  <1>2. ASSUME NEW r \in Requests, NEW op \in Operations, NEW l \in Letters, BeginRequest(r, op, l)
        PROVE  \A s \in Requests : Sound(request[s])'
    <2>1. PICK new : new = Opened(op, l)
      OBVIOUS
    <2>2. new \in RequestJobs /\ Sound(new)
      BY <2>1, OpenedTyped
    <2>3. Step(r, new)
      BY <1>2, <2>1 DEF BeginRequest
    <2> QED  BY <2>2, <2>3, SoundStays, StepIsSound
  <1>3. ASSUME NEW r \in Requests, CheckEligibility(r) PROVE \A s \in Requests : Sound(request[s])'
    <2>1. PICK job \in RequestJobs : job = request[r] /\ Sound(job)
      BY <1>k
    <2>2. PICK eligible \in BOOLEAN : eligible = Eligible(job.letter)
      BY <2>1, <1>k DEF Eligible
    <2>3. PICK made : made = CASE job.op = "candidate"               -> candidate_of(job.release, eligible)
                               [] job.op # "candidate" /\ ~eligible   -> blocked(job.release)
                               [] job.op = "approve" /\ eligible      -> approval_of(job.release)
                               [] OTHER                              -> job.release
      OBVIOUS
    <2>4. PICK new : new = [job EXCEPT !.release = made, !.pc = IF job.op = "export" /\ eligible THEN "text" ELSE "write"]
      OBVIOUS
    <2>5. Step(r, new) /\ approvals' = IF job.op = "approve" /\ eligible THEN approvals \cup {job.letter} ELSE approvals
      BY <1>3, <2>1, <2>2, <2>3, <2>4 DEF CheckEligibility
    <2>6. job.release \in Release /\ job.op \in {"candidate", "approve", "export"} /\ job.pc = "check" /\ job.letter \in Letters
          /\ job.index \subseteq Letters /\ page' = page /\ exported' = exported
      BY <1>3, <2>1 DEF RequestJobs, CheckEligibility, Sound
    <2>7. /\ PublishedIn(made) => PublishedIn(job.release)
          /\ made.approved => job.release.approved \/ (job.op = "approve" /\ eligible)
          /\ job.op = "export" /\ eligible => made = job.release
      BY <2>3, <2>6, ReleasesMade
    <2>8. CASE job.op = "export" /\ eligible
      <3>1. /\ new.op = job.op /\ new.pc = "text" /\ new.letter = job.letter /\ new.release = job.release /\ new.index = job.index
            /\ new.next = job.next
        BY <2>4, <2>7, <2>8 DEF RequestJobs
      <3>2. job.release.approved
        BY <2>1, <2>6, <2>8 DEF Sound
      <3>3. Sound(new)'
        BY <2>1, <2>6, <2>8, <3>1, <3>2, ReleaseGrows DEF Sound
      <3> QED  BY <2>5, <3>3, StepIsSound
    <2>9. CASE ~(job.op = "export" /\ eligible)
      <3>1. /\ new.op = job.op /\ new.pc = "write" /\ new.letter = job.letter /\ new.release = made /\ new.index = job.index
            /\ new.next = job.next
        BY <2>4, <2>9 DEF RequestJobs
      <3>2. made.approved => job.letter \in approvals'
        BY <2>1, <2>5, <2>7 DEF Sound
      <3>3. Sound(new)'
        BY <2>1, <2>6, <2>7, <3>1, <3>2 DEF Sound
      <3> QED  BY <2>5, <3>3, StepIsSound
    <2> QED  BY <2>8, <2>9
  <1>4. ASSUME NEW r \in Requests, ExportTexts(r) PROVE \A s \in Requests : Sound(request[s])'
    <2>1. PICK job \in RequestJobs : job = request[r] /\ Sound(job) /\ job.letter \in Letters /\ job.release \in Release /\ job.index \subseteq Letters
      BY <1>k
    <2>2. PICK new : new = [job EXCEPT !.pc = "media", !.media = letter[job.letter].version]
      OBVIOUS
    <2>3. Step(r, new) /\ job.op = "export" /\ job.pc = "text"
      BY <1>4, <2>1, <2>2 DEF ExportTexts, IsAt
    <2>4. new.pc = "media" /\ new.op = job.op /\ new.letter = job.letter /\ new.release = job.release /\ new.index = job.index /\ new.next = job.next
      BY <2>2, <2>3 DEF RequestJobs
    <2>5. Sound(new)'
      BY <2>1, <2>3, <2>4, ReleaseGrows DEF Sound
    <2> QED  BY <2>3, <2>5, StepIsSound
  <1>5. ASSUME NEW r \in Requests, ExportMedia(r) PROVE \A s \in Requests : Sound(request[s])'
    <2>1. PICK job \in RequestJobs : job = request[r] /\ Sound(job) /\ job.letter \in Letters /\ job.release \in Release /\ job.index \subseteq Letters
      BY <1>k
    <2>2. PICK new : new = [job EXCEPT !.pc = "write", !.release = export_of(@)]
      OBVIOUS
    <2>3. Step(r, new) /\ job.op = "export" /\ job.pc = "media"
      BY <1>5, <2>1, <2>2 DEF ExportMedia, IsAt
    <2>4. new.pc = "write" /\ new.op = job.op /\ new.letter = job.letter /\ new.release = export_of(job.release) /\ new.index = job.index /\ new.next = job.next
      BY <2>2, <2>3 DEF RequestJobs
    <2>5. Sound(new)'
      BY <2>1, <2>3, <2>4, ReleaseGrows, ReleasesMade DEF Sound
    <2> QED  BY <2>3, <2>5, StepIsSound
  <1>6. ASSUME NEW r \in Requests, CopyMedia(r) PROVE \A s \in Requests : Sound(request[s])'
    <2>1. PICK job \in RequestJobs : job = request[r] /\ Sound(job) /\ job.letter \in Letters /\ job.release \in Release /\ job.index \subseteq Letters
      BY <1>k
    <2>2. PICK new : new = [job EXCEPT !.pc = "page"]
      OBVIOUS
    <2>3. Step(r, new) /\ job.op = "site" /\ job.pc = "media"
      BY <1>6, <2>1, <2>2 DEF CopyMedia, IsAt
    <2>4. new.pc = "page" /\ new.op = job.op /\ new.letter = job.letter /\ new.release = job.release /\ new.index = job.index /\ new.next = job.next
      BY <2>2, <2>3 DEF RequestJobs
    <2>5. Sound(new)'
      BY <2>1, <2>3, <2>4, ReleaseGrows DEF Sound
    <2> QED  BY <2>3, <2>5, StepIsSound
  <1>7. ASSUME NEW r \in Requests, WritePage(r) PROVE \A s \in Requests : Sound(request[s])'
    <2>1. PICK job \in RequestJobs : job = request[r] /\ Sound(job) /\ job.letter \in Letters /\ job.release \in Release /\ job.index \subseteq Letters
      BY <1>k
    <2>2. PICK new : new = [job EXCEPT !.pc = "index"]
      OBVIOUS
    <2>3. Step(r, new) /\ job.op = "site" /\ job.pc = "page"
      BY <1>7, <2>1, <2>2 DEF WritePage, IsAt
    <2>4. new.pc = "index" /\ new.op = job.op /\ new.letter = job.letter /\ new.release = job.release /\ new.index = job.index /\ new.next = job.next
      BY <2>2, <2>3 DEF RequestJobs
    <2>6. page'[job.letter].text # 0
      BY <1>7, <2>1, <2>3 DEF WritePage, Versioned, Sound
    <2>5. Sound(new)'
      BY <2>1, <2>3, <2>4, ReleaseGrows, <2>6 DEF Sound
    <2> QED  BY <2>3, <2>5, StepIsSound
  <1>8. ASSUME NEW r \in Requests, ReadIndex(r) PROVE \A s \in Requests : Sound(request[s])'
    <2>1. PICK job \in RequestJobs : job = request[r] /\ Sound(job) /\ job.letter \in Letters /\ job.release \in Release /\ job.index \subseteq Letters
      BY <1>k
    <2>2. PICK new : new = [job EXCEPT !.pc = "merge", !.index = site_index]
      OBVIOUS
    <2>3. Step(r, new) /\ job.op = "site" /\ job.pc = "index"
      BY <1>8, <2>1, <2>2 DEF ReadIndex, IsAt
    <2>4. new.pc = "merge" /\ new.op = job.op /\ new.letter = job.letter /\ new.release = job.release /\ new.index = site_index /\ new.next = job.next
      BY <2>2, <2>3 DEF RequestJobs
    <2>6. \A l \in site_index : page'[l].text # 0
      BY ReleaseGrows DEF PublishedHasPage
    <2>5. Sound(new)'
      BY <2>1, <2>3, <2>4, ReleaseGrows, <2>6 DEF Sound
    <2> QED  BY <2>3, <2>5, StepIsSound
  <1>9. ASSUME NEW r \in Requests, MergeIndex(r) PROVE \A s \in Requests : Sound(request[s])'
    <2>1. PICK job \in RequestJobs : job = request[r] /\ Sound(job) /\ job.letter \in Letters /\ job.release \in Release /\ job.index \subseteq Letters
      BY <1>k
    <2>2. PICK new : new = [job EXCEPT !.pc = "captions", !.index = {}]
      OBVIOUS
    <2>3. Step(r, new) /\ job.op = "site" /\ job.pc = "merge"
      BY <1>9, <2>1, <2>2 DEF MergeIndex, IsAt
    <2>4. new.pc = "captions" /\ new.op = job.op /\ new.letter = job.letter /\ new.release = job.release /\ new.index = {} /\ new.next = job.next
      BY <2>2, <2>3 DEF RequestJobs
    <2>5. Sound(new)'
      BY <2>1, <2>3, <2>4, ReleaseGrows DEF Sound
    <2> QED  BY <2>3, <2>5, StepIsSound
  <1>10. ASSUME NEW r \in Requests, RefreshSocialExports(r) PROVE \A s \in Requests : Sound(request[s])'
    <2>1. PICK job \in RequestJobs : job = request[r] /\ Sound(job) /\ job.letter \in Letters /\ job.release \in Release /\ job.index \subseteq Letters
      BY <1>k
    <2>2. PICK new : new = [job EXCEPT !.pc = "write", !.release = publication_of(@)]
      OBVIOUS
    <2>3. Step(r, new) /\ job.op = "site" /\ job.pc = "captions"
      BY <1>10, <2>1, <2>2 DEF RefreshSocialExports, IsAt
    <2>4. new.pc = "write" /\ new.op = job.op /\ new.letter = job.letter /\ new.release = publication_of(job.release) /\ new.index = job.index /\ new.next = job.next
      BY <2>2, <2>3 DEF RequestJobs
    <2>5. Sound(new)'
      BY <2>1, <2>3, <2>4, ReleaseGrows, ReleasesMade DEF Sound
    <2> QED  BY <2>3, <2>5, StepIsSound
  <1>11. ASSUME NEW r \in Requests, Upload(r) PROVE \A s \in Requests : Sound(request[s])'
    <2>1. PICK job \in RequestJobs : job = request[r] /\ Sound(job) /\ job.letter \in Letters /\ job.release \in Release /\ job.index \subseteq Letters
      BY <1>k
    <2>2. job.op = "youtube" /\ job.pc = "upload"
      BY <1>11, <2>1 DEF Upload, IsAt
    <2>3. PICK outcome \in {"published", "failed"} : Step(r, [job EXCEPT !.pc = "write", !.release = video_of(@, outcome)])
      <3>1. PICK answer \in Answers : Step(r, [job EXCEPT !.pc = "write", !.release = video_of(@, answer.outcome)])
        BY <1>11, <2>1 DEF Upload
      <3>2. answer.outcome \in {"published", "failed"}
        BY DEF Answers
      <3> QED  BY <3>1, <3>2
    <2>4. PICK new : new = [job EXCEPT !.pc = "write", !.release = video_of(@, outcome)]
      OBVIOUS
    <2>5. new.pc = "write" /\ new.op = job.op /\ new.letter = job.letter /\ new.release = video_of(job.release, outcome)
          /\ new.index = job.index /\ new.next = job.next
      BY <2>4 DEF RequestJobs
    <2>6. Sound(new)'
      BY <2>1, <2>2, <2>5, ReleaseGrows, ReleasesMade DEF Sound
    <2> QED  BY <2>3, <2>4, <2>6, StepIsSound
  <1>12. ASSUME NEW r \in Requests, WriteRelease(r) PROVE \A s \in Requests : Sound(request[s])'
    <2>1. PICK job \in RequestJobs : job = request[r] /\ Sound(job) /\ job.letter \in Letters /\ job.release \in Release /\ job.index \subseteq Letters
      BY <1>k
    <2>2. CASE job.next = "none"
      <3>1. Step(r, IdleRequest)
        BY <1>12, <2>1, <2>2 DEF WriteRelease
      <3>2. Sound(IdleRequest)'
        BY IdleRequestTyped DEF Sound, PublishedIn
      <3> QED  BY <3>1, <3>2, StepIsSound
    <2>3. CASE job.next # "none"
      <3>1. job.next = "approve"
        BY <2>3 DEF RequestJobs
      <3>2. PICK new : new = [job EXCEPT !.op = job.next, !.pc = "check", !.next = "none"]
        OBVIOUS
      <3>3. Step(r, new)
        BY <1>12, <2>1, <2>3, <3>2 DEF WriteRelease
      <3>4. new.op = "approve" /\ new.pc = "check" /\ new.letter = job.letter /\ new.release = job.release /\ new.index = job.index /\ new.next = "none"
        BY <3>1, <3>2 DEF RequestJobs
      <3>5. Sound(new)'
        BY <2>1, <3>4, ReleaseGrows DEF Sound
      <3> QED  BY <3>3, <3>5, StepIsSound
    <2> QED  BY <2>2, <2>3
  <1>13. ASSUME NEW r \in Requests, RequestKilled(r) PROVE \A s \in Requests : Sound(request[s])'
    <2>1. Sound(IdleRequest)'
      BY IdleRequestTyped DEF Sound, PublishedIn
    <2> QED  BY <1>13, <2>1, StepIsSound DEF RequestKilled, Done
  <1>14. ASSUME request' = request PROVE \A s \in Requests : Sound(request[s])'
    <2> SUFFICES ASSUME NEW s \in Requests PROVE Sound(request[s])'
      OBVIOUS
    <2>1. PICK job \in RequestJobs : job = request[s] /\ Sound(job)
      BY <1>k
    <2> QED  BY <1>14, <2>1, SoundStays DEF Sound
  <1>15. ASSUME NEW l \in Letters, NEW eligible \in BOOLEAN, LetterChanges(l, eligible) PROVE request' = request
    BY <1>15 DEF LetterChanges
  <1>16. UNCHANGED release_vars => request' = request
    BY DEF release_vars
  <1> QED  BY <1>2, <1>3, <1>4, <1>5, <1>6, <1>7, <1>8, <1>9, <1>10, <1>11, <1>12, <1>13, <1>14, <1>15, <1>16 DEF ReleaseNext

(* Every change of what is out of a letter is made by a request that rests  *)
(* on an approval of that letter.                                           *)
LEMMA OutStaysApproved ==
    ASSUME ReleaseInv, [ReleaseNext]_release_vars
    PROVE  OutIsApproved'
  <1> USE DEF ReleaseInv, ReleaseTypes
  <1>k. ASSUME NEW r \in Requests
        PROVE  request[r] \in RequestJobs /\ Sound(request[r]) /\ request[r].letter \in Letters
    BY DEF RequestJobs
  <1>1. ASSUME NEW r \in Requests, request[r].letter \in approvals, approvals \subseteq approvals',
               \A l \in Letters \ {request[r].letter} : /\ exported'[l] = exported[l] /\ captions'[l] = captions[l] /\ page'[l] = page[l]
                                                        /\ uploads'[l] = uploads[l] /\ release'[l] = release[l]
        PROVE  OutIsApproved'
    BY <1>1, <1>k DEF OutIsApproved
  <1>2. ASSUME NEW r \in Requests, ExportTexts(r) \/ ExportMedia(r) \/ CopyMedia(r) \/ WritePage(r) \/ RefreshSocialExports(r) \/ Upload(r)
        PROVE  OutIsApproved'
    <2>1. request[r].letter \in approvals
      BY <1>2, <1>k DEF ExportTexts, ExportMedia, CopyMedia, WritePage, RefreshSocialExports, Upload, IsAt, Sound
    <2>2. approvals' = approvals /\ release' = release
      BY <1>2 DEF ExportTexts, ExportMedia, CopyMedia, WritePage, RefreshSocialExports, Upload, Unchanged
    <2>3. \A l \in Letters \ {request[r].letter} : exported'[l] = exported[l] /\ page'[l] = page[l]
      BY <1>2 DEF ExportTexts, ExportMedia, CopyMedia, WritePage, RefreshSocialExports, Upload, Unchanged
    <2>4. \A l \in Letters \ {request[r].letter} : captions'[l] = captions[l] /\ uploads'[l] = uploads[l]
      BY <1>2 DEF ExportTexts, ExportMedia, CopyMedia, WritePage, RefreshSocialExports, Upload, Unchanged
    <2> QED  BY <1>1, <2>1, <2>2, <2>3, <2>4
  <1>3. ASSUME NEW r \in Requests, WriteRelease(r) PROVE OutIsApproved'
    <2>1. UNCHANGED <<exported, captions, page, uploads, approvals>> /\ release' = [release EXCEPT ![request[r].letter] = request[r].release]
      BY <1>3 DEF WriteRelease, Unchanged
    <2>2. \A l \in Letters : release'[l].approved => release[l].approved \/ l \in approvals
      BY <1>k, <2>1 DEF Sound
    <2> QED  BY <2>1, <2>2 DEF OutIsApproved
  <1>4. ASSUME NEW r \in Requests, CheckEligibility(r) PROVE OutIsApproved'
    BY <1>4, ReleaseGrows DEF CheckEligibility, OutIsApproved
  <1>5. ASSUME UNCHANGED <<exported, captions, page, uploads, approvals, release>> PROVE OutIsApproved'
    BY <1>5 DEF OutIsApproved
  <1>6. ASSUME NEW l \in Letters, NEW eligible \in BOOLEAN, LetterChanges(l, eligible) PROVE OutIsApproved'
    BY <1>5, <1>6 DEF LetterChanges
  <1>7. ASSUME NEW r \in Requests, NEW op \in Operations, NEW l \in Letters, BeginRequest(r, op, l) PROVE OutIsApproved'
    BY <1>5, <1>7 DEF BeginRequest
  <1>8. ASSUME NEW r \in Requests, ReadIndex(r) \/ MergeIndex(r) \/ RequestKilled(r) PROVE OutIsApproved'
    BY <1>5, <1>8 DEF ReadIndex, MergeIndex, RequestKilled, Unchanged
  <1>9. CASE UNCHANGED release_vars
    BY <1>5, <1>9 DEF release_vars
  <1> QED  BY <1>2, <1>3, <1>4, <1>6, <1>7, <1>8, <1>9 DEF ReleaseNext

(* The index and the releases follow the pages.                             *)
LEMMA PublishedKeepsPage ==
    ASSUME ReleaseInv, [ReleaseNext]_release_vars
    PROVE  PublishedHasPage'
  <1> USE DEF ReleaseInv, ReleaseTypes
  <1>k. ASSUME NEW r \in Requests
        PROVE  request[r] \in RequestJobs /\ Sound(request[r]) /\ request[r].letter \in Letters /\ request[r].index \subseteq Letters
    BY DEF RequestJobs
  <1>1. ASSUME UNCHANGED <<site_index, release>> PROVE PublishedHasPage'
    BY <1>1, ReleaseGrows DEF PublishedHasPage
  <1>2. ASSUME NEW r \in Requests, MergeIndex(r) PROVE PublishedHasPage'
    <2>1. page' = page /\ release' = release /\ site_index' = request[r].index \cup {request[r].letter}
      BY <1>2 DEF MergeIndex, Unchanged
    <2>2. \A l \in site_index' : page[l].text # 0
      BY <1>2, <1>k, <2>1 DEF MergeIndex, IsAt, Sound
    <2> QED  BY <2>1, <2>2 DEF PublishedHasPage
  <1>3. ASSUME NEW r \in Requests, WriteRelease(r) PROVE PublishedHasPage'
    <2>1. page' = page /\ site_index' = site_index /\ release' = [release EXCEPT ![request[r].letter] = request[r].release]
      BY <1>3 DEF WriteRelease, Unchanged
    <2>2. \A l \in Letters : PublishedIn(release'[l]) => page[l].text # 0
      BY <1>k, <2>1 DEF Sound, PublishedHasPage
    <2> QED  BY <2>1, <2>2 DEF PublishedHasPage, PublishedIn
  <1>4. ASSUME ~(\E r \in Requests : MergeIndex(r) \/ WriteRelease(r)) PROVE UNCHANGED <<site_index, release>>
    BY <1>4 DEF ReleaseNext, release_vars, Unchanged, LetterChanges, BeginRequest, CheckEligibility, RequestKilled,
                ReadIndex, RefreshSocialExports, Upload, ExportTexts, ExportMedia, CopyMedia, WritePage
  <1> QED  BY <1>1, <1>2, <1>3, <1>4

----------------------------------------------------------------------------
(* Finitely many pages are missing from the index.                           *)
LEMMA StrayFinite == ASSUME ReleaseTypes PROVE IsFiniteSet(Stray) /\ Cardinality(Stray) \in Nat /\ Stray \subseteq Letters
  <1>1. Stray \in SUBSET Letters
    BY DEF Stray
  <1> QED  BY <1>1, ReleaseAssumption, FS_Subset, FS_CardinalityType

(* One publication at a time: the request that changed is the only one, the *)
(* index it adds to is the site's.                                          *)
LEMMA OneAtATimeStays ==
    ASSUME ReleaseInv, ~site_overlap, NEW r \in Requests, NEW new \in RequestJobs, Step(r, new),
           new.op = "site" => request[r].op = "site" \/ \A s \in Requests \ {r} : request[s].op # "site",
           new.op = "site" /\ new.pc = "merge" => new.index = site_index',
           new.op = "site" /\ new.pc \in {"captions", "write"} => new.letter \in site_index',
           site_index' # site_index => request[r].op = "site"
    PROVE  /\ \A s, t \in Requests : request'[s].op = "site" /\ request'[t].op = "site" => s = t
           /\ \A s \in Requests : request'[s].op = "site" /\ request'[s].pc = "merge" => request'[s].index = site_index'
           /\ \A s \in Requests : request'[s].op = "site" /\ request'[s].pc \in {"captions", "write"} => request'[s].letter \in site_index'
  <1>1. request'[r] = new /\ \A s \in Requests \ {r} : request'[s] = request[s]
    BY DEF Step, ReleaseInv, ReleaseTypes
  <1>2. \A s, t \in Requests : request[s].op = "site" /\ request[t].op = "site" => s = t
    BY DEF ReleaseInv, OnePublication
  <1>3. /\ \A s \in Requests : request[s].op = "site" /\ request[s].pc = "merge" => request[s].index = site_index
        /\ \A s \in Requests : request[s].op = "site" /\ request[s].pc \in {"captions", "write"} => request[s].letter \in site_index
    BY DEF ReleaseInv, OnePublication, IsAt
  <1>4. \A s \in Requests \ {r} : request[s].op = "site" => site_index' = site_index
    BY <1>2
  <1>5. ASSUME NEW s \in Requests, NEW t \in Requests, request'[s].op = "site", request'[t].op = "site" PROVE s = t
    <2>1. CASE new.op = "site"
      BY <1>1, <1>2, <1>5, <2>1
    <2>2. CASE new.op # "site"
      BY <1>1, <1>2, <1>5, <2>2
    <2> QED  BY <2>1, <2>2
  <1>6. ASSUME NEW s \in Requests, request'[s].op = "site"
        PROVE  /\ request'[s].pc = "merge" => request'[s].index = site_index'
               /\ request'[s].pc \in {"captions", "write"} => request'[s].letter \in site_index'
    <2>1. CASE s = r
      BY <1>1, <1>6, <2>1
    <2>2. CASE s # r
      <3>1. request'[s] = request[s]
        BY <1>1, <2>2
      <3>2. site_index' = site_index
        BY <1>4, <1>6, <2>2, <3>1
      <3> QED  BY <1>3, <1>6, <3>1, <3>2
    <2> QED  BY <2>1, <2>2
  <1> QED  BY <1>5, <1>6

(* A step that keeps its page in progress adds none to those left out.       *)
LEMMA StrayShrinks ==
    ASSUME ReleaseInv, NEW r \in Requests, NEW new \in RequestJobs, Step(r, new),
           request[r].op = "site" => (new.op = "site" /\ new.letter = request[r].letter) \/ request[r].letter \in site_index',
           \A l \in Letters : page'[l] # page[l] => new.op = "site" /\ new.letter = l,
           site_index \subseteq site_index'
    PROVE  Stray' \subseteq Stray
  <1>1. request'[r] = new /\ \A s \in Requests \ {r} : request'[s] = request[s]
    BY DEF Step, ReleaseInv, ReleaseTypes
  <1> SUFFICES ASSUME NEW l \in Stray' PROVE l \in Stray
    OBVIOUS
  <1>2. l \in Letters /\ l \notin site_index' /\ page'[l] # Nothing /\ \A s \in Requests : request'[s].op = "site" => request'[s].letter # l
    BY DEF Stray
  <1>3. page[l] # Nothing
    BY <1>1, <1>2
  <1>4. \A s \in Requests : request[s].op = "site" => request[s].letter # l
    BY <1>1, <1>2
  <1> QED  BY <1>2, <1>3, <1>4 DEF Stray

(* While requests do not overlap the index lacks the page under way only.    *)
LEMMA OnePublicationStays ==
    ASSUME ReleaseInv, [ReleaseNext]_release_vars, ReleaseTypes'
    PROVE  OnePublication'
  <1>o. ASSUME site_overlap' PROVE OnePublication'
    BY <1>o DEF OnePublication
  <1> SUFFICES ASSUME ~site_overlap' PROVE OnePublication'
    BY <1>o
  <1>n. ~site_overlap
    BY ReleaseGrows
  <1>c. /\ IsFiniteSet(Stray) /\ Cardinality(Stray) \in Nat /\ Cardinality(Stray) <= req_kills /\ req_kills \in Nat
        /\ Stray \subseteq Letters
    BY <1>n, StrayFinite DEF ReleaseInv, OnePublication, ReleaseTypes
  <1>f. IsFiniteSet(Stray') /\ Cardinality(Stray') \in Nat
    <2>1. Stray' \in SUBSET Letters
      BY DEF Stray
    <2> QED  BY <2>1, ReleaseAssumption, FS_Subset, FS_CardinalityType
  <1>k. ASSUME NEW r \in Requests
        PROVE  request[r] \in RequestJobs /\ Sound(request[r]) /\ request[r].letter \in Letters
    BY DEF ReleaseInv, ReleaseTypes, RequestJobs
  <1>s. ASSUME NEW r \in Requests, NEW new \in RequestJobs, Step(r, new),
               new.op = "site" => request[r].op = "site" \/ \A s \in Requests \ {r} : request[s].op # "site",
               new.op = "site" /\ new.pc = "merge" => new.index = site_index',
               new.op = "site" /\ new.pc \in {"captions", "write"} => new.letter \in site_index',
               site_index' # site_index => request[r].op = "site",
               request[r].op = "site" => (new.op = "site" /\ new.letter = request[r].letter) \/ request[r].letter \in site_index',
               \A l \in Letters : page'[l] # page[l] => new.op = "site" /\ new.letter = l,
               site_index \subseteq site_index', req_kills' = req_kills
        PROVE  OnePublication'
    <2>1. Stray' \subseteq Stray
      BY <1>s, StrayShrinks
    <2>2. Cardinality(Stray') <= req_kills'
      BY <1>c, <1>f, <1>s, <2>1, FS_Subset
    <2>3. /\ \A s, t \in Requests : request'[s].op = "site" /\ request'[t].op = "site" => s = t
          /\ \A s \in Requests : request'[s].op = "site" /\ request'[s].pc = "merge" => request'[s].index = site_index'
          /\ \A s \in Requests : request'[s].op = "site" /\ request'[s].pc \in {"captions", "write"} => request'[s].letter \in site_index'
      BY <1>n, <1>s, OneAtATimeStays
    <2> QED  BY <2>2, <2>3 DEF OnePublication, IsAt
  <1>1. ASSUME UNCHANGED <<request, site_index, page, req_kills>> PROVE OnePublication'
    <2>1. Stray' = Stray
      BY <1>1 DEF Stray
    <2> QED  BY <1>1, <1>n, <2>1 DEF OnePublication, IsAt, ReleaseInv
  <1>2. ASSUME NEW r \in Requests, NEW op \in Operations, NEW l \in Letters, BeginRequest(r, op, l) PROVE OnePublication'
    <2>1. PICK new : new = Opened(op, l)
      OBVIOUS
    <2>2. new \in RequestJobs /\ (new.op = "site" => op = "site" /\ new.pc = "media") /\ Step(r, new)
      BY <1>2, <2>1, OpenedTyped DEF BeginRequest
    <2>3. request[r].op = "none" /\ page' = page /\ site_index' = site_index /\ req_kills' = req_kills
      BY <1>2, <1>k DEF BeginRequest, Sound
    <2>4. op = "site" => \A s \in Requests \ {r} : request[s].op # "site"
      BY <1>2 DEF BeginRequest
    <2> QED  BY <2>2, <2>3, <2>4, <1>s
  <1>3. ASSUME NEW r \in Requests, CheckEligibility(r) PROVE OnePublication'
    <2>1. PICK new : new = request'[r]
      OBVIOUS
    <2>2. new \in RequestJobs /\ Step(r, new) /\ new.op = request[r].op
      BY <1>3, <1>k, <2>1 DEF CheckEligibility, Step, ReleaseTypes, RequestJobs
    <2>3. request[r].op # "site" /\ page' = page /\ site_index' = site_index /\ req_kills' = req_kills
      BY <1>3, <1>k DEF CheckEligibility, Sound
    <2> QED  BY <2>2, <2>3, <1>s
  <1>4. ASSUME NEW r \in Requests, ExportTexts(r) \/ ExportMedia(r) \/ Upload(r) PROVE OnePublication'
    <2>1. PICK new : new = request'[r]
      OBVIOUS
    <2>4. new \in RequestJobs
      BY <2>1 DEF ReleaseTypes
    <2>5. request \in [Requests -> RequestJobs] /\ \A job : Step(r, job) => new = job
      BY <2>1 DEF Step, ReleaseInv, ReleaseTypes
    <2>6. ASSUME ExportTexts(r) PROVE new.op = request[r].op /\ request[r].op # "site"
      <3>1. request[r].op = "export" /\ Step(r, [request[r] EXCEPT !.pc = "media", !.media = letter[request[r].letter].version])
        BY <2>6 DEF ExportTexts, IsAt
      <3>2. new.op = request[r].op
        BY <1>k, <2>5, <3>1 DEF RequestJobs
      <3> QED  BY <3>1, <3>2
    <2>7. ASSUME ExportMedia(r) PROVE new.op = request[r].op /\ request[r].op # "site"
      <3>1. request[r].op = "export" /\ Step(r, [request[r] EXCEPT !.pc = "write", !.release = export_of(@)])
        BY <2>7 DEF ExportMedia, IsAt
      <3>2. new.op = request[r].op
        BY <1>k, <2>5, <3>1 DEF RequestJobs
      <3> QED  BY <3>1, <3>2
    <2>8. ASSUME Upload(r) PROVE new.op = request[r].op /\ request[r].op # "site"
      <3>1. request[r].op = "youtube"
        BY <2>8 DEF Upload, IsAt
      <3>2. PICK outcome : Step(r, [request[r] EXCEPT !.pc = "write", !.release = video_of(@, outcome)])
        BY <2>8 DEF Upload
      <3>3. new.op = request[r].op
        BY <1>k, <2>5, <3>2 DEF RequestJobs
      <3> QED  BY <3>1, <3>3
    <2>9. new.op = request[r].op /\ request[r].op # "site"
      BY <1>4, <2>6, <2>7, <2>8
    <2>2. new \in RequestJobs /\ Step(r, new) /\ new.op = request[r].op /\ request[r].op # "site"
      BY <1>4, <2>1, <2>4, <2>5, <2>9 DEF ExportTexts, ExportMedia, Upload, Step
    <2>3. page' = page /\ site_index' = site_index /\ req_kills' = req_kills
      BY <1>4 DEF ExportTexts, ExportMedia, Upload, Unchanged
    <2> QED  BY <2>2, <2>3, <1>s
  <1>5. ASSUME NEW r \in Requests, CopyMedia(r) \/ WritePage(r) PROVE OnePublication'
    <2>1. PICK new : new = request'[r]
      OBVIOUS
    <2>2. /\ new \in RequestJobs /\ Step(r, new) /\ new.op = "site" /\ request[r].op = "site" /\ new.letter = request[r].letter
          /\ new.pc \in {"page", "index"}
      BY <1>5, <1>k, <2>1 DEF CopyMedia, WritePage, IsAt, Step, ReleaseTypes, RequestJobs
    <2>3. site_index' = site_index /\ req_kills' = req_kills /\ \A l \in Letters : page'[l] # page[l] => l = request[r].letter
      BY <1>5 DEF CopyMedia, WritePage, Unchanged, ReleaseInv, ReleaseTypes
    <2> QED  BY <2>2, <2>3, <1>s
  <1>6. ASSUME NEW r \in Requests, ReadIndex(r) PROVE OnePublication'
    <2>1. PICK new : new = request'[r]
      OBVIOUS
    <2>2. /\ new \in RequestJobs /\ Step(r, new) /\ new.op = "site" /\ request[r].op = "site" /\ new.letter = request[r].letter
          /\ new.pc = "merge" /\ new.index = site_index
      BY <1>6, <1>k, <2>1 DEF ReadIndex, IsAt, Step, ReleaseTypes, RequestJobs
    <2>3. site_index' = site_index /\ req_kills' = req_kills /\ page' = page
      BY <1>6 DEF ReadIndex, Unchanged
    <2> QED  BY <2>2, <2>3, <1>s
  <1>7. ASSUME NEW r \in Requests, MergeIndex(r) PROVE OnePublication'
    <2>1. PICK new : new = request'[r]
      OBVIOUS
    <2>2. /\ new \in RequestJobs /\ Step(r, new) /\ new.op = "site" /\ request[r].op = "site" /\ new.letter = request[r].letter
          /\ new.pc = "captions"
      BY <1>7, <1>k, <2>1 DEF MergeIndex, IsAt, Step, ReleaseTypes, RequestJobs
    <2>3. site_index' = request[r].index \cup {request[r].letter} /\ req_kills' = req_kills /\ page' = page
      BY <1>7 DEF MergeIndex, Unchanged
    <2>4. request[r].index = site_index
      BY <1>7, <1>n DEF MergeIndex, IsAt, ReleaseInv, OnePublication
    <2> QED  BY <2>2, <2>3, <2>4, <1>s
  <1>8. ASSUME NEW r \in Requests, RefreshSocialExports(r) PROVE OnePublication'
    <2>1. PICK new : new = request'[r]
      OBVIOUS
    <2>2. /\ new \in RequestJobs /\ Step(r, new) /\ new.op = "site" /\ request[r].op = "site" /\ new.letter = request[r].letter
          /\ new.pc = "write"
      BY <1>8, <1>k, <2>1 DEF RefreshSocialExports, IsAt, Step, ReleaseTypes, RequestJobs
    <2>3. site_index' = site_index /\ req_kills' = req_kills /\ page' = page
      BY <1>8 DEF RefreshSocialExports, Unchanged
    <2>4. request[r].letter \in site_index
      BY <1>8, <1>n DEF RefreshSocialExports, ReleaseInv, OnePublication, IsAt
    <2> QED  BY <2>2, <2>3, <2>4, <1>s
  <1>9. ASSUME NEW r \in Requests, WriteRelease(r) PROVE OnePublication'
    <2>1. PICK new : new = request'[r]
      OBVIOUS
    <2>2. /\ new \in RequestJobs /\ Step(r, new)
      BY <1>9, <1>k, <2>1 DEF WriteRelease, Step, ReleaseTypes
    <2>3. new.op # "site"
      BY <1>9, <1>k, <2>1, IdleRequestTyped DEF WriteRelease, Step, ReleaseInv, ReleaseTypes, RequestJobs
    <2>4. site_index' = site_index /\ req_kills' = req_kills /\ page' = page
      BY <1>9 DEF WriteRelease, Unchanged
    <2>5. request[r].op = "site" => request[r].letter \in site_index
      BY <1>9, <1>n DEF WriteRelease, ReleaseInv, OnePublication
    <2> QED  BY <2>2, <2>3, <2>4, <2>5, <1>s
  <1>10. ASSUME NEW r \in Requests, RequestKilled(r) PROVE OnePublication'
    <2>1. Step(r, IdleRequest) /\ req_kills' = req_kills + 1 /\ page' = page /\ site_index' = site_index
      BY <1>10 DEF RequestKilled, Done
    <2>2. Stray' \subseteq Stray \cup {request[r].letter}
      <3>1. \A s \in Requests \ {r} : request'[s] = request[s]
        BY <2>1 DEF Step, ReleaseInv, ReleaseTypes
      <3> QED  BY <2>1, <3>1 DEF Stray
    <2>3. IsFiniteSet(Stray \cup {request[r].letter}) /\ Cardinality(Stray \cup {request[r].letter}) <= Cardinality(Stray) + 1
          /\ Cardinality(Stray \cup {request[r].letter}) \in Nat
      <3>1. IsFiniteSet(Stray) /\ Cardinality(Stray) \in Nat
        BY <1>c
      <3>2. /\ IsFiniteSet(Stray \cup {request[r].letter})
            /\ Cardinality(Stray \cup {request[r].letter}) = IF request[r].letter \in Stray THEN Cardinality(Stray) ELSE Cardinality(Stray) + 1
        BY <3>1, FS_AddElement
      <3> QED  BY <3>1, <3>2
    <2>4. Cardinality(Stray') <= Cardinality(Stray \cup {request[r].letter})
      BY <2>2, <2>3, FS_Subset
    <2>5. Cardinality(Stray') <= req_kills'
      BY <1>c, <1>f, <2>1, <2>3, <2>4
    <2>6. /\ \A s, t \in Requests : request'[s].op = "site" /\ request'[t].op = "site" => s = t
          /\ \A s \in Requests : request'[s].op = "site" /\ request'[s].pc = "merge" => request'[s].index = site_index'
          /\ \A s \in Requests : request'[s].op = "site" /\ request'[s].pc \in {"captions", "write"} => request'[s].letter \in site_index'
      BY <1>n, <2>1, IdleRequestTyped, OneAtATimeStays
    <2> QED  BY <2>5, <2>6 DEF OnePublication, IsAt
  <1>11. ASSUME NEW l \in Letters, NEW eligible \in BOOLEAN, LetterChanges(l, eligible) PROVE OnePublication'
    BY <1>1, <1>11 DEF LetterChanges
  <1>12. CASE UNCHANGED release_vars
    BY <1>1, <1>12 DEF release_vars
  <1> QED  BY <1>2, <1>3, <1>4, <1>5, <1>6, <1>7, <1>8, <1>9, <1>10, <1>11, <1>12 DEF ReleaseNext

----------------------------------------------------------------------------
(* The invariant holds of every state of the requests.                       *)
THEOREM ReleaseInvHolds == ReleaseSpec => []ReleaseInv
  <1>1. ReleaseInv /\ [ReleaseNext]_release_vars => ReleaseInv'
    <2> SUFFICES ASSUME ReleaseInv, [ReleaseNext]_release_vars PROVE ReleaseInv'
      OBVIOUS
    <2>1. ReleaseTypes'
      BY ReleaseTypesStep
    <2>2. (\A r \in Requests : Sound(request[r]))'
      BY JobsStaySound
    <2>3. OutIsApproved' /\ PublishedHasPage' /\ OnePublication'
      BY <2>1, OutStaysApproved, PublishedKeepsPage, OnePublicationStays
    <2> QED  BY <2>1, <2>2, <2>3 DEF ReleaseInv
  <1> QED  BY <1>1, ReleaseInitInv, PTL DEF ReleaseSpec

(* The release server's part of TypeOK (release_server.py, publish.py).      *)
THEOREM ReleaseTypesHold == ReleaseSpec => []ReleaseTypeOK
  <1>1. ReleaseInv => ReleaseTypeOK
    BY DEF ReleaseInv, ReleaseTypes, ReleaseTypeOK, Release, RequestJobs, Versioned
  <1> QED  BY <1>1, ReleaseInvHolds, PTL

(* Nothing is exported, on the site or uploaded without the approval that    *)
(* found it eligible, and index and pages differ by a page under way or      *)
(* where requests overlapped.                                                *)
THEOREM PublicIsApproved == ReleaseSpec => []PublicWasApproved
  <1>1. ReleaseInv => PublicWasApproved
    <2> SUFFICES ASSUME ReleaseInv PROVE PublicWasApproved
      OBVIOUS
    <2> USE DEF ReleaseInv
    <2> DEFINE Left == {l \in Letters \ site_index : page[l] # Nothing}
               Publishing == {r \in Requests : request[r].op = "site"}
    <2>1. ASSUME ~site_overlap PROVE Cardinality(Left) <= req_kills + Cardinality(Publishing)
      <3>1. IsFiniteSet(Publishing) /\ Cardinality(Publishing) \in Nat
        <4>1. Publishing \in SUBSET Requests
          OBVIOUS
        <4> QED  BY <4>1, ReleaseAssumption, FS_Subset, FS_CardinalityType
      <3>2. IsFiniteSet(Stray) /\ Cardinality(Stray) \in Nat /\ Cardinality(Stray) <= req_kills /\ req_kills \in Nat
        BY <2>1, StrayFinite DEF OnePublication, ReleaseTypes
      <3>3. CASE Publishing = {}
        <4>1. Left \in SUBSET Stray
          BY <3>3 DEF Stray
        <4>2. Cardinality(Left) <= Cardinality(Stray) /\ Cardinality(Left) \in Nat
          BY <3>2, <4>1, FS_Subset, FS_CardinalityType
        <4> QED  BY <3>1, <3>2, <4>2
      <3>4. CASE Publishing # {}
        <4>1. PICK r \in Requests : request[r].op = "site"
          BY <3>4
        <4>2. Left \in SUBSET (Stray \cup {request[r].letter})
          BY <2>1, <4>1 DEF Stray, OnePublication
        <4>3. /\ IsFiniteSet(Stray \cup {request[r].letter}) /\ Cardinality(Stray \cup {request[r].letter}) \in Nat
              /\ Cardinality(Stray \cup {request[r].letter}) <= Cardinality(Stray) + 1
          BY <3>2, FS_AddElement
        <4>4. Cardinality(Left) <= Cardinality(Stray \cup {request[r].letter}) /\ Cardinality(Left) \in Nat
          BY <4>2, <4>3, FS_Subset, FS_CardinalityType
        <4>5. Cardinality(Publishing) # 0
          BY <3>1, <3>4, FS_EmptySet
        <4> QED  BY <3>1, <3>2, <4>3, <4>4, <4>5
      <3> QED  BY <3>3, <3>4
    <2>2. site_index \subseteq {l \in Letters : page[l].text # 0}
      BY DEF PublishedHasPage, ReleaseTypes
    <2> QED  BY <2>1, <2>2 DEF PublicWasApproved, OutIsApproved, PublishedHasPage, PublishedIn
  <1> QED  BY <1>1, ReleaseInvHolds, PTL

----------------------------------------------------------------------------
(* Capture.  Only one promotion or routing runs at a time; what it has      *)
(* behind it at each step, and what the stores say of each other.           *)
Places == {"nowhere", "raw", "archive", "expired_stage1", "expired_stage2"}
ArtifactStates == {Missing, "captured", "promoted", "routed"}
DenialReasons == {"invalid_current_state", "invalid_next_state", "forbidden_transition", "transition_not_defined",
                  "lane_not_operational", "lane_not_registered"} \cup Required("promotion_policy")
HqSteps == {"idle", "next", "refused", "write", "event", "record", "route", "copy", "routed", "unlink", "log",
            "archive", "decided"}
HqJobs == [pc : HqSteps, todo : SUBSET SUBSET Fragments, bundle : BundleIds \cup {NoBundle}, promoting : BOOLEAN,
           spine : Spines \cup {NoLane}, validation : [current : ArtifactStates, reasons : SUBSET DenialReasons]]
Promoted(b) == transition_event(b, Missing, "promoted", {})
Routed(b) == transition_event(b, "promoted", "routed", {})
Refused(b, validation) == transition_event(b, validation.current, "promoted", validation.reasons)
Gone(f) == place[f] # "nowhere"
InQueue(b) == \E c \in incoming : c.bundle = b
OkLogged(b) == \E r \in routing_log : r.ok /\ r.bundle = b

CaptureTypes ==
    /\ today \in Days
    /\ place \in [Fragments -> Places] /\ captured_on \in [Fragments -> 0..LastDay]
    /\ bundles \subseteq BundleIds
    /\ registry \in [Artifacts -> ArtifactStates]
    /\ write_faults \in Nat
    /\ cap_job.pc \in {"idle", "event", "record"} /\ (cap_job.pc # "idle" => cap_job.fragment \in Fragments)
    /\ hq_job \in HqJobs

(* Copies, log lines and registered bundles.                                *)
StoresAgree ==
    /\ \A b \in BundleIds : registry[b] # "captured"
    /\ \A b \in BundleIds : registry[b] \in {"promoted", "routed"} => b \in bundles /\ Promoted(b) \in gate_events
    /\ \A b \in BundleIds : registry[b] = "routed" => CopyOf(b) \in incoming /\ Routed(b) \in gate_events
    /\ \A c \in incoming : c.bundle \in BundleIds /\ c = CopyOf(c.bundle)
    /\ \A r \in routing_log : r.bundle \in BundleIds /\ r.spine = Spine(r.bundle) /\ (r.ok => registry[r.bundle] = "routed")
    /\ \A e \in promo_log : /\ e.bundle \in BundleIds /\ registry[e.bundle] \in {"promoted", "routed"}
                            /\ e.routed_spine \in {NoLane, Spine(e.bundle)}
    /\ write_faults = 0 => \A c \in incoming : OkLogged(c.bundle)
                                               \/ (hq_job.pc \in {"routed", "log"} /\ hq_job.bundle = c.bundle)

(* No member of a cluster or a bundle has yet to be captured.               *)
MembersWereCaptured ==
    /\ \A c \in hq_job.todo : c # {} /\ \A f \in c : Gone(f)
    /\ \A b \in bundles \cup {hq_job.bundle} : \A f \in b.members : Gone(f)

ArchivedIsBundled == \A f \in In("archive") : \E b \in bundles : f \in b.members /\ registry[b] \in {"promoted", "routed"}

DecisionTrue(d) ==
    \/ /\ d.decision # "PROMOTE_TO_STATE" /\ d.refs = {}
       /\ transition_event(d.proposal, d.origin, "promoted",
              {g.reason_code : g \in {h \in d.gates : h.status = "FAIL"}}) \in gate_events
    \/ /\ d.proposal \in BundleIds /\ registry[d.proposal] \in {"promoted", "routed"} /\ d.origin = Missing
       /\ {g.reason_code : g \in {h \in d.gates : h.status = "FAIL"}} = {}
       /\ \E e \in promo_log : e.bundle = d.proposal
       /\ \A f \in d.proposal.members : Gone(f) /\ place[f] # "raw"

(* What the running command has behind it.                                  *)
HqSound ==
    LET b == hq_job.bundle
        v == hq_job.validation
    IN  /\ hq_job.pc \notin {"idle", "next"} => b \in BundleIds
        /\ hq_job.pc \in {"idle", "next"} => b = NoBundle
        /\ hq_job.pc \in {"write", "event", "record"} => registry[b] = Missing
        /\ hq_job.pc \in {"write", "event", "record", "archive", "decided"} => v.current = Missing /\ v.reasons = {}
        /\ hq_job.promoting /\ hq_job.pc \in {"route", "copy", "routed", "unlink", "log"} =>
               v.current = Missing /\ v.reasons = {} /\ registry[b] \in {"promoted", "routed"}
        /\ hq_job.pc \in {"event", "record", "route", "archive", "decided"} => b \in bundles
        /\ hq_job.pc = "record" => Promoted(b) \in gate_events
        /\ hq_job.pc \in {"copy", "routed", "unlink"} => registry[b] = "promoted"
        /\ hq_job.pc \in {"copy", "routed"} => Routed(b) \in gate_events
        /\ hq_job.pc = "routed" => CopyOf(b) \in incoming
        /\ hq_job.pc = "log" => registry[b] = "routed"
        /\ hq_job.pc \in {"archive", "decided"} => /\ registry[b] \in {"promoted", "routed"}
                                                   /\ hq_job.spine \in {NoLane, Spine(b)}
        /\ hq_job.pc = "decided" => /\ \A f \in b.members : place[f] # "raw"
                                    /\ \E e \in promo_log : e.bundle = b
        /\ hq_job.pc = "refused" => v.reasons # {} /\ Refused(b, v) \in gate_events

CaptureInv ==
    /\ CaptureTypes /\ StoresAgree /\ MembersWereCaptured /\ ArchivedIsBundled /\ HqSound
    /\ \A d \in decisions : DecisionTrue(d)

(* A finite set of numbers has a smallest one.                              *)
LEMMA SmallestExists ==
    ASSUME NEW s, s \subseteq Nat, s # {}, IsFiniteSet(s)
    PROVE  \E x \in s : \A y \in s : x <= y
  <1> DEFINE UpTo(i) == {j \in s : j <= i}
             Starts == {UpTo(i) : i \in s}
             R == StrictSubsetOrdering(s)
  <1>1. IsWellFoundedOn(R, SUBSET s)
    BY FS_StrictSubsetOrderingWellFounded, FS_FiniteSubsetsOfFinite
  <1>2. Starts \subseteq SUBSET s /\ Starts # {}
    OBVIOUS
  <1>3. PICK t \in Starts : \A u \in Starts : <<u, t>> \notin R
    <2> HIDE DEF Starts, R
    <2> QED  BY <1>1, <1>2, WFMin
  <1>4. PICK i \in s : t = UpTo(i)
    BY <1>3
  <1>5. ASSUME NEW j \in s, ~(i <= j) PROVE FALSE
    <2>1. i \in Nat /\ j \in Nat /\ j < i
      BY <1>5
    <2>2. UpTo(j) \subseteq UpTo(i) /\ i \in UpTo(i) /\ i \notin UpTo(j)
      <3>1. \A k \in s : k \in Nat
        OBVIOUS
      <3>2. \A k \in s : k <= j => k <= i
        BY <2>1, <3>1
      <3>3. i <= i /\ ~(i <= j)
        BY <2>1
      <3> QED  BY <3>2, <3>3
    <2>3. UpTo(j) \in Starts /\ UpTo(j) \in SUBSET s /\ UpTo(i) \in SUBSET s
      OBVIOUS
    <2> HIDE DEF UpTo, Starts
    <2> QED  BY <1>3, <1>4, <2>2, <2>3 DEF StrictSubsetOrdering
  <1> QED  BY <1>5

(* The least fragment of a cluster is one of it.                             *)
LEMMA MinIsMember ==
    ASSUME NEW s, s \subseteq Fragments, s # {}
    PROVE  Min(s) \in s
  <1>1. s \subseteq Nat /\ IsFiniteSet(s)
    BY FragmentAssumption, FS_Subset
  <1>2. \E x \in s : \A y \in s : x <= y
    BY <1>1, SmallestExists
  <1> QED  BY <1>2 DEF Min

(* The cluster promoted first is one of those to promote.                    *)
LEMMA FirstClusterIsOne ==
    ASSUME hq_job.todo # {}, \A c \in hq_job.todo : c \subseteq Fragments /\ c # {}
    PROVE  FirstCluster \in hq_job.todo
  <1>1. PICK mins : mins = {Min(c) : c \in hq_job.todo}
    OBVIOUS
  <1>2. mins \subseteq Fragments /\ mins # {}
    BY <1>1, MinIsMember
  <1>3. mins \subseteq Nat /\ IsFiniteSet(mins)
    BY <1>2, FragmentAssumption, FS_Subset
  <1>4. PICK x \in mins : \A y \in mins : x <= y
    BY <1>2, <1>3, SmallestExists
  <1>5. PICK c \in hq_job.todo : x = Min(c)
    BY <1>1, <1>4
  <1>6. \A d \in hq_job.todo : Min(c) <= Min(d)
    BY <1>1, <1>4, <1>5
  <1> QED  BY <1>6 DEF FirstCluster

(* The gate.                                                                *)
LEMMA PromotionsLeaveMissing ==
    ASSUME NEW current \in ArtifactStates, current # "captured", NEW lane, NEW context, NEW policies,
           rejections(current, "promoted", lane, context, policies) = {}
    PROVE  current = Missing
  <1>1. ASSUME current \in {"promoted", "routed"} PROVE FALSE
    <2>1. <<current, "promoted">> \notin Transitions
      <3>1. \A i \in 1..10 : i = 1 \/ i = 2 \/ i = 3 \/ i = 4 \/ i = 5 \/ i = 6 \/ i = 7 \/ i = 8 \/ i = 9 \/ i = 10
        OBVIOUS
      <3>2. \A i \in 1..10 : WorkingOrder[i] \in {"promoted", "routed"} => WorkingOrder[i + 1] # "promoted"
        BY <3>1 DEF WorkingOrder
      <3>3. \A i \in 1..10 : <<current, "promoted">> # <<WorkingOrder[i], WorkingOrder[i + 1]>>
        BY <3>2, <1>1
      <3> QED  BY <3>3, <1>1 DEF Transitions, Missing
    <2>2. current # Missing
      BY <1>1 DEF Missing
    <2>3. CASE current \notin MachineStates
      BY <2>2, <2>3 DEF rejections
    <2>4. CASE current \in MachineStates
      BY <2>1, <2>2, <2>4 DEF rejections
    <2> QED  BY <2>3, <2>4
  <1> QED  BY <1>1 DEF ArtifactStates

(* The gate's reasons to refuse.                                             *)
LEMMA ReasonsAreKnown ==
    ASSUME NEW current, NEW lane, NEW context, NEW policies
    PROVE  rejections(current, "promoted", lane, context, policies) \in SUBSET DenialReasons
  <1>1. LaneFailures(lane) \subseteq {"lane_not_operational", "lane_not_registered"}
    BY DEF LaneFailures
  <1>2. Gate("promoted") = "promotion_policy"
    BY DEF Gate
  <1>3. CASE current = Missing
    BY <1>1, <1>2, <1>3 DEF rejections, DenialReasons
  <1>4. CASE current # Missing /\ current \in MachineStates
    BY <1>1, <1>2, <1>4 DEF rejections, DenialReasons
  <1>5. CASE current # Missing /\ current \notin MachineStates
    BY <1>1, <1>2, <1>5 DEF rejections, DenialReasons
  <1> QED  BY <1>3, <1>4, <1>5

(* Names.                                                                   *)
LEMMA BundlesAreNoFiles ==
    /\ \A f \in Fragments : AsFile(f) \in Artifacts /\ AsFile(f) \notin BundleIds
    /\ BundleIds \subseteq Artifacts
    /\ NoBundle \notin BundleIds /\ NoBundle.members = {}
  BY DayAssumption DEF AsFile, Artifacts, BundleIds, Days, NoBundle

(* A bundle has a lane.                                                      *)
LEMMA SpineIsOne == ASSUME NEW b \in BundleIds PROVE Spine(b) \in Spines
  <1>1. b.members \subseteq Fragments /\ b.members # {}
    BY DEF BundleIds
  <1>2. Min(b.members) \in b.members
    BY <1>1, MinIsMember, FragmentAssumption
  <1> QED  BY <1>1, <1>2 DEF Spine, Spines

(* A copy says whose it is.                                                  *)
LEMMA CopyNamesBundle == ASSUME NEW b PROVE CopyOf(b).bundle = b /\ CopyOf(b).spine = Spine(b)
  BY DEF CopyOf

LEMMA NoHqJobTyped == /\ NoHqJob \in HqJobs /\ NoHqJob.pc = "idle" /\ NoHqJob.todo = {} /\ NoHqJob.bundle = NoBundle
                      /\ NoHqJob.promoting = FALSE /\ NoHqJob.spine = NoLane
                      /\ NoHqJob.validation = NoValidation /\ NoValidation.current = Missing /\ NoValidation.reasons = {}
  BY DEF NoHqJob, HqJobs, HqSteps, NoValidation, ArtifactStates

LEMMA CaptureInitInv == CaptureInit => CaptureInv
  <1> SUFFICES ASSUME CaptureInit PROVE CaptureInv
    OBVIOUS
  <1>1. CaptureTypes
    BY NoHqJobTyped, DayAssumption DEF CaptureInit, CaptureTypes, Places, ArtifactStates, Days
  <1>2. \A b \in BundleIds : registry[b] = Missing
    BY BundlesAreNoFiles DEF CaptureInit
  <1>3. Missing \notin {"captured", "promoted", "routed"}
    BY DEF Missing
  <1>4. hq_job.pc = "idle" /\ hq_job.bundle = NoBundle /\ hq_job.todo = {}
    BY NoHqJobTyped DEF CaptureInit
  <1>5. In("archive") = {}
    BY DEF CaptureInit, In
  <1>6. NoBundle.members = {}
    BY BundlesAreNoFiles
  <1> QED  BY <1>1, <1>2, <1>3, <1>4, <1>5, <1>6 DEF CaptureInv, CaptureInit, StoresAgree, MembersWereCaptured, ArchivedIsBundled,
             HqSound

----------------------------------------------------------------------------
(* The jobs a command goes through.                                         *)
LEMMA AtStep ==
    ASSUME NEW job \in HqJobs, NEW pc \in HqSteps, NEW new, new = [job EXCEPT !.pc = pc]
    PROVE  /\ new \in HqJobs /\ new.pc = pc /\ new.todo = job.todo /\ new.bundle = job.bundle
           /\ new.promoting = job.promoting /\ new.spine = job.spine /\ new.validation = job.validation
  BY DEF HqJobs

(* What a job does when a bundle is routed: it ends, or goes on with the     *)
(* next cluster.                                                             *)
LEMMA AfterRouteCases ==
    ASSUME hq_job \in HqJobs, NEW spine \in Spines \cup {NoLane}, AfterRoute(spine)
    PROVE  /\ hq_job' \in HqJobs
           /\ ~hq_job.promoting => hq_job' = NoHqJob
           /\ hq_job.promoting => /\ hq_job'.pc = "archive" /\ hq_job'.spine = spine /\ hq_job'.todo = hq_job.todo
                                  /\ hq_job'.bundle = hq_job.bundle /\ hq_job'.validation = hq_job.validation
  <1>1. CASE ~hq_job.promoting
    BY <1>1, NoHqJobTyped DEF AfterRoute
  <1>2. CASE hq_job.promoting
    <2>1. PICK job \in HqJobs : job = hq_job
      OBVIOUS
    <2>2. PICK mid : mid = [job EXCEPT !.pc = "archive"]
      OBVIOUS
    <2>3. "archive" \in HqSteps
      BY DEF HqSteps
    <2>4. /\ mid \in HqJobs /\ mid.pc = "archive" /\ mid.todo = job.todo /\ mid.bundle = job.bundle
          /\ mid.validation = job.validation
      BY <2>2, <2>3, AtStep
    <2>5. hq_job' = [mid EXCEPT !.spine = spine]
      BY <1>2, <2>1, <2>2 DEF AfterRoute
    <2>6. /\ [mid EXCEPT !.spine = spine] \in HqJobs /\ [mid EXCEPT !.spine = spine].pc = mid.pc
          /\ [mid EXCEPT !.spine = spine].spine = spine /\ [mid EXCEPT !.spine = spine].todo = mid.todo
          /\ [mid EXCEPT !.spine = spine].bundle = mid.bundle
          /\ [mid EXCEPT !.spine = spine].validation = mid.validation
      BY <2>4 DEF HqJobs
    <2> QED  BY <1>2, <2>1, <2>4, <2>5, <2>6
  <1> QED  BY <1>1, <1>2 DEF HqJobs

(* What no step of a command undoes.                                        *)
LEMMA HqKeeps ==
    ASSUME CaptureInv, today' = today, place' = place, captured_on' = captured_on, cap_job' = cap_job,
           write_faults' \in Nat, bundles \subseteq bundles', bundles' \subseteq BundleIds,
           \/ registry' = registry
           \/ /\ hq_job.bundle \in BundleIds
              /\ \E s \in {"promoted", "routed"} : registry' = [registry EXCEPT ![hq_job.bundle] = s],
           gate_events \subseteq gate_events', promo_log \subseteq promo_log', decisions' = decisions,
           hq_job' \in HqJobs
    PROVE  CaptureTypes' /\ ArchivedIsBundled' /\ (\A d \in decisions : DecisionTrue(d))'
  <1>1. registry \in [Artifacts -> ArtifactStates]
    BY DEF CaptureInv, CaptureTypes
  <1>2. registry' \in [Artifacts -> ArtifactStates]
    BY <1>1 DEF ArtifactStates
  <1>3. \A b \in BundleIds : registry[b] \in {"promoted", "routed"} => registry'[b] \in {"promoted", "routed"}
    BY <1>1, BundlesAreNoFiles
  <1>4. CaptureTypes'
    BY <1>2 DEF CaptureInv, CaptureTypes
  <1>5. ArchivedIsBundled'
    <2>1. In("archive")' = In("archive")
      BY DEF In
    <2> QED  BY <1>3, <2>1 DEF CaptureInv, CaptureTypes, ArchivedIsBundled
  <1>6. ASSUME NEW d \in decisions PROVE DecisionTrue(d)'
    <2>1. DecisionTrue(d)
      BY DEF CaptureInv
    <2> QED  BY <1>3, <2>1 DEF DecisionTrue, Gone
  <1> QED  BY <1>4, <1>5, <1>6

(* What the other actors do leaves the promotions alone.                    *)
LEMMA OthersKeep ==
    ASSUME CaptureInv, CaptureTypes', hq_job' = hq_job, bundles' = bundles, incoming' = incoming,
           promo_log' = promo_log, routing_log' = routing_log, decisions' = decisions,
           gate_events \subseteq gate_events', write_faults' = 0 => write_faults = 0,
           \A b \in BundleIds : registry'[b] = registry[b],
           \A f \in Fragments : Gone(f) => Gone(f)' /\ (place'[f] = "raw" => place[f] = "raw"),
           \A f \in Fragments : place'[f] = "archive" => place[f] = "archive"
    PROVE  CaptureInv'
  <1>1. \A b \in BundleIds \cup {NoBundle} : b.members \subseteq Fragments
    BY BundlesAreNoFiles DEF BundleIds
  <1>2. hq_job.bundle \in BundleIds \cup {NoBundle} /\ hq_job.todo \subseteq SUBSET Fragments
        /\ bundles \subseteq BundleIds
    BY DEF CaptureInv, CaptureTypes, HqJobs
  <1>3. StoresAgree'
    BY DEF CaptureInv, StoresAgree, OkLogged
  <1>4. MembersWereCaptured'
    BY <1>1, <1>2 DEF CaptureInv, MembersWereCaptured
  <1>5. ArchivedIsBundled'
    <2>1. In("archive")' \subseteq In("archive")
      BY DEF In
    <2> QED  BY <1>2, <2>1 DEF CaptureInv, ArchivedIsBundled
  <1>6. HqSound'
    <2>1. hq_job.pc = "decided" => \A f \in hq_job.bundle.members : place'[f] # "raw"
      BY <1>1, <1>2 DEF CaptureInv, HqSound, MembersWereCaptured
    <2>2. hq_job.pc \notin {"idle", "next"} => hq_job.bundle \in BundleIds
      BY DEF CaptureInv, HqSound
    <2> QED  BY <2>1, <2>2 DEF CaptureInv, HqSound
  <1>7. ASSUME NEW d \in decisions PROVE DecisionTrue(d)'
    <2>1. DecisionTrue(d)
      BY DEF CaptureInv
    <2> QED  BY <1>1, <2>1 DEF DecisionTrue
  <1> QED  BY <1>3, <1>4, <1>5, <1>6, <1>7 DEF CaptureInv

LEMMA CaptureWriteKeeps == ASSUME CaptureInv, NEW f \in Fragments, CaptureWrite(f) PROVE CaptureInv'
  <1>1. CaptureTypes
    BY DEF CaptureInv
  <1>2. place' = [place EXCEPT ![f] = "raw"] /\ place[f] = "nowhere"
    BY DEF CaptureWrite
  <1>3. CaptureTypes'
    <2>1. place' \in [Fragments -> Places]
      BY <1>1, <1>2 DEF CaptureTypes, Places
    <2>2. captured_on' \in [Fragments -> 0..LastDay]
      BY <1>1, DayAssumption DEF CaptureTypes, CaptureWrite, Days
    <2> QED  BY <1>1, <2>1, <2>2 DEF CaptureTypes, CaptureWrite
  <1>4. \A g \in Fragments : place'[g] = IF g = f THEN "raw" ELSE place[g]
    BY <1>1, <1>2 DEF CaptureTypes
  <1>5. \A g \in Fragments : Gone(g) => Gone(g)' /\ (place'[g] = "raw" => place[g] = "raw")
    BY <1>2, <1>4 DEF Gone
  <1> QED  BY <1>2, <1>3, <1>4, <1>5, OthersKeep DEF CaptureWrite, log_vars

LEMMA CaptureEventKeeps == ASSUME CaptureInv, CaptureEvent PROVE CaptureInv'
  <1>1. CaptureTypes'
    BY DEF CaptureInv, CaptureTypes, CaptureEvent, disk_vars
  <1>2. gate_events \subseteq gate_events'
    BY DEF CaptureEvent, Gated
  <1>3. hq_job' = hq_job /\ bundles' = bundles /\ incoming' = incoming /\ promo_log' = promo_log
        /\ routing_log' = routing_log /\ decisions' = decisions /\ write_faults' = write_faults
        /\ registry' = registry /\ place' = place
    BY DEF CaptureEvent, disk_vars
  <1>4. \A g \in Fragments : Gone(g) => Gone(g)' /\ (place'[g] = "raw" => place[g] = "raw")
    BY <1>3 DEF Gone
  <1> QED  BY <1>1, <1>2, <1>3, <1>4, OthersKeep

LEMMA CaptureRecordKeeps == ASSUME CaptureInv, CaptureRecord PROVE CaptureInv'
  <1>1. CaptureTypes
    BY DEF CaptureInv
  <1>2. cap_job.fragment \in Fragments /\ registry' = [registry EXCEPT ![AsFile(cap_job.fragment)] = "captured"]
    BY <1>1 DEF CaptureTypes, CaptureRecord
  <1>3. registry' \in [Artifacts -> ArtifactStates]
    BY <1>1, <1>2 DEF CaptureTypes, ArtifactStates
  <1>4. CaptureTypes'
    BY <1>1, <1>3 DEF CaptureTypes, CaptureRecord, disk_vars
  <1>5. hq_job' = hq_job /\ bundles' = bundles /\ incoming' = incoming /\ promo_log' = promo_log
        /\ routing_log' = routing_log /\ decisions' = decisions /\ write_faults' = write_faults
        /\ gate_events' = gate_events /\ place' = place
    BY DEF CaptureRecord, disk_vars, log_vars
  <1>6. \A g \in Fragments : Gone(g) => Gone(g)' /\ (place'[g] = "raw" => place[g] = "raw")
    BY <1>5 DEF Gone
  <1>7. \A b \in BundleIds : registry'[b] = registry[b]
    BY <1>1, <1>2, BundlesAreNoFiles DEF CaptureTypes
  <1> QED  BY <1>4, <1>5, <1>6, <1>7, OthersKeep

LEMMA CaptureStopsKeeps == ASSUME CaptureInv, CaptureStops PROVE CaptureInv'
  <1>1. write_faults \in Nat /\ write_faults' = write_faults + 1
    BY DEF CaptureInv, CaptureTypes, CaptureStops
  <1>2. write_faults' \in Nat /\ write_faults' # 0
    BY <1>1
  <1>3. CaptureTypes'
    BY <1>2 DEF CaptureInv, CaptureTypes, CaptureStops, disk_vars
  <1>4. hq_job' = hq_job /\ bundles' = bundles /\ incoming' = incoming /\ promo_log' = promo_log
        /\ routing_log' = routing_log /\ decisions' = decisions
        /\ gate_events' = gate_events /\ place' = place /\ registry' = registry
    BY DEF CaptureStops, disk_vars, log_vars
  <1>5. \A g \in Fragments : Gone(g) => Gone(g)' /\ (place'[g] = "raw" => place[g] = "raw")
    BY <1>4 DEF Gone
  <1> QED  BY <1>2, <1>3, <1>4, <1>5, OthersKeep

LEMMA DecayKeeps == ASSUME CaptureInv, NEW f \in Fragments, Decay(f) PROVE CaptureInv'
  <1>1. CaptureTypes
    BY DEF CaptureInv
  <1>2. PICK stage \in {"expired_stage1", "expired_stage2"} : place' = [place EXCEPT ![f] = stage]
    BY DEF Decay
  <1>3. place' \in [Fragments -> Places]
    BY <1>1, <1>2 DEF CaptureTypes, Places
  <1>4. CaptureTypes'
    BY <1>1, <1>3 DEF CaptureTypes, Decay
  <1>5. \A g \in Fragments : place'[g] = IF g = f THEN stage ELSE place[g]
    BY <1>1, <1>2 DEF CaptureTypes
  <1>6. \A g \in Fragments : Gone(g) => Gone(g)' /\ (place'[g] = "raw" => place[g] = "raw")
    BY <1>5 DEF Gone
  <1> QED  BY <1>4, <1>5, <1>6, OthersKeep DEF Decay, log_vars

LEMMA NextDayKeeps == ASSUME CaptureInv, NextDay PROVE CaptureInv'
  <1>1. today \in Days /\ today < LastDay /\ today' = today + 1
    BY DEF CaptureInv, CaptureTypes, NextDay
  <1>2. today' \in Days
    BY <1>1, DayAssumption DEF Days
  <1>3. CaptureTypes'
    BY <1>2 DEF CaptureInv, CaptureTypes, NextDay, disk_vars
  <1>4. hq_job' = hq_job /\ bundles' = bundles /\ incoming' = incoming /\ promo_log' = promo_log
        /\ routing_log' = routing_log /\ decisions' = decisions /\ write_faults' = write_faults
        /\ gate_events' = gate_events /\ place' = place /\ registry' = registry
    BY DEF NextDay, disk_vars, log_vars
  <1>5. \A g \in Fragments : Gone(g) => Gone(g)' /\ (place'[g] = "raw" => place[g] = "raw")
    BY <1>4 DEF Gone
  <1> QED  BY <1>3, <1>4, <1>5, OthersKeep

----------------------------------------------------------------------------
(* The steps of a command.  Several read: what the invariant says of its    *)
(* job.                                                                     *)
LEMMA HqJobFacts ==
    ASSUME CaptureInv
    PROVE  /\ hq_job \in HqJobs /\ write_faults \in Nat /\ registry \in [Artifacts -> ArtifactStates]
           /\ bundles \subseteq BundleIds
           /\ hq_job.todo \subseteq SUBSET Fragments /\ hq_job.pc \in HqSteps
           /\ hq_job.bundle \in BundleIds \cup {NoBundle}
           /\ hq_job.validation.current \in ArtifactStates
  BY DEF CaptureInv, CaptureTypes, HqJobs

LEMMA PromoteStartKeeps == ASSUME CaptureInv, PromoteStart PROVE CaptureInv'
  <1>1. PICK clusters : clusters = Clusters
    OBVIOUS
  <1>2. clusters \subseteq SUBSET Fragments /\ \A c \in clusters : c # {} /\ \A f \in c : place[f] = "raw"
    <2>1. ASSUME NEW c \in clusters PROVE c \subseteq Fragments /\ c # {} /\ \A f \in c : place[f] = "raw"
      <3>1. PICK t \in {TopicOf[f] : f \in Fragments} : c = {f \in In("raw") : TopicOf[f] = t}
        BY <1>1, <2>1 DEF Clusters
      <3>2. c \subseteq In("raw") /\ In("raw") \subseteq Fragments
        BY <3>1 DEF In
      <3>3. c # {}
        <4>1. Cardinality(c) >= MinCluster
          BY <1>1, <2>1 DEF Clusters
        <4> QED  BY <4>1, ClusterAssumption, FS_EmptySet
      <3> QED  BY <3>2, <3>3 DEF In
    <2> QED  BY <2>1
  <1>3. PICK first : first = [NoHqJob EXCEPT !.pc = "next"]
    OBVIOUS
  <1>4. first \in HqJobs /\ first.pc = "next" /\ first.bundle = NoBundle /\ first.validation = NoValidation
    BY <1>3, NoHqJobTyped, AtStep DEF HqSteps
  <1>5. PICK second : second = [first EXCEPT !.todo = clusters]
    OBVIOUS
  <1>6. /\ second \in HqJobs /\ second.pc = "next" /\ second.bundle = NoBundle /\ second.validation = NoValidation
        /\ second.todo = clusters
    BY <1>2, <1>4, <1>5 DEF HqJobs
  <1>7. hq_job' = [second EXCEPT !.promoting = TRUE]
    BY <1>1, <1>3, <1>5 DEF PromoteStart
  <1>8. /\ hq_job' \in HqJobs /\ hq_job'.pc = "next" /\ hq_job'.bundle = NoBundle /\ hq_job'.todo = clusters
    BY <1>6, <1>7 DEF HqJobs
  <1>9. UNCHANGED <<today, captured_on, place, bundles, incoming, registry, gate_events, decisions, promo_log,
                    routing_log, cap_job, write_faults>> /\ hq_job.pc = "idle"
    BY DEF PromoteStart, disk_vars, log_vars
  <1>10. CaptureTypes' /\ ArchivedIsBundled' /\ (\A d \in decisions : DecisionTrue(d))'
    BY <1>8, <1>9, HqJobFacts, HqKeeps
  <1>11. StoresAgree'
    BY <1>9 DEF CaptureInv, StoresAgree, OkLogged
  <1>12. MembersWereCaptured'
    BY <1>2, <1>8, <1>9, BundlesAreNoFiles DEF CaptureInv, MembersWereCaptured, Gone
  <1>13. HqSound'
    BY <1>8 DEF HqSound
  <1> QED  BY <1>10, <1>11, <1>12, <1>13 DEF CaptureInv

LEMMA NextClusterKeeps == ASSUME CaptureInv, NEW force \in BOOLEAN, NextCluster(force) PROVE CaptureInv'
  <1>1. PICK c : c = FirstCluster
    OBVIOUS
  <1>2. c \in hq_job.todo /\ c \subseteq Fragments /\ c # {} /\ \A f \in c : Gone(f)
    <2>1. hq_job.todo # {} /\ \A d \in hq_job.todo : d \subseteq Fragments /\ d # {}
      BY HqJobFacts DEF NextCluster, CaptureInv, MembersWereCaptured
    <2>2. FirstCluster \in hq_job.todo
      BY <2>1, FirstClusterIsOne
    <2> QED  BY <1>1, <2>1, <2>2 DEF CaptureInv, MembersWereCaptured
  <1>3. PICK b : b = [day |-> today, members |-> c]
    OBVIOUS
  <1>4. b \in BundleIds /\ b.members = c
    BY <1>2, <1>3 DEF BundleIds, CaptureInv, CaptureTypes
  <1>5. registry[b] \in ArtifactStates /\ registry[b] # "captured"
    BY <1>4, BundlesAreNoFiles, HqJobFacts DEF CaptureInv, StoresAgree
  <1>6. PICK reasons : reasons = rejections(registry[b], "promoted", "volatile_capture", PromotionContext, installed)
    OBVIOUS
  <1>7. reasons \in SUBSET DenialReasons /\ (reasons = {} => registry[b] = Missing)
    BY <1>5, <1>6, ReasonsAreKnown, PromotionsLeaveMissing
  <1>8. UNCHANGED <<today, captured_on, place, bundles, incoming, registry, decisions, promo_log,
                    routing_log, cap_job, write_faults>> /\ hq_job.pc = "next" /\ hq_job.bundle = NoBundle
        /\ hq_job \in HqJobs /\ write_faults \in Nat /\ bundles \subseteq BundleIds
    BY HqJobFacts DEF NextCluster, disk_vars, CaptureInv, HqSound
  <1>9. PICK job \in HqJobs : job = hq_job
    BY <1>8
  <1>10. PICK todo : todo = hq_job.todo \ {c}
    OBVIOUS
  <1>11. PICK rest : rest = [job EXCEPT !.todo = todo]
    OBVIOUS
  <1>12. /\ rest \in HqJobs /\ rest.pc = "next" /\ rest.bundle = NoBundle /\ rest.todo = todo
         /\ rest.promoting = job.promoting
    BY <1>8, <1>9, <1>10, <1>11 DEF HqJobs
  <1>13. \A d \in todo : d # {} /\ \A f \in d : Gone(f)
    BY <1>10 DEF CaptureInv, MembersWereCaptured
  <1>14. CASE hq_job' = rest /\ gate_events' = gate_events
    <2>1. CaptureTypes' /\ ArchivedIsBundled' /\ (\A d \in decisions : DecisionTrue(d))'
      BY <1>8, <1>12, <1>14, HqKeeps
    <2>2. StoresAgree'
      BY <1>8, <1>14 DEF CaptureInv, StoresAgree, OkLogged
    <2>3. MembersWereCaptured'
      BY <1>8, <1>12, <1>13, <1>14 DEF CaptureInv, MembersWereCaptured, Gone
    <2>4. HqSound'
      BY <1>12, <1>14 DEF HqSound
    <2> QED  BY <2>1, <2>2, <2>3, <2>4 DEF CaptureInv
  <1>15. CASE reasons # {} /\ Gated(b, "promoted", reasons)
              /\ hq_job' = [NoHqJob EXCEPT !.bundle = b, !.pc = "refused",
                                           !.validation = [current |-> registry[b], reasons |-> reasons]]
    <2>1. PICK v : v = [current |-> registry[b], reasons |-> reasons]
      OBVIOUS
    <2>2. PICK first : first = [NoHqJob EXCEPT !.bundle = b]
      OBVIOUS
    <2>3. first \in HqJobs /\ first.bundle = b /\ first.todo = {}
      BY <1>4, <2>2, NoHqJobTyped DEF HqJobs
    <2>4. PICK second : second = [first EXCEPT !.pc = "refused"]
      OBVIOUS
    <2>5. second \in HqJobs /\ second.bundle = b /\ second.todo = {} /\ second.pc = "refused"
      BY <2>3, <2>4, AtStep DEF HqSteps
    <2>6. hq_job' = [second EXCEPT !.validation = v]
      BY <1>15, <2>1, <2>2, <2>4
    <2>7. v \in [current : ArtifactStates, reasons : SUBSET DenialReasons] /\ v.current = registry[b] /\ v.reasons = reasons
      BY <1>5, <1>7, <2>1
    <2>8. /\ hq_job' \in HqJobs /\ hq_job'.bundle = b /\ hq_job'.todo = {} /\ hq_job'.pc = "refused" /\ hq_job'.validation = v
      BY <2>5, <2>6, <2>7 DEF HqJobs
    <2>9. gate_events' = gate_events \cup {Refused(b, v)}
      BY <1>15, <2>7 DEF Gated, Refused
    <2>10. CaptureTypes' /\ ArchivedIsBundled' /\ (\A d \in decisions : DecisionTrue(d))'
      BY <1>8, <2>8, <2>9, HqKeeps
    <2>11. StoresAgree'
      BY <1>8, <2>9 DEF CaptureInv, StoresAgree, OkLogged
    <2>12. MembersWereCaptured'
      BY <1>2, <1>4, <1>8, <2>8 DEF CaptureInv, MembersWereCaptured, Gone
    <2>13. HqSound'
      BY <1>4, <1>15, <2>7, <2>8, <2>9 DEF HqSound
    <2> QED  BY <2>10, <2>11, <2>12, <2>13 DEF CaptureInv
  <1>16. CASE reasons = {} /\ gate_events' = gate_events
              /\ hq_job' = [job EXCEPT !.todo = todo, !.bundle = b, !.pc = "write",
                                       !.validation = [current |-> registry[b], reasons |-> {}]]
    <2>1. PICK v : v = [current |-> registry[b], reasons |-> {}]
      OBVIOUS
    <2>2. PICK second : second = [rest EXCEPT !.bundle = b]
      OBVIOUS
    <2>3. second \in HqJobs /\ second.bundle = b /\ second.todo = todo
      BY <1>4, <1>12, <2>2 DEF HqJobs
    <2>4. PICK third : third = [second EXCEPT !.pc = "write"]
      OBVIOUS
    <2>5. third \in HqJobs /\ third.bundle = b /\ third.todo = todo /\ third.pc = "write"
      BY <2>3, <2>4, AtStep DEF HqSteps
    <2>6. hq_job' = [third EXCEPT !.validation = v]
      BY <1>11, <1>16, <2>1, <2>2, <2>4
    <2>7. v \in [current : ArtifactStates, reasons : SUBSET DenialReasons] /\ v.current = registry[b] /\ v.reasons = {}
      BY <1>5, <2>1
    <2>8. /\ hq_job' \in HqJobs /\ hq_job'.bundle = b /\ hq_job'.todo = todo /\ hq_job'.pc = "write" /\ hq_job'.validation = v
      BY <2>5, <2>6, <2>7 DEF HqJobs
    <2>9. registry[b] = Missing
      BY <1>7, <1>16
    <2>10. CaptureTypes' /\ ArchivedIsBundled' /\ (\A d \in decisions : DecisionTrue(d))'
      BY <1>8, <1>16, <2>8, HqKeeps
    <2>11. StoresAgree'
      BY <1>8, <1>16 DEF CaptureInv, StoresAgree, OkLogged
    <2>12. MembersWereCaptured'
      BY <1>2, <1>4, <1>8, <1>13, <2>8 DEF CaptureInv, MembersWereCaptured, Gone
    <2>13. HqSound'
      BY <1>4, <1>8, <2>7, <2>8, <2>9 DEF HqSound
    <2> QED  BY <2>10, <2>11, <2>12, <2>13 DEF CaptureInv
  <1> QED  BY <1>1, <1>3, <1>6, <1>9, <1>10, <1>11, <1>14, <1>15, <1>16 DEF NextCluster

LEMMA CommandEndKeeps ==
    ASSUME CaptureInv, hq_job' = NoHqJob,
           UNCHANGED <<today, captured_on, place, bundles, incoming, registry, gate_events, decisions, promo_log,
                       routing_log, cap_job>>,
           write_faults' \in Nat,
           write_faults' = 0 => write_faults = 0 /\ hq_job.pc \notin {"routed", "log"}
    PROVE  CaptureInv'
  <1>1. hq_job' \in HqJobs /\ hq_job'.pc = "idle" /\ hq_job'.todo = {} /\ hq_job'.bundle = NoBundle
    BY NoHqJobTyped
  <1>2. CaptureTypes' /\ ArchivedIsBundled' /\ (\A d \in decisions : DecisionTrue(d))'
    BY <1>1, HqJobFacts, HqKeeps
  <1>3. StoresAgree'
    BY DEF CaptureInv, StoresAgree, OkLogged
  <1>4. MembersWereCaptured'
    BY <1>1, BundlesAreNoFiles DEF CaptureInv, MembersWereCaptured, Gone
  <1>5. HqSound'
    BY <1>1 DEF HqSound
  <1> QED  BY <1>2, <1>3, <1>4, <1>5 DEF CaptureInv

LEMMA PromoteDoneKeeps == ASSUME CaptureInv, PromoteDone PROVE CaptureInv'
  BY HqJobFacts, CommandEndKeeps DEF PromoteDone, disk_vars, log_vars

LEMMA HqStopsKeeps == ASSUME CaptureInv, HqStops PROVE CaptureInv'
  <1>1. write_faults \in Nat /\ write_faults' = write_faults + 1
    BY HqJobFacts DEF HqStops
  <1>2. write_faults' \in Nat /\ write_faults' # 0
    BY <1>1
  <1> QED  BY <1>2, CommandEndKeeps DEF HqStops, disk_vars, log_vars

LEMMA WriteBundleKeeps == ASSUME CaptureInv, WriteBundle PROVE CaptureInv'
  <1>1. hq_job \in HqJobs /\ hq_job.pc = "write" /\ hq_job' = [hq_job EXCEPT !.pc = "event"]
        /\ hq_job.bundle \in BundleIds /\ bundles' = bundles \cup {hq_job.bundle}
    BY HqJobFacts DEF WriteBundle, CaptureInv, HqSound
  <1>2. PICK job \in HqJobs : job = hq_job
    BY <1>1
  <1>3. /\ hq_job' \in HqJobs /\ hq_job'.pc = "event" /\ hq_job'.todo = job.todo /\ hq_job'.bundle = job.bundle
        /\ hq_job'.validation = job.validation
    BY <1>1, <1>2, AtStep DEF HqSteps
  <1>4. UNCHANGED <<today, captured_on, place, incoming, registry, gate_events, decisions, promo_log, routing_log, cap_job,
                    write_faults>>
    BY DEF WriteBundle, log_vars
  <1>5. CaptureTypes' /\ ArchivedIsBundled' /\ (\A d \in decisions : DecisionTrue(d))'
    BY <1>1, <1>3, <1>4, HqJobFacts, HqKeeps
  <1>6. StoresAgree'
    BY <1>1, <1>4 DEF CaptureInv, StoresAgree, OkLogged
  <1>7. MembersWereCaptured'
    BY <1>1, <1>2, <1>3, <1>4 DEF CaptureInv, MembersWereCaptured, Gone
  <1>8. HqSound'
    BY <1>1, <1>2, <1>3, <1>4 DEF CaptureInv, HqSound
  <1> QED  BY <1>5, <1>6, <1>7, <1>8 DEF CaptureInv

LEMMA PromoteEventKeeps == ASSUME CaptureInv, PromoteEvent PROVE CaptureInv'
  <1>1. hq_job \in HqJobs /\ hq_job.pc = "event" /\ hq_job' = [hq_job EXCEPT !.pc = "record"]
        /\ hq_job.bundle \in BundleIds /\ registry[hq_job.bundle] = Missing
    BY HqJobFacts DEF PromoteEvent, CaptureInv, HqSound
  <1>2. PICK job \in HqJobs : job = hq_job
    BY <1>1
  <1>3. /\ hq_job' \in HqJobs /\ hq_job'.pc = "record" /\ hq_job'.todo = job.todo /\ hq_job'.bundle = job.bundle
        /\ hq_job'.validation = job.validation
    BY <1>1, <1>2, AtStep DEF HqSteps
  <1>4. UNCHANGED <<today, captured_on, place, bundles, incoming, registry, decisions, promo_log, routing_log, cap_job,
                    write_faults>> /\ gate_events' = gate_events \cup {Promoted(job.bundle)}
    BY <1>1, <1>2 DEF PromoteEvent, disk_vars, Gated, Promoted
  <1>5. CaptureTypes' /\ ArchivedIsBundled' /\ (\A d \in decisions : DecisionTrue(d))'
    BY <1>1, <1>3, <1>4, HqJobFacts, HqKeeps
  <1>6. StoresAgree'
    BY <1>1, <1>4 DEF CaptureInv, StoresAgree, OkLogged
  <1>7. MembersWereCaptured'
    BY <1>1, <1>2, <1>3, <1>4 DEF CaptureInv, MembersWereCaptured, Gone
  <1>8. HqSound'
    BY <1>1, <1>2, <1>3, <1>4 DEF CaptureInv, HqSound
  <1> QED  BY <1>5, <1>6, <1>7, <1>8 DEF CaptureInv

LEMMA PromoteRecordKeeps == ASSUME CaptureInv, PromoteRecord PROVE CaptureInv'
  <1>1. hq_job \in HqJobs /\ hq_job.pc = "record" /\ hq_job' = [hq_job EXCEPT !.pc = "route"]
        /\ hq_job.bundle \in BundleIds /\ registry[hq_job.bundle] = Missing
        /\ registry' = [registry EXCEPT ![hq_job.bundle] = "promoted"]
        /\ hq_job.bundle \in bundles /\ Promoted(hq_job.bundle) \in gate_events
    BY HqJobFacts DEF PromoteRecord, CaptureInv, HqSound
  <1>2. PICK job \in HqJobs : job = hq_job
    BY <1>1
  <1>3. /\ hq_job' \in HqJobs /\ hq_job'.pc = "route" /\ hq_job'.todo = job.todo /\ hq_job'.bundle = job.bundle
        /\ hq_job'.validation = job.validation
    BY <1>1, <1>2, AtStep DEF HqSteps
  <1>4. UNCHANGED <<today, captured_on, place, bundles, incoming, gate_events, decisions, promo_log, routing_log, cap_job,
                    write_faults>>
    BY DEF PromoteRecord, disk_vars, log_vars
  <1>5. \A b \in BundleIds : registry'[b] = IF b = job.bundle THEN "promoted" ELSE registry[b]
    BY <1>1, <1>2, BundlesAreNoFiles, HqJobFacts
  <1>6. CaptureTypes' /\ ArchivedIsBundled' /\ (\A d \in decisions : DecisionTrue(d))'
    BY <1>1, <1>3, <1>4, HqJobFacts, HqKeeps
  <1>7. StoresAgree'
    <2>1. \A b \in BundleIds : registry'[b] # "captured"
      BY <1>5 DEF CaptureInv, StoresAgree
    <2>2. \A b \in BundleIds : registry'[b] \in {"promoted", "routed"} => b \in bundles' /\ Promoted(b) \in gate_events'
      BY <1>1, <1>2, <1>4, <1>5 DEF CaptureInv, StoresAgree
    <2>3. \A b \in BundleIds : registry'[b] = "routed" => CopyOf(b) \in incoming' /\ Routed(b) \in gate_events'
      BY <1>4, <1>5 DEF CaptureInv, StoresAgree
    <2>4. Missing # "routed"
      BY DEF Missing
    <2> QED  BY <1>1, <1>2, <1>4, <1>5, <2>1, <2>2, <2>3, <2>4 DEF CaptureInv, StoresAgree, OkLogged
  <1>8. MembersWereCaptured'
    BY <1>1, <1>2, <1>3, <1>4 DEF CaptureInv, MembersWereCaptured, Gone
  <1>9. HqSound'
    BY <1>1, <1>2, <1>3, <1>4, <1>5 DEF CaptureInv, HqSound
  <1> QED  BY <1>6, <1>7, <1>8, <1>9 DEF CaptureInv

LEMMA RouteCommandKeeps == ASSUME CaptureInv, NEW b \in BundleIds, RouteCommand(b) PROVE CaptureInv'
  <1>1. PICK first : first = [NoHqJob EXCEPT !.pc = "route"]
    OBVIOUS
  <1>2. first \in HqJobs /\ first.pc = "route" /\ first.promoting = FALSE /\ first.todo = {}
    BY <1>1, NoHqJobTyped, AtStep DEF HqSteps
  <1>3. hq_job' = [first EXCEPT !.bundle = b]
    BY <1>1 DEF RouteCommand
  <1>4. /\ hq_job' \in HqJobs /\ hq_job'.pc = "route" /\ hq_job'.bundle = b /\ hq_job'.todo = {}
        /\ hq_job'.promoting = FALSE
    BY <1>2, <1>3 DEF HqJobs
  <1>5. UNCHANGED <<today, captured_on, place, bundles, incoming, registry, gate_events, decisions, promo_log,
                    routing_log, cap_job, write_faults>> /\ hq_job.pc = "idle" /\ b \in bundles
    BY DEF RouteCommand, disk_vars, log_vars
  <1>6. CaptureTypes' /\ ArchivedIsBundled' /\ (\A d \in decisions : DecisionTrue(d))'
    BY <1>4, <1>5, HqJobFacts, HqKeeps
  <1>7. StoresAgree'
    BY <1>5 DEF CaptureInv, StoresAgree, OkLogged
  <1>8. MembersWereCaptured'
    BY <1>4, <1>5 DEF CaptureInv, MembersWereCaptured, Gone
  <1>9. HqSound'
    BY <1>4, <1>5 DEF HqSound
  <1> QED  BY <1>6, <1>7, <1>8, <1>9 DEF CaptureInv

(* The end of a routing: the command's, or the promotion goes on.           *)
LEMMA AfterRouteKeeps ==
    ASSUME CaptureInv, hq_job.pc \in {"route", "unlink", "log"},
           NEW spine \in {NoLane, Spine(hq_job.bundle)}, AfterRoute(spine),
           UNCHANGED <<today, captured_on, place, bundles, registry, gate_events, decisions, promo_log, cap_job>>,
           write_faults' \in Nat, StoresAgree'
    PROVE  CaptureInv'
  <1>1. hq_job.bundle \in BundleIds
    BY DEF CaptureInv, HqSound
  <1>2. spine \in Spines \cup {NoLane}
    BY <1>1, SpineIsOne
  <1>3. PICK job \in HqJobs : job = hq_job
    BY HqJobFacts
  <1>4. /\ hq_job' \in HqJobs
        /\ ~job.promoting => hq_job' = NoHqJob
        /\ job.promoting => /\ hq_job'.pc = "archive" /\ hq_job'.spine = spine /\ hq_job'.todo = job.todo
                            /\ hq_job'.bundle = job.bundle /\ hq_job'.validation = job.validation
    BY <1>2, <1>3, AfterRouteCases
  <1>5. CaptureTypes' /\ ArchivedIsBundled' /\ (\A d \in decisions : DecisionTrue(d))'
    BY <1>4, HqJobFacts, HqKeeps
  <1>6. MembersWereCaptured'
    BY <1>3, <1>4, NoHqJobTyped, BundlesAreNoFiles DEF CaptureInv, MembersWereCaptured, Gone
  <1>7. HqSound'
    <2>1. CASE ~job.promoting
      BY <1>4, <2>1, NoHqJobTyped DEF HqSound
    <2>2. CASE job.promoting
      <3>1. /\ job.validation.current = Missing /\ job.validation.reasons = {}
            /\ registry[job.bundle] \in {"promoted", "routed"}
        BY <1>3, <2>2 DEF CaptureInv, HqSound
      <3>2. job.bundle \in bundles
        BY <1>1, <1>3, <3>1 DEF CaptureInv, StoresAgree
      <3> QED  BY <1>1, <1>3, <1>4, <2>2, <3>1, <3>2 DEF HqSound
    <2> QED  BY <2>1, <2>2
  <1> QED  BY <1>5, <1>6, <1>7 DEF CaptureInv

LEMMA RouteBlockedKeeps == ASSUME CaptureInv, RouteBlocked PROVE CaptureInv'
  <1>1. hq_job.pc = "route" /\ AfterRoute(NoLane) /\ hq_job.bundle \in BundleIds
    BY DEF RouteBlocked, CaptureInv, HqSound
  <1>2. UNCHANGED <<today, captured_on, place, bundles, incoming, registry, gate_events, decisions, promo_log, cap_job,
                    write_faults>>
    BY DEF RouteBlocked, disk_vars
  <1>3. PICK line : line = [bundle |-> hq_job.bundle, spine |-> Spine(hq_job.bundle), ok |-> FALSE]
    OBVIOUS
  <1>4. routing_log' = routing_log \cup {line}
    BY <1>3 DEF RouteBlocked
  <1>5. StoresAgree'
    <2>1. \A r \in routing_log' : /\ r.bundle \in BundleIds /\ r.spine = Spine(r.bundle)
                                  /\ (r.ok => registry[r.bundle] = "routed")
      BY <1>1, <1>3, <1>4 DEF CaptureInv, StoresAgree
    <2>2. \A b : OkLogged(b) => OkLogged(b)'
      BY <1>4 DEF OkLogged
    <2>3. write_faults = 0 => \A c \in incoming : OkLogged(c.bundle)'
      BY <1>1, <2>2 DEF CaptureInv, StoresAgree
    <2> QED  BY <1>2, <2>1, <2>3 DEF CaptureInv, StoresAgree, OkLogged
  <1> QED  BY <1>1, <1>2, <1>5, HqJobFacts, AfterRouteKeeps

LEMMA RouteGateKeeps == ASSUME CaptureInv, RouteGate PROVE CaptureInv'
  <1>1. PICK job \in HqJobs : job = hq_job
    BY HqJobFacts
  <1>2. job.pc = "route" /\ job.bundle \in BundleIds /\ registry[job.bundle] = "promoted"
    BY <1>1 DEF RouteGate, routing_blocked, CaptureInv, HqSound
  <1>3. PICK reasons : reasons = rejections(registry[job.bundle], "routed", Spine(job.bundle), RoutingContext, installed)
    OBVIOUS
  <1>4. PICK step \in HqSteps : step = IF reasons = {} THEN "copy" ELSE "unlink"
    BY DEF HqSteps
  <1>5. hq_job' = [job EXCEPT !.pc = step] /\ Gated(job.bundle, "routed", reasons)
    BY <1>1, <1>3, <1>4 DEF RouteGate
  <1>6. /\ hq_job' \in HqJobs /\ hq_job'.pc = step /\ hq_job'.todo = job.todo /\ hq_job'.bundle = job.bundle
        /\ hq_job'.validation = job.validation /\ hq_job'.promoting = job.promoting
    BY <1>5, AtStep
  <1>7. UNCHANGED <<today, captured_on, place, bundles, incoming, registry, decisions, promo_log, routing_log, cap_job,
                    write_faults>>
    BY DEF RouteGate, disk_vars
  <1>8. gate_events \subseteq gate_events' /\ (reasons = {} => Routed(job.bundle) \in gate_events')
    BY <1>2, <1>5 DEF Gated, Routed
  <1>9. CaptureTypes' /\ ArchivedIsBundled' /\ (\A d \in decisions : DecisionTrue(d))'
    BY <1>6, <1>7, <1>8, HqJobFacts, HqKeeps
  <1>10. StoresAgree'
    BY <1>1, <1>2, <1>7, <1>8 DEF CaptureInv, StoresAgree, OkLogged
  <1>11. MembersWereCaptured'
    BY <1>1, <1>6, <1>7 DEF CaptureInv, MembersWereCaptured, Gone
  <1>12. HqSound'
    <2>1. step = "copy" \/ step = "unlink"
      BY <1>4
    <2>2. step = "copy" => Routed(job.bundle) \in gate_events'
      BY <1>4, <1>8
    <2>3. job.promoting => /\ job.validation.current = Missing /\ job.validation.reasons = {}
                           /\ registry[job.bundle] \in {"promoted", "routed"}
      BY <1>1, <1>2 DEF CaptureInv, HqSound
    <2> QED  BY <1>2, <1>6, <1>7, <2>1, <2>2, <2>3 DEF HqSound
  <1> QED  BY <1>9, <1>10, <1>11, <1>12 DEF CaptureInv

LEMMA CopyThenRecordKeeps == ASSUME CaptureInv, CopyThenRecord PROVE CaptureInv'
  <1>1. PICK job \in HqJobs : job = hq_job
    BY HqJobFacts
  <1>2. /\ job.pc \in {"copy", "routed"} /\ job.bundle \in BundleIds /\ registry[job.bundle] = "promoted"
        /\ Routed(job.bundle) \in gate_events
        /\ job.promoting => job.validation.current = Missing /\ job.validation.reasons = {}
    BY <1>1 DEF CopyThenRecord, CaptureInv, HqSound
  <1>3. job.bundle \in bundles /\ Promoted(job.bundle) \in gate_events
    BY <1>2 DEF CaptureInv, StoresAgree
  <1>4. UNCHANGED <<today, captured_on, place, bundles, gate_events, decisions, promo_log, routing_log, cap_job,
                    write_faults>>
    BY DEF CopyThenRecord, log_vars
  <1>5. CASE job.pc = "copy"
    <2>1. /\ incoming' = incoming \cup {CopyOf(job.bundle)} /\ registry' = registry
          /\ hq_job' = [job EXCEPT !.pc = "routed"]
      BY <1>1, <1>5 DEF CopyThenRecord
    <2>2. /\ hq_job' \in HqJobs /\ hq_job'.pc = "routed" /\ hq_job'.todo = job.todo /\ hq_job'.bundle = job.bundle
          /\ hq_job'.validation = job.validation /\ hq_job'.promoting = job.promoting
      BY <2>1, AtStep DEF HqSteps
    <2>3. CaptureTypes' /\ ArchivedIsBundled' /\ (\A d \in decisions : DecisionTrue(d))'
      BY <1>4, <2>1, <2>2, HqJobFacts, HqKeeps
    <2>4. StoresAgree'
      <3>1. \A c \in incoming' : c.bundle \in BundleIds /\ c = CopyOf(c.bundle)
        BY <1>2, <2>1, CopyNamesBundle DEF CaptureInv, StoresAgree
      <3>2. write_faults = 0 => \A c \in incoming' : OkLogged(c.bundle) \/ job.bundle = c.bundle
        BY <1>1, <1>5, <2>1, CopyNamesBundle DEF CaptureInv, StoresAgree
      <3> QED  BY <1>4, <2>1, <2>2, <3>1, <3>2 DEF CaptureInv, StoresAgree, OkLogged
    <2>5. MembersWereCaptured'
      BY <1>1, <1>4, <2>2 DEF CaptureInv, MembersWereCaptured, Gone
    <2>6. HqSound'
      BY <1>2, <1>4, <2>1, <2>2 DEF HqSound
    <2> QED  BY <2>3, <2>4, <2>5, <2>6 DEF CaptureInv
  <1>6. CASE job.pc = "routed"
    <2>1. /\ registry' = [registry EXCEPT ![job.bundle] = "routed"] /\ incoming' = incoming
          /\ hq_job' = [job EXCEPT !.pc = "log"]
      BY <1>1, <1>6 DEF CopyThenRecord
    <2>2. /\ hq_job' \in HqJobs /\ hq_job'.pc = "log" /\ hq_job'.todo = job.todo /\ hq_job'.bundle = job.bundle
          /\ hq_job'.validation = job.validation /\ hq_job'.promoting = job.promoting
      BY <2>1, AtStep DEF HqSteps
    <2>3. \A b \in BundleIds : registry'[b] = IF b = job.bundle THEN "routed" ELSE registry[b]
      BY <2>1, BundlesAreNoFiles, HqJobFacts
    <2>4. CopyOf(job.bundle) \in incoming
      BY <1>1, <1>6 DEF CaptureInv, HqSound
    <2>5. CaptureTypes' /\ ArchivedIsBundled' /\ (\A d \in decisions : DecisionTrue(d))'
      BY <1>1, <1>2, <1>4, <2>1, <2>2, HqJobFacts, HqKeeps
    <2>6. StoresAgree'
      <3>1. \A b \in BundleIds : registry'[b] # "captured"
        BY <2>3 DEF CaptureInv, StoresAgree
      <3>2. \A b \in BundleIds : registry'[b] \in {"promoted", "routed"} => b \in bundles /\ Promoted(b) \in gate_events
        BY <1>3, <2>3 DEF CaptureInv, StoresAgree
      <3>3. \A b \in BundleIds : registry'[b] = "routed" => CopyOf(b) \in incoming /\ Routed(b) \in gate_events
        BY <1>2, <2>3, <2>4 DEF CaptureInv, StoresAgree
      <3>4. \A c \in incoming : c.bundle \in BundleIds /\ c = CopyOf(c.bundle)
        BY DEF CaptureInv, StoresAgree
      <3>5. \A r \in routing_log : /\ r.bundle \in BundleIds /\ r.spine = Spine(r.bundle)
                                   /\ (r.ok => registry'[r.bundle] = "routed")
        BY <2>3 DEF CaptureInv, StoresAgree
      <3>6. \A e \in promo_log : /\ e.bundle \in BundleIds /\ registry'[e.bundle] \in {"promoted", "routed"}
                                 /\ e.routed_spine \in {NoLane, Spine(e.bundle)}
        BY <2>3 DEF CaptureInv, StoresAgree
      <3>7. write_faults = 0 => \A c \in incoming : OkLogged(c.bundle) \/ job.bundle = c.bundle
        BY <1>1 DEF CaptureInv, StoresAgree
      <3> QED  BY <1>4, <2>1, <2>2, <3>1, <3>2, <3>3, <3>4, <3>5, <3>6, <3>7 DEF StoresAgree, OkLogged
    <2>7. MembersWereCaptured'
      BY <1>1, <1>4, <2>2 DEF CaptureInv, MembersWereCaptured, Gone
    <2>8. HqSound'
      BY <1>2, <1>4, <2>2, <2>3 DEF HqSound
    <2> QED  BY <2>5, <2>6, <2>7, <2>8 DEF CaptureInv
  <1> QED  BY <1>2, <1>5, <1>6

(* A copy is removed only while its bundle is not recorded as routed.       *)
LEMMA UnlinkAgrees ==
    ASSUME CaptureInv, hq_job.pc = "unlink", incoming' = incoming \ {CopyOf(hq_job.bundle)},
           UNCHANGED <<bundles, registry, gate_events, promo_log>>,
           \/ routing_log' = routing_log
           \/ routing_log' = routing_log \cup {[bundle |-> hq_job.bundle, spine |-> Spine(hq_job.bundle), ok |-> FALSE]},
           write_faults' = 0 => write_faults = 0
    PROVE  StoresAgree'
  <1>1. hq_job.bundle \in BundleIds /\ registry[hq_job.bundle] = "promoted"
    BY DEF CaptureInv, HqSound
  <1>2. \A b \in BundleIds : registry[b] = "routed" => CopyOf(b) # CopyOf(hq_job.bundle)
    BY <1>1, CopyNamesBundle
  <1>3. \A r \in routing_log' : /\ r.bundle \in BundleIds /\ r.spine = Spine(r.bundle)
                                /\ (r.ok => registry[r.bundle] = "routed")
    BY <1>1 DEF CaptureInv, StoresAgree
  <1>4. \A b : OkLogged(b) => OkLogged(b)'
    BY DEF OkLogged
  <1>5. write_faults' = 0 => \A c \in incoming' : OkLogged(c.bundle)'
    BY <1>4 DEF CaptureInv, StoresAgree
  <1> QED  BY <1>2, <1>3, <1>5 DEF CaptureInv, StoresAgree

LEMMA RouteUnlinkKeeps == ASSUME CaptureInv, RouteUnlink PROVE CaptureInv'
  <1>1. /\ hq_job.pc = "unlink" /\ AfterRoute(Spine(hq_job.bundle)) /\ incoming' = incoming \ {CopyOf(hq_job.bundle)}
        /\ routing_log' = routing_log \cup {[bundle |-> hq_job.bundle, spine |-> Spine(hq_job.bundle), ok |-> FALSE]}
        /\ UNCHANGED <<today, captured_on, place, bundles, registry, gate_events, decisions, promo_log, cap_job, write_faults>>
    BY DEF RouteUnlink
  <1>2. StoresAgree'
    BY <1>1, UnlinkAgrees
  <1> QED  BY <1>1, <1>2, HqJobFacts, AfterRouteKeeps

LEMMA RouteLogKeeps == ASSUME CaptureInv, RouteLog PROVE CaptureInv'
  <1>1. PICK line : line = [bundle |-> hq_job.bundle, spine |-> Spine(hq_job.bundle), ok |-> TRUE]
    OBVIOUS
  <1>2. /\ hq_job.pc = "log" /\ AfterRoute(Spine(hq_job.bundle)) /\ routing_log' = routing_log \cup {line}
        /\ UNCHANGED <<today, captured_on, place, bundles, incoming, registry, gate_events, decisions, promo_log, cap_job,
                       write_faults>>
    BY <1>1 DEF RouteLog, disk_vars
  <1>3. hq_job.bundle \in BundleIds /\ registry[hq_job.bundle] = "routed"
    BY <1>2 DEF CaptureInv, HqSound
  <1>4. StoresAgree'
    <2>1. \A r \in routing_log' : /\ r.bundle \in BundleIds /\ r.spine = Spine(r.bundle)
                                  /\ (r.ok => registry[r.bundle] = "routed")
      BY <1>1, <1>2, <1>3 DEF CaptureInv, StoresAgree
    <2>2. PICK own : own = hq_job.bundle
      OBVIOUS
    <2>3. (\A b : OkLogged(b) => OkLogged(b)') /\ OkLogged(own)'
      BY <1>1, <1>2, <2>2 DEF OkLogged
    <2>4. write_faults = 0 => \A c \in incoming : OkLogged(c.bundle)'
      BY <1>2, <2>2, <2>3 DEF CaptureInv, StoresAgree
    <2> QED  BY <1>2, <2>1, <2>4 DEF CaptureInv, StoresAgree
  <1> QED  BY <1>2, <1>4, HqJobFacts, AfterRouteKeeps

LEMMA RouteFaultKeeps == ASSUME CaptureInv, RouteFault PROVE CaptureInv'
  <1>1. write_faults \in Nat /\ write_faults' = write_faults + 1
    BY HqJobFacts DEF RouteFault
  <1>2. write_faults' \in Nat /\ write_faults' # 0
    BY <1>1
  <1>3. UNCHANGED <<today, captured_on, place, bundles, registry, gate_events, decisions, promo_log, routing_log, cap_job>>
    BY DEF RouteFault, log_vars
  <1>4. CASE hq_job.pc \in {"copy", "routed"} /\ hq_job' = [hq_job EXCEPT !.pc = "unlink"] /\ incoming' = incoming
    <2>1. PICK job \in HqJobs : job = hq_job
      BY HqJobFacts
    <2>2. /\ hq_job' \in HqJobs /\ hq_job'.pc = "unlink" /\ hq_job'.todo = job.todo /\ hq_job'.bundle = job.bundle
          /\ hq_job'.validation = job.validation /\ hq_job'.promoting = job.promoting
      BY <1>4, <2>1, AtStep DEF HqSteps
    <2>3. CaptureTypes' /\ ArchivedIsBundled' /\ (\A d \in decisions : DecisionTrue(d))'
      BY <1>2, <1>3, <2>2, HqJobFacts, HqKeeps
    <2>4. StoresAgree'
      BY <1>2, <1>3, <1>4 DEF CaptureInv, StoresAgree
    <2>5. MembersWereCaptured'
      BY <1>3, <2>1, <2>2 DEF CaptureInv, MembersWereCaptured, Gone
    <2>6. /\ job.bundle \in BundleIds /\ registry[job.bundle] = "promoted"
          /\ job.promoting => job.validation.current = Missing /\ job.validation.reasons = {}
      BY <1>4, <2>1 DEF CaptureInv, HqSound
    <2>7. HqSound'
      BY <1>3, <2>2, <2>6 DEF HqSound
    <2> QED  BY <2>3, <2>4, <2>5, <2>7 DEF CaptureInv
  <1>5. CASE hq_job.pc = "unlink" /\ AfterRoute(NoLane) /\ incoming' = incoming \ {CopyOf(hq_job.bundle)}
    <2>1. StoresAgree'
      BY <1>2, <1>3, <1>5, UnlinkAgrees
    <2> QED  BY <1>2, <1>3, <1>5, <2>1, AfterRouteKeeps
  <1>6. CASE hq_job.pc = "log" /\ AfterRoute(NoLane) /\ incoming' = incoming
    <2>1. StoresAgree'
      BY <1>2, <1>3, <1>6 DEF CaptureInv, StoresAgree
    <2> QED  BY <1>2, <1>3, <1>6, <2>1, AfterRouteKeeps
  <1> QED  BY <1>4, <1>5, <1>6 DEF RouteFault

LEMMA ArchiveKeeps == ASSUME CaptureInv, Archive PROVE CaptureInv'
  <1>1. PICK job \in HqJobs : job = hq_job
    BY HqJobFacts
  <1>2. /\ job.bundle \in BundleIds /\ job.bundle \in bundles /\ registry[job.bundle] \in {"promoted", "routed"}
        /\ job.pc = "archive"
    BY <1>1 DEF Archive, CaptureInv, HqSound
  <1>3. PICK f : f = Min(ToArchive)
    OBVIOUS
  <1>4. f \in Fragments /\ f \in job.bundle.members /\ place[f] = "raw"
    <2>1. ToArchive \subseteq Fragments /\ ToArchive # {}
      BY DEF Archive, ToArchive, In
    <2>2. f \in ToArchive
      BY <1>3, <2>1, MinIsMember
    <2> QED  BY <1>1, <2>1, <2>2 DEF ToArchive, In
  <1>5. place \in [Fragments -> Places] /\ place' = [place EXCEPT ![f] = "archive"]
    BY <1>3 DEF Archive, CaptureInv, CaptureTypes
  <1>6. \A g \in Fragments : place'[g] = IF g = f THEN "archive" ELSE place[g]
    BY <1>5
  <1>7. UNCHANGED <<today, captured_on, bundles, incoming, registry, gate_events, decisions, promo_log, routing_log,
                    cap_job, hq_job, write_faults>>
    BY DEF Archive, log_vars
  <1>8. CaptureTypes'
    <2>1. place' \in [Fragments -> Places]
      BY <1>5 DEF Places
    <2> QED  BY <1>7, <2>1 DEF CaptureInv, CaptureTypes
  <1>9. \A g \in Fragments : Gone(g) => Gone(g)' /\ (place'[g] = "raw" => place[g] = "raw")
    BY <1>6 DEF Gone
  <1>10. \A b \in BundleIds \cup {NoBundle} : b.members \subseteq Fragments
    BY BundlesAreNoFiles DEF BundleIds
  <1>11. StoresAgree'
    BY <1>7 DEF CaptureInv, StoresAgree, OkLogged
  <1>12. MembersWereCaptured'
    <2>1. hq_job.todo \subseteq SUBSET Fragments /\ bundles \cup {hq_job.bundle} \subseteq BundleIds \cup {NoBundle}
      BY HqJobFacts
    <2> QED  BY <1>7, <1>9, <1>10, <2>1 DEF CaptureInv, MembersWereCaptured
  <1>13. ArchivedIsBundled'
    <2>1. In("archive")' = In("archive") \cup {f}
      BY <1>4, <1>6 DEF In
    <2> QED  BY <1>2, <1>4, <1>7, <2>1 DEF CaptureInv, ArchivedIsBundled
  <1>14. HqSound'
    BY <1>1, <1>2, <1>7 DEF CaptureInv, HqSound
  <1>15. ASSUME NEW d \in decisions PROVE DecisionTrue(d)'
    <2>1. DecisionTrue(d)
      BY DEF CaptureInv
    <2> QED  BY <1>7, <1>9, <1>10, <2>1 DEF DecisionTrue
  <1> QED  BY <1>7, <1>8, <1>11, <1>12, <1>13, <1>14, <1>15 DEF CaptureInv

LEMMA PromoteLogKeeps == ASSUME CaptureInv, PromoteLog PROVE CaptureInv'
  <1>1. PICK job \in HqJobs : job = hq_job
    BY HqJobFacts
  <1>2. /\ job.pc = "archive" /\ job.bundle \in BundleIds /\ job.bundle \in bundles
        /\ registry[job.bundle] \in {"promoted", "routed"} /\ job.spine \in {NoLane, Spine(job.bundle)}
        /\ job.validation.current = Missing /\ job.validation.reasons = {}
    BY <1>1 DEF PromoteLog, CaptureInv, HqSound
  <1>3. hq_job' = [job EXCEPT !.pc = "decided"]
    BY <1>1 DEF PromoteLog
  <1>4. /\ hq_job' \in HqJobs /\ hq_job'.pc = "decided" /\ hq_job'.todo = job.todo /\ hq_job'.bundle = job.bundle
        /\ hq_job'.spine = job.spine /\ hq_job'.validation = job.validation /\ hq_job'.promoting = job.promoting
    BY <1>3, AtStep DEF HqSteps
  <1>5. PICK line : line = [bundle |-> job.bundle, routed_spine |-> job.spine]
    OBVIOUS
  <1>6. UNCHANGED <<today, captured_on, place, bundles, incoming, registry, gate_events, decisions, routing_log,
                    cap_job, write_faults>> /\ promo_log' = promo_log \cup {line}
    BY <1>1, <1>5 DEF PromoteLog, disk_vars
  <1>7. CaptureTypes' /\ ArchivedIsBundled' /\ (\A d \in decisions : DecisionTrue(d))'
    BY <1>4, <1>6, HqJobFacts, HqKeeps
  <1>8. StoresAgree'
    BY <1>1, <1>2, <1>5, <1>6 DEF CaptureInv, StoresAgree, OkLogged
  <1>9. MembersWereCaptured'
    BY <1>1, <1>4, <1>6 DEF CaptureInv, MembersWereCaptured, Gone
  <1>10. HqSound'
    <2>1. \A f \in job.bundle.members : place[f] # "raw"
      <3>1. job.bundle.members \subseteq Fragments
        BY <1>2 DEF BundleIds
      <3> QED  BY <1>1, <3>1 DEF PromoteLog, ToArchive, In
    <2>2. \E e \in promo_log' : e.bundle = job.bundle
      BY <1>5, <1>6
    <2> QED  BY <1>2, <1>4, <1>6, <2>1, <2>2 DEF HqSound
  <1> QED  BY <1>7, <1>8, <1>9, <1>10 DEF CaptureInv

LEMMA NextPromotionTyped ==
    ASSUME hq_job \in HqJobs
    PROVE  /\ NextPromotion \in HqJobs /\ NextPromotion.pc = "next" /\ NextPromotion.bundle = NoBundle
           /\ NextPromotion.todo = hq_job.todo
  <1>1. PICK job \in HqJobs : job = hq_job
    OBVIOUS
  <1>2. PICK first : first = [job EXCEPT !.pc = "next"]
    OBVIOUS
  <1>3. first \in HqJobs /\ first.pc = "next" /\ first.todo = job.todo
    BY <1>2, AtStep DEF HqSteps
  <1>4. PICK second : second = [first EXCEPT !.bundle = NoBundle]
    OBVIOUS
  <1>5. second \in HqJobs /\ second.pc = "next" /\ second.todo = job.todo /\ second.bundle = NoBundle
    BY <1>3, <1>4 DEF HqJobs
  <1>6. PICK third : third = [second EXCEPT !.spine = NoLane]
    OBVIOUS
  <1>7. third \in HqJobs /\ third.pc = "next" /\ third.todo = job.todo /\ third.bundle = NoBundle
    BY <1>5, <1>6 DEF HqJobs
  <1>8. NextPromotion = [third EXCEPT !.validation = NoValidation]
    BY <1>1, <1>2, <1>4, <1>6 DEF NextPromotion
  <1>9. NoValidation \in [current : ArtifactStates, reasons : SUBSET DenialReasons]
    BY DEF NoValidation, ArtifactStates
  <1> QED  BY <1>1, <1>7, <1>8, <1>9 DEF HqJobs

LEMMA AppendHqDecisionKeeps == ASSUME CaptureInv, AppendHqDecision PROVE CaptureInv'
  <1>1. PICK job \in HqJobs : job = hq_job
    BY HqJobFacts
  <1>2. PICK entry : entry = hq_promotion_entry(job.bundle, job.validation)
    OBVIOUS
  <1>3. UNCHANGED <<today, captured_on, place, bundles, incoming, registry, gate_events, promo_log, routing_log,
                    cap_job, write_faults>> /\ decisions' = decisions \cup {entry}
    BY <1>1, <1>2 DEF AppendHqDecision, disk_vars
  <1>4. job.pc \in {"refused", "decided"} /\ job.bundle \in BundleIds
    BY <1>1 DEF AppendHqDecision, CaptureInv, HqSound
  <1>5. /\ hq_job' \in HqJobs /\ hq_job'.pc \in {"idle", "next"} /\ hq_job'.bundle = NoBundle
        /\ hq_job'.todo \subseteq job.todo
    BY <1>1, NoHqJobTyped, NextPromotionTyped DEF AppendHqDecision
  <1>6. /\ entry.proposal = job.bundle /\ entry.origin = job.validation.current
        /\ entry.decision = hq_promotion_decision(job.validation.reasons)
        /\ entry.gates = hq_gate_results(job.validation.reasons)
        /\ entry.refs = hq_subsystem_refs(job.validation.reasons)
    BY <1>2 DEF hq_promotion_entry
  <1>7. {g.reason_code : g \in {h \in entry.gates : h.status = "FAIL"}} = job.validation.reasons
    <2>1. PICK reasons : reasons = job.validation.reasons
      OBVIOUS
    <2>2. CASE reasons = {}
      <3>1. entry.gates = {[reason_code |-> "transition_allowed", status |-> "PASS"]}
        BY <1>6, <2>1, <2>2 DEF hq_gate_results
      <3>2. {h \in entry.gates : h.status = "FAIL"} = {}
        BY <3>1
      <3> QED  BY <2>1, <2>2, <3>2
    <2>3. CASE reasons # {}
      <3>1. entry.gates = {[reason_code |-> x, status |-> "FAIL"] : x \in reasons}
        BY <1>6, <2>1, <2>3 DEF hq_gate_results
      <3>2. {h \in entry.gates : h.status = "FAIL"} = entry.gates
        BY <3>1
      <3>3. {g.reason_code : g \in entry.gates} = reasons
        <4>1. ASSUME NEW x \in reasons PROVE \E g \in entry.gates : g.reason_code = x
          <5>1. [reason_code |-> x, status |-> "FAIL"] \in entry.gates
            BY <3>1
          <5> QED  BY <5>1
        <4>2. \A g \in entry.gates : g.reason_code \in reasons
          BY <3>1
        <4> QED  BY <4>1, <4>2
      <3> QED  BY <2>1, <3>2, <3>3
    <2> QED  BY <2>2, <2>3
  <1>8. DecisionTrue(entry)
    <2>1. CASE job.pc = "refused"
      <3>1. job.validation.reasons # {} /\ Refused(job.bundle, job.validation) \in gate_events
        BY <1>1, <2>1 DEF CaptureInv, HqSound
      <3>2. entry.decision # "PROMOTE_TO_STATE" /\ entry.refs = {}
        BY <1>6, <3>1 DEF hq_promotion_decision, hq_subsystem_refs
      <3> QED  BY <1>6, <1>7, <3>1, <3>2 DEF DecisionTrue, Refused
    <2>2. CASE job.pc = "decided"
      <3>1. /\ job.validation.current = Missing /\ job.validation.reasons = {}
            /\ registry[job.bundle] \in {"promoted", "routed"}
            /\ \A f \in job.bundle.members : place[f] # "raw"
            /\ \E e \in promo_log : e.bundle = job.bundle
        BY <1>1, <2>2 DEF CaptureInv, HqSound
      <3>2. \A f \in job.bundle.members : Gone(f)
        BY <1>1 DEF CaptureInv, MembersWereCaptured
      <3> QED  BY <1>4, <1>6, <1>7, <3>1, <3>2 DEF DecisionTrue
    <2> QED  BY <1>4, <2>1, <2>2
  <1>9. \A d \in decisions' : DecisionTrue(d)
    BY <1>3, <1>8 DEF CaptureInv
  <1>10. (\A d \in decisions : DecisionTrue(d))'
    BY <1>3, <1>9 DEF DecisionTrue, Gone
  <1>11. CaptureTypes'
    BY <1>3, <1>5 DEF CaptureInv, CaptureTypes
  <1>12. StoresAgree'
    BY <1>1, <1>3, <1>4 DEF CaptureInv, StoresAgree, OkLogged
  <1>13. MembersWereCaptured'
    BY <1>1, <1>3, <1>5, BundlesAreNoFiles DEF CaptureInv, MembersWereCaptured, Gone
  <1>14. ArchivedIsBundled'
    BY <1>3 DEF CaptureInv, ArchivedIsBundled, In
  <1>15. HqSound'
    BY <1>5 DEF HqSound
  <1> QED  BY <1>10, <1>11, <1>12, <1>13, <1>14, <1>15 DEF CaptureInv

LEMMA CaptureStepInv == CaptureInv /\ [CaptureNext]_cap_vars => CaptureInv'
  <1> SUFFICES ASSUME CaptureInv, [CaptureNext]_cap_vars PROVE CaptureInv'
    OBVIOUS
  <1>1. ASSUME NEW f \in Fragments, CaptureWrite(f) \/ Decay(f) PROVE CaptureInv'
    BY <1>1, CaptureWriteKeeps, DecayKeeps
  <1>2. CASE CaptureEvent \/ CaptureRecord \/ CaptureStops
    BY <1>2, CaptureEventKeeps, CaptureRecordKeeps, CaptureStopsKeeps
  <1>3. CASE Promotion
    BY <1>3, PromoteStartKeeps, NextClusterKeeps, PromoteDoneKeeps, WriteBundleKeeps, PromoteEventKeeps,
       PromoteRecordKeeps, ArchiveKeeps, PromoteLogKeeps, AppendHqDecisionKeeps DEF Promotion
  <1>4. CASE Routing
    BY <1>4, RouteBlockedKeeps, RouteGateKeeps, CopyThenRecordKeeps, RouteUnlinkKeeps, RouteLogKeeps,
       RouteFaultKeeps DEF Routing
  <1>5. ASSUME NEW b \in BundleIds, RouteCommand(b) PROVE CaptureInv'
    BY <1>5, RouteCommandKeeps
  <1>6. CASE HqStops \/ NextDay
    BY <1>6, HqStopsKeeps, NextDayKeeps
  <1>7. CASE UNCHANGED cap_vars
    <2>1. UNCHANGED <<today, place, captured_on, bundles, incoming, registry, gate_events, decisions, promo_log,
                      routing_log, cap_job, hq_job, write_faults>>
      BY <1>7 DEF cap_vars
    <2>2. CaptureTypes' /\ HqSound'
      BY <2>1 DEF CaptureInv, CaptureTypes, HqSound
    <2>3. StoresAgree' /\ MembersWereCaptured' /\ ArchivedIsBundled'
      BY <2>1 DEF CaptureInv, StoresAgree, OkLogged, MembersWereCaptured, Gone, ArchivedIsBundled, In
    <2>4. ASSUME NEW d \in decisions PROVE DecisionTrue(d)'
      <3>1. DecisionTrue(d)
        BY DEF CaptureInv
      <3> QED  BY <2>1, <3>1 DEF DecisionTrue, Gone
    <2> QED  BY <2>1, <2>2, <2>3, <2>4 DEF CaptureInv
  <1> QED  BY <1>1, <1>2, <1>3, <1>4, <1>5, <1>6, <1>7 DEF CaptureNext

LEMMA CaptureInvHolds == CaptureSpec => []CaptureInv
  BY CaptureInitInv, CaptureStepInv, PTL DEF CaptureSpec

(* The types of the run.                                                    *)
THEOREM CaptureTypesHold == CaptureSpec => []CaptureTypeOK
  <1>1. CaptureInv => CaptureTypeOK
    <2> SUFFICES ASSUME CaptureInv PROVE CaptureTypeOK
      OBVIOUS
    <2>1. \A c \in incoming : c.bundle \in BundleIds /\ c.spine \in Spines
      BY SpineIsOne, CopyNamesBundle DEF CaptureInv, StoresAgree
    <2> QED  BY <2>1, HqJobFacts DEF CaptureInv, CaptureTypes, CaptureTypeOK, Places, ArtifactStates
  <1> QED  BY <1>1, CaptureInvHolds, PTL

(* What left raw/ for the archive is in a registered bundle, and what the   *)
(* canonical ledger says of a promotion is true of the stores beside it:    *)
(* for any fragments, topics, spines and any number of failing writes.      *)
THEOREM ConsumptionsAreBundled == CaptureSpec => []ConsumedIsBundled
  <1>1. CaptureInv => ConsumedIsBundled
    <2> SUFFICES ASSUME CaptureInv PROVE ConsumedIsBundled
      OBVIOUS
    <2>1. \A f \in In("archive") : \E b \in bundles : f \in b.members /\ registry[b] # Missing
      BY DEF CaptureInv, ArchivedIsBundled, Missing
    <2>2. ASSUME NEW d \in decisions
          PROVE  /\ transition_event(d.proposal, d.origin, "promoted",
                        {g.reason_code : g \in {h \in d.gates : h.status = "FAIL"}}) \in gate_events
                 /\ "materialized" \in d.refs => d.proposal \in bundles
                 /\ "state_updated" \in d.refs => registry[d.proposal] \in {"promoted", "routed"}
                 /\ "success_logged" \in d.refs => \E e \in promo_log : e.bundle = d.proposal
                 /\ d.decision = "PROMOTE_TO_STATE" => d.proposal.members \cap In("raw") = {}
      <3>1. DecisionTrue(d)
        BY DEF CaptureInv
      <3>2. \A b \in BundleIds : registry[b] \in {"promoted", "routed"} => b \in bundles /\ Promoted(b) \in gate_events
        BY DEF CaptureInv, StoresAgree
      <3> QED  BY <3>1, <3>2 DEF DecisionTrue, Promoted, In
    <2> QED  BY <2>1, <2>2 DEF ConsumedIsBundled
  <1> QED  BY <1>1, CaptureInvHolds, PTL

(* Copies, registry, ledgers and the operator's reports over them agree.    *)
THEOREM RoutesHaveCopies == CaptureSpec => []RoutedHasCopy
  <1>1. CaptureInv => RoutedHasCopy
    <2> SUFFICES ASSUME CaptureInv PROVE RoutedHasCopy
      OBVIOUS
    <2>1. \A b \in BundleIds : registry[b] = "routed" =>
              /\ b \in bundles /\ CopyOf(b) \in incoming
              /\ {transition_event(b, Missing, "promoted", {}),
                  transition_event(b, "promoted", "routed", {})} \subseteq gate_events
      BY DEF CaptureInv, StoresAgree, Promoted, Routed
    <2>2. \A b \in successful_routes : registry[b] = "routed"
      BY DEF successful_routes, routed_to, CaptureInv, StoresAgree
    <2>3. \A s : \A b \in routed_to(s) : registry[b] = "routed"
      BY DEF routed_to, CaptureInv, StoresAgree
    <2>4. ASSUME NEW e \in promo_log, registry[e.bundle] # "routed" PROVE e.bundle \in routing_backlog
      <3>1. e.bundle \in BundleIds /\ e.routed_spine \in {NoLane, Spine(e.bundle)}
        BY DEF CaptureInv, StoresAgree
      <3>2. CASE e.routed_spine = NoLane
        BY <2>2, <2>4, <3>2 DEF routing_backlog, unassigned_backlog
      <3>3. CASE e.routed_spine = Spine(e.bundle)
        <4>1. Spine(e.bundle) \in Spines
          BY <3>1, SpineIsOne
        <4>2. e.bundle \in backlog_of(Spine(e.bundle))
          BY <2>3, <2>4, <3>3 DEF backlog_of
        <4> QED  BY <4>1, <4>2 DEF routing_backlog
      <3> QED  BY <3>1, <3>2, <3>3
    <2>5. promoted_without_route \subseteq routing_backlog
      <3> SUFFICES ASSUME NEW e \in promo_log, \A r \in routing_log : r.bundle # e.bundle
                   PROVE  e.bundle \in routing_backlog
        BY DEF promoted_without_route
      <3>1. e.bundle \in BundleIds /\ e.routed_spine \in {NoLane, Spine(e.bundle)}
        BY DEF CaptureInv, StoresAgree
      <3>2. \A s : e.bundle \notin routed_to(s)
        BY DEF routed_to
      <3>3. e.bundle \notin successful_routes
        BY <3>2 DEF successful_routes
      <3>4. CASE e.routed_spine = NoLane
        BY <3>3, <3>4 DEF routing_backlog, unassigned_backlog
      <3>5. CASE e.routed_spine = Spine(e.bundle)
        <4>1. Spine(e.bundle) \in Spines
          BY <3>1, SpineIsOne
        <4>2. e.bundle \in backlog_of(Spine(e.bundle))
          BY <3>2, <3>5 DEF backlog_of
        <4> QED  BY <4>1, <4>2 DEF routing_backlog
      <3> QED  BY <3>1, <3>4, <3>5
    <2>6. ASSUME NEW b \in bundles
          PROVE  /\ "routed" \in condition_labels(b) =>
                        registry[b] = "routed" /\ candidate_destinations(b) = {Spine(b)} /\ "waiting" \in condition_labels(b)
                 /\ "orphaned" \in condition_labels(b) => write_faults > 0 \/ hq_job.bundle = b
                 /\ "duplicated" \notin condition_labels(b)
      <3>1. b \in BundleIds /\ write_faults \in Nat
        BY HqJobFacts
      <3>2. queue_copies(b) \subseteq {CopyOf(b)}
        BY DEF queue_copies, CaptureInv, StoresAgree
      <3>3. \A c \in queue_copies(b) : c.spine = Spine(b)
        BY <3>2, CopyNamesBundle
      <3>4. "duplicated" \notin condition_labels(b)
        <4>1. CASE queue_copies(b) = {}
          <5>1. Cardinality(queue_copies(b)) = 0
            BY <4>1, FS_EmptySet
          <5>2. ~(Cardinality(queue_copies(b)) > 1)
            BY <5>1
          <5> QED  BY <5>2 DEF condition_labels
        <4>2. CASE queue_copies(b) = {CopyOf(b)}
          <5>1. Cardinality(queue_copies(b)) = 1
            BY <4>2, FS_Singleton
          <5>2. ~(Cardinality(queue_copies(b)) > 1)
            BY <5>1
          <5> QED  BY <5>2 DEF condition_labels
        <4> QED  BY <3>2, <4>1, <4>2
      <3>5. ASSUME "routed" \in condition_labels(b)
            PROVE  registry[b] = "routed" /\ candidate_destinations(b) = {Spine(b)} /\ "waiting" \in condition_labels(b)
        <4>1. b \in successful_routes
          BY <3>5 DEF condition_labels
        <4>2. registry[b] = "routed"
          BY <2>2, <4>1
        <4>3. CopyOf(b) \in queue_copies(b)
          BY <2>1, <3>1, <4>2, CopyNamesBundle DEF queue_copies
        <4>4. "waiting" \in condition_labels(b)
          BY <4>3 DEF condition_labels
        <4>5. \A s \in candidate_destinations(b) : s = Spine(b)
          BY <3>3 DEF candidate_destinations, CaptureInv, StoresAgree
        <4>6. Spine(b) \in candidate_destinations(b)
          BY <4>3, CopyNamesBundle DEF candidate_destinations
        <4> QED  BY <4>2, <4>4, <4>5, <4>6
      <3>6. ASSUME "orphaned" \in condition_labels(b) PROVE write_faults > 0 \/ hq_job.bundle = b
        <4>1. queue_copies(b) # {} /\ ~\E e \in promo_log \cup routing_log : e.bundle = b
          BY <3>6 DEF condition_labels
        <4>2. PICK c \in incoming : c.bundle = b
          BY <4>1 DEF queue_copies
        <4>3. ~OkLogged(b)
          BY <4>1 DEF OkLogged
        <4>4. write_faults = 0 => hq_job.bundle = b
          BY <4>2, <4>3 DEF CaptureInv, StoresAgree
        <4> QED  BY <3>1, <4>4
      <3> QED  BY <3>4, <3>5, <3>6
    <2>7. ASSUME write_faults = 0, hq_job.pc = "idle", NEW s \in Spines PROVE queue_of(s) = routed_to(s)
      <3>1. ASSUME NEW c \in incoming, c.spine = s PROVE c.bundle \in routed_to(s)
        <4>1. c = CopyOf(c.bundle) /\ OkLogged(c.bundle)
          BY <2>7 DEF CaptureInv, StoresAgree
        <4>2. PICK r \in routing_log : r.ok /\ r.bundle = c.bundle
          BY <4>1 DEF OkLogged
        <4>3. r.spine = s
          BY <3>1, <4>1, <4>2, CopyNamesBundle DEF CaptureInv, StoresAgree
        <4> QED  BY <4>2, <4>3 DEF routed_to
      <3>2. ASSUME NEW r \in routing_log, r.ok, r.spine = s PROVE r.bundle \in queue_of(s)
        <4>1. r.bundle \in BundleIds /\ r.spine = Spine(r.bundle) /\ registry[r.bundle] = "routed"
          BY <3>2 DEF CaptureInv, StoresAgree
        <4>2. CopyOf(r.bundle) \in incoming
          BY <2>1, <4>1
        <4> QED  BY <3>2, <4>1, <4>2, CopyNamesBundle DEF queue_of
      <3> QED  BY <3>1, <3>2 DEF queue_of, routed_to
    <2> QED  BY <2>1, <2>4, <2>5, <2>6, <2>7 DEF RoutedHasCopy
  <1> QED  BY <1>1, CaptureInvHolds, PTL

(* The scan's counts never go down, as long as its window is no wider than  *)
(* what decay leaves alone: seven days and fourteen by default.             *)
THEOREM CountsGrow == ASSUME WindowDays <= DecayDays + 1 PROVE CaptureSpec => CountsOnlyGrow
  <1> DEFINE Grows == \A t \in {TopicOf[f] : f \in Fragments}, d \in Days :
                          today - d < WindowDays => topic_count(t, d)' >= topic_count(t, d)
  <1>1. CaptureInv /\ [CaptureNext]_cap_vars => [Grows]_place
    <2> SUFFICES ASSUME CaptureInv, [CaptureNext]_cap_vars, place' # place,
                        NEW t \in {TopicOf[f] : f \in Fragments}, NEW d \in Days, today - d < WindowDays
                 PROVE  topic_count(t, d)' >= topic_count(t, d)
      OBVIOUS
    <2>1. /\ place \in [Fragments -> Places] /\ captured_on \in [Fragments -> 0..LastDay] /\ today \in Nat
          /\ d \in Nat /\ DecayDays \in Nat /\ WindowDays \in Nat
      BY DayAssumption DEF CaptureInv, CaptureTypes, Days
    <2>2. PICK seen : seen = {f \in In("raw") \cup In("archive") : TopicOf[f] = t /\ captured_on[f] = d}
      OBVIOUS
    <2>3. PICK after : after = {f \in Fragments : place'[f] \in {"raw", "archive"} /\ TopicOf[f] = t /\ captured_on'[f] = d}
      OBVIOUS
    <2>4. topic_count(t, d) = Cardinality(seen) /\ topic_count(t, d)' = Cardinality(after)
      <3>1. {f \in In("raw")' \cup In("archive")' : TopicOf[f] = t /\ captured_on'[f] = d} = after
        BY <2>3 DEF In
      <3> QED  BY <2>2, <3>1 DEF topic_count
    <2>5. \A f \in seen : f \in Fragments /\ place[f] \in {"raw", "archive"} /\ TopicOf[f] = t /\ captured_on[f] = d
      BY <2>2 DEF In
    <2>6. seen \subseteq after
      <3>1. ASSUME NEW f \in Fragments, CaptureWrite(f) PROVE seen \subseteq after
        <4>1. f \notin seen /\ place' = [place EXCEPT ![f] = "raw"] /\ captured_on' = [captured_on EXCEPT ![f] = today]
          BY <2>5, <3>1 DEF CaptureWrite
        <4>2. \A g \in seen : g \in Fragments /\ place'[g] = place[g] /\ captured_on'[g] = captured_on[g]
          BY <2>1, <2>5, <4>1
        <4> QED  BY <2>3, <2>5, <4>2
      <3>2. ASSUME NEW f \in Fragments, Decay(f) PROVE seen \subseteq after
        <4>1. f \notin seen
          <5>1. CASE place[f] = "raw" /\ today - captured_on[f] > DecayDays
            <6>1. captured_on[f] \in Nat
              BY <2>1, DayAssumption
            <6>2. captured_on[f] # d
              BY <2>1, <5>1, <6>1
            <6> QED  BY <2>5, <6>2
          <5>2. CASE place[f] = "expired_stage1"
            BY <2>5, <5>2
          <5> QED  BY <3>2, <5>1, <5>2 DEF Decay
        <4>2. \A g \in seen : g \in Fragments /\ place'[g] = place[g] /\ captured_on'[g] = captured_on[g]
          BY <2>1, <2>5, <3>2, <4>1 DEF Decay
        <4> QED  BY <2>3, <2>5, <4>2
      <3>3. CASE Archive
        <4>1. PICK f : place' = [place EXCEPT ![f] = "archive"] /\ captured_on' = captured_on
          BY <3>3 DEF Archive
        <4>2. \A g \in seen : g \in Fragments /\ place'[g] \in {place[g], "archive"} /\ captured_on'[g] = captured_on[g]
          BY <2>1, <2>5, <4>1
        <4> QED  BY <2>3, <2>5, <4>2
      <3>4. (\E f \in Fragments : CaptureWrite(f) \/ Decay(f)) \/ Archive
        BY DEF CaptureNext, cap_vars, disk_vars, CaptureEvent, CaptureRecord, CaptureStops, Promotion, PromoteStart,
               NextCluster, PromoteDone, WriteBundle, PromoteEvent, PromoteRecord, PromoteLog, AppendHqDecision, Routing,
               RouteBlocked, RouteGate, CopyThenRecord, RouteUnlink, RouteLog, RouteFault, RouteCommand, HqStops, NextDay
      <3> QED  BY <3>1, <3>2, <3>3, <3>4
    <2>7. after \subseteq Fragments /\ IsFiniteSet(after)
      BY <2>3, FragmentAssumption, FS_Subset
    <2>8. IsFiniteSet(seen) /\ Cardinality(seen) <= Cardinality(after)
      BY <2>6, <2>7, FS_Subset
    <2>9. Cardinality(seen) \in Nat /\ Cardinality(after) \in Nat
      BY <2>7, <2>8, FS_CardinalityType
    <2> QED  BY <2>4, <2>8, <2>9
  <1>2. CaptureInv /\ [CaptureNext]_cap_vars
            => [\A t \in {TopicOf[f] : f \in Fragments}, d \in Days :
                    today - d < WindowDays => topic_count(t, d)' >= topic_count(t, d)]_place
    BY <1>1
  <1> QED  BY <1>2, CaptureInvHolds, PTL DEF CaptureSpec, CountsOnlyGrow

(* The life of fragments and bundles.  Most steps of the HQ write none of   *)
(* the three stores that tell of it.                                        *)
LEMMA LifeRests ==
    ASSUME place' = place, incoming' = incoming, \A b \in BundleIds : registry'[b] = registry[b]
    PROVE  UNCHANGED <<Kept, Stage, Delivered>>
  <1>1. Kept' = Kept /\ Delivered' = Delivered
    BY DEF Kept, Delivered
  <1>2. Stage' = Stage
    BY DEF Stage
  <1> QED  BY <1>1, <1>2

(* One fragment moves.                                                      *)
LEMMA KeptMoves ==
    ASSUME NEW f \in Fragments, NEW to \in Places, CaptureTypes, place' = [place EXCEPT ![f] = to]
    PROVE  Kept' = [Kept EXCEPT ![f] = IF to \in {"expired_stage1", "expired_stage2"} THEN "forgotten" ELSE to]
  <1>1. place'[f] = to /\ \A g \in Fragments \ {f} : place'[g] = place[g]
    BY DEF CaptureTypes
  <1> QED  BY <1>1 DEF Kept

(* One bundle changes its state in the registry.                            *)
LEMMA StageMoves ==
    ASSUME NEW b \in BundleIds, NEW to \in {"promoted", "routed"}, CaptureTypes,
           registry' = [registry EXCEPT ![b] = to]
    PROVE  Stage' = [Stage EXCEPT ![b] = to]
  <1>1. registry'[b] = to /\ \A c \in BundleIds \ {b} : registry'[c] = registry[c]
    BY BundlesAreNoFiles DEF CaptureTypes
  <1> QED  BY <1>1 DEF Stage, Missing

(* A copy comes or goes.                                                    *)
LEMMA CopiesMove ==
    ASSUME NEW b \in BundleIds
    PROVE  /\ incoming' = incoming \cup {CopyOf(b)} => Delivered' = Delivered \cup {b}
           /\ incoming' = incoming \ {CopyOf(b)} => Delivered' = Delivered \ {b}
  <1>1. \A c \in BundleIds : CopyOf(c) = CopyOf(b) => c = b
    BY CopyNamesBundle
  <1> QED  BY <1>1 DEF Delivered

LEMMA LifecycleStep ==
    ASSUME CaptureInv, [CaptureNext]_cap_vars
    PROVE  [Lifecycle!Move]_<<Kept, Stage, Delivered>>
  <1>i. CaptureTypes /\ StoresAgree /\ MembersWereCaptured /\ HqSound
    BY DEF CaptureInv
  <1>b. hq_job.pc \notin {"idle", "next"} => hq_job.bundle \in BundleIds
    BY <1>i DEF HqSound
  <1>1. ASSUME NEW f \in Fragments, CaptureWrite(f) PROVE [Lifecycle!Move]_<<Kept, Stage, Delivered>>
    <2>1. /\ place[f] = "nowhere" /\ place' = [place EXCEPT ![f] = "raw"]
          /\ registry' = registry /\ incoming' = incoming
      BY <1>1 DEF CaptureWrite
    <2>2. Kept[f] = "nowhere" /\ Kept' = [Kept EXCEPT ![f] = "raw"]
      BY <1>i, <2>1, KeptMoves DEF Kept, Places
    <2>3. UNCHANGED <<Stage, Delivered>>
      BY <2>1 DEF Stage, Delivered
    <2> QED  BY <2>2, <2>3 DEF Lifecycle!Move, Lifecycle!Capture
  <1>2. ASSUME NEW f \in Fragments, Decay(f) PROVE [Lifecycle!Move]_<<Kept, Stage, Delivered>>
    <2>1. registry' = registry /\ incoming' = incoming
      BY <1>2 DEF Decay
    <2>2. UNCHANGED <<Stage, Delivered>>
      BY <2>1 DEF Stage, Delivered
    <2>3. CASE place[f] = "raw" /\ place' = [place EXCEPT ![f] = "expired_stage1"]
      <3>1. Kept[f] = "raw" /\ Kept' = [Kept EXCEPT ![f] = "forgotten"]
        BY <1>i, <2>3, KeptMoves DEF Kept, Places
      <3> QED  BY <2>2, <3>1 DEF Lifecycle!Move, Lifecycle!Forget
    <2>4. CASE place[f] = "expired_stage1" /\ place' = [place EXCEPT ![f] = "expired_stage2"]
      <3>1. Kept[f] = "forgotten" /\ Kept' = [Kept EXCEPT ![f] = "forgotten"]
        BY <1>i, <2>4, KeptMoves DEF Kept, Places
      <3>2. Kept' = Kept
        BY <3>1 DEF Kept
      <3> QED  BY <2>2, <3>2
    <2> QED  BY <1>2, <2>3, <2>4 DEF Decay
  <1>3. CASE CaptureRecord
    <2>1. cap_job.fragment \in Fragments
      BY <1>3, <1>i DEF CaptureRecord, CaptureTypes
    <2>2. \A b \in BundleIds : registry'[b] = registry[b]
      BY <1>3, <1>i, <2>1, BundlesAreNoFiles DEF CaptureRecord, CaptureTypes
    <2> QED  BY <1>3, <2>2, LifeRests DEF CaptureRecord, disk_vars
  <1>4. CASE PromoteRecord
    <2>1. PICK b \in BundleIds : b = hq_job.bundle
      BY <1>4, <1>b DEF PromoteRecord
    <2>2. registry[b] = Missing /\ registry' = [registry EXCEPT ![b] = "promoted"] /\ b \in bundles
      BY <1>4, <1>i, <2>1 DEF PromoteRecord, HqSound
    <2>3. Stage[b] = "unknown" /\ Stage' = [Stage EXCEPT ![b] = "promoted"]
      BY <1>i, <2>2, StageMoves DEF Stage
    <2>4. \A f \in b.members : Kept[f] # "nowhere"
      <3>1. \A f \in b.members : f \in Fragments /\ place[f] # "nowhere"
        BY <1>i, <2>2 DEF MembersWereCaptured, Gone, BundleIds
      <3> QED  BY <3>1 DEF Kept
    <2>5. UNCHANGED <<Kept, Delivered>>
      BY <1>4 DEF PromoteRecord, disk_vars, Kept, Delivered
    <2> QED  BY <2>3, <2>4, <2>5 DEF Lifecycle!Move, Lifecycle!Register, Lifecycle!Becomes
  <1>5. CASE CopyThenRecord
    <2>1. PICK b \in BundleIds : b = hq_job.bundle
      BY <1>5, <1>b DEF CopyThenRecord
    <2>2. registry[b] = "promoted" /\ (hq_job.pc = "routed" => CopyOf(b) \in incoming) /\ place' = place
      BY <1>5, <1>i, <2>1 DEF CopyThenRecord, HqSound
    <2>3. Stage[b] = "promoted" /\ Kept' = Kept
      BY <2>2 DEF Stage, Kept, Missing
    <2>4. CASE hq_job.pc = "copy"
      <3>1. incoming' = incoming \cup {CopyOf(b)} /\ registry' = registry
        BY <1>5, <2>1, <2>4 DEF CopyThenRecord
      <3>2. Delivered' = Delivered \cup {b} /\ Stage' = Stage
        BY <3>1, CopiesMove DEF Stage
      <3> QED  BY <2>3, <3>2 DEF Lifecycle!Move, Lifecycle!Deliver
    <2>5. CASE hq_job.pc = "routed"
      <3>1. registry' = [registry EXCEPT ![b] = "routed"] /\ incoming' = incoming
        BY <1>5, <2>1, <2>5 DEF CopyThenRecord
      <3>2. b \in Delivered /\ Delivered' = Delivered
        BY <2>2, <2>5, <3>1 DEF Delivered
      <3>3. Stage' = [Stage EXCEPT ![b] = "routed"]
        BY <1>i, <3>1, StageMoves
      <3> QED  BY <2>3, <3>2, <3>3 DEF Lifecycle!Move, Lifecycle!Route, Lifecycle!Becomes
    <2> QED  BY <1>5, <2>4, <2>5 DEF CopyThenRecord
  <1>6. ASSUME hq_job.pc = "unlink", incoming' = incoming \ {CopyOf(hq_job.bundle)},
               registry' = registry, place' = place
        PROVE  [Lifecycle!Move]_<<Kept, Stage, Delivered>>
    <2>1. PICK b \in BundleIds : b = hq_job.bundle
      BY <1>6, <1>b
    <2>2. Stage[b] = "promoted"
      BY <1>6, <1>i, <2>1 DEF HqSound, Stage, Missing
    <2>3. Delivered' = Delivered \ {b} /\ UNCHANGED <<Kept, Stage>>
      BY <1>6, <2>1, CopiesMove DEF Kept, Stage
    <2> QED  BY <2>2, <2>3 DEF Lifecycle!Move, Lifecycle!TakeBack
  <1>7. CASE RouteUnlink \/ RouteFault
    BY <1>7, <1>6, LifeRests DEF RouteUnlink, RouteFault
  <1>8. CASE Archive
    <2>1. PICK b \in BundleIds : b = hq_job.bundle
      BY <1>8, <1>b DEF Archive
    <2>2. PICK f \in ToArchive : f = Min(ToArchive)
      <3>1. ToArchive \subseteq Fragments /\ ToArchive # {}
        BY <1>8 DEF Archive, ToArchive, In
      <3> QED  BY <3>1, MinIsMember
    <2>3. f \in Fragments /\ f \in b.members /\ place[f] = "raw" /\ place' = [place EXCEPT ![f] = "archive"]
      BY <1>8, <2>1, <2>2 DEF Archive, ToArchive, In
    <2>4. Kept[f] = "raw" /\ Kept' = [Kept EXCEPT ![f] = "archive"]
      BY <1>i, <2>3, KeptMoves DEF Kept, Places
    <2>5. Stage[b] # "unknown"
      <3>1. registry[b] \in {"promoted", "routed"}
        BY <1>8, <1>i, <2>1 DEF Archive, HqSound
      <3> QED  BY <3>1 DEF Stage, Missing
    <2>6. UNCHANGED <<Stage, Delivered>>
      BY <1>8 DEF Archive, Stage, Delivered
    <2> QED  BY <2>3, <2>4, <2>5, <2>6 DEF Lifecycle!Move, Lifecycle!Consume
  <1>9. CASE CaptureEvent \/ CaptureStops \/ NextDay \/ HqStops \/ UNCHANGED cap_vars
    BY <1>9, LifeRests DEF CaptureEvent, CaptureStops, NextDay, HqStops, cap_vars, disk_vars
  <1>10. CASE PromoteStart \/ (\E force \in BOOLEAN : NextCluster(force)) \/ PromoteDone \/ WriteBundle
                  \/ PromoteEvent \/ PromoteLog \/ AppendHqDecision
    BY <1>10, LifeRests
       DEF PromoteStart, NextCluster, PromoteDone, WriteBundle, PromoteEvent, PromoteLog, AppendHqDecision, disk_vars
  <1>11. CASE RouteBlocked \/ RouteGate \/ RouteLog \/ \E b \in BundleIds : RouteCommand(b)
    BY <1>11, LifeRests DEF RouteBlocked, RouteGate, RouteLog, RouteCommand, disk_vars
  <1> QED  BY <1>1, <1>2, <1>3, <1>4, <1>5, <1>7, <1>8, <1>9, <1>10, <1>11 DEF CaptureNext, Promotion, Routing

(* promote.py, router.py and decay.py: for any fragments, clusters, spines  *)
(* and failing writes the stores live the life of BundleLifecycle.          *)
THEOREM HqImplementsLifecycle == CaptureSpec => ImplementsLifecycle
  <1>1. CaptureInit => Lifecycle!Init
    <2> SUFFICES ASSUME CaptureInit PROVE Lifecycle!Init
      OBVIOUS
    <2>1. Kept = [f \in Fragments |-> "nowhere"] /\ Delivered = {}
      BY DEF CaptureInit, Kept, Delivered
    <2>2. Stage = [b \in BundleIds |-> "unknown"]
      BY BundlesAreNoFiles DEF CaptureInit, Stage
    <2> QED  BY <2>1, <2>2 DEF Lifecycle!Init
  <1>2. CaptureInv /\ [CaptureNext]_cap_vars => [Lifecycle!Next]_(Lifecycle!lives)
    BY LifecycleStep DEF Lifecycle!Next, Lifecycle!lives
  <1> QED  BY <1>1, <1>2, CaptureInvHolds, PTL DEF CaptureSpec, ImplementsLifecycle, Lifecycle!Spec

----------------------------------------------------------------------------
(* Intake.  What a scan read when it began stays the last success of every  *)
(* file it has not taken; a text is never gone from the store once opened.  *)
Hashes == Documents \cup {NoDocument, OperatorHash}
Texts == Snapshots \cup {""}
Statuses == {"", "success", "error", "skipped_unchanged", "skipped_too_large"}
ScanSteps == {"idle", "next", "extract", "look", "open", "fill", "log"}
Events == [path : Paths, sha : Hashes, text : Texts, status : Statuses, since : Nat, mixed : BOOLEAN]
ScanJobs == [pc : ScanSteps, left : SUBSET Paths, since : Nat, ledger_cache : [Paths -> Hashes] \cup {<<>>},
             path : Paths \cup {""}, sha : Hashes, text : Texts, status : Statuses, mixed : BOOLEAN]

IntakeTypes ==
    /\ source \in [Paths -> Documents]
    /\ snapshot \in [Snapshots -> {"absent", "part", "whole"}]
    /\ intake_events \in Seq(Events)
    /\ scanner \in [Scanners -> ScanJobs]
    /\ intake_faults \in Nat

LastAt(p, since, sha) ==
    \E j \in Successes(p) : /\ j <= since /\ intake_events[j].sha = sha
                            /\ \A k \in Successes(p) : k <= j \/ k > since
PassedSince(p, since) == \E i \in (since + 1)..Len(intake_events) : intake_events[i].path = p

(* A text of a success, and the document it was taken from.                 *)
TextFits(x) == /\ x.text \in Snapshots /\ x.sha \in Documents /\ (x.text = x.sha.text \/ x.mixed)
Stored(t) == snapshot[t] # "absent"

EventSound(e) ==
    /\ e.since <= Len(intake_events)
    /\ e.status = "success" /\ e.sha # OperatorHash => TextFits(e) /\ Stored(e.text)
    /\ e.status = "skipped_unchanged" => LastAt(e.path, e.since, e.sha)

ScanSound(job) == job.pc # "idle" =>
    /\ job.since <= Len(intake_events) /\ job.ledger_cache \in [Paths -> Hashes]
    /\ \A p \in job.left : job.ledger_cache[p] = NoDocument \/ LastAt(p, job.since, job.ledger_cache[p])
    /\ \A p \in Paths \ job.left : (p = job.path /\ job.pc # "next") \/ PassedSince(p, job.since)
    /\ job.pc # "next" => job.path \in Paths \ job.left
    /\ job.pc = "extract" => job.sha \in Documents /\ (job.sha = source[job.path] \/ job.mixed)
    /\ job.pc \in {"look", "open", "fill"} => job.status = "success" /\ TextFits(job)
    /\ job.pc = "fill" => Stored(job.text)
    /\ job.pc = "log" /\ job.status = "success" => TextFits(job) /\ Stored(job.text)
    /\ job.pc = "log" /\ job.status = "skipped_unchanged" => LastAt(job.path, job.since, job.sha)

PartsAreFilled ==
    intake_faults = 0 => \A t \in Snapshots : snapshot[t] = "part" => \E s \in Scanners : IsDoing(s, "fill") /\ scanner[s].text = t

IntakeInv ==
    /\ IntakeTypes /\ PartsAreFilled
    /\ \A i \in DOMAIN intake_events : EventSound(intake_events[i])
    /\ \A s \in Scanners : ScanSound(scanner[s])

(* A scan that moves on changes its step only.                               *)
LEMMA ScanAt ==
    ASSUME NEW job \in ScanJobs, NEW pc \in ScanSteps, NEW new, new = [job EXCEPT !.pc = pc]
    PROVE  /\ new \in ScanJobs /\ new.pc = pc /\ new.left = job.left /\ new.since = job.since
           /\ new.ledger_cache = job.ledger_cache /\ new.path = job.path /\ new.sha = job.sha /\ new.text = job.text
           /\ new.status = job.status /\ new.mixed = job.mixed
  BY DEF ScanJobs

LEMMA IdleScannerTyped == IdleScanner \in ScanJobs /\ IdleScanner.pc = "idle" /\ IdleScanner.mixed = FALSE /\ IdleScanner.text = ""
  BY DEF IdleScanner, ScanJobs, ScanSteps, Hashes, Texts, Statuses

LEMMA IntakeInitInv == IntakeInit => IntakeInv
  <1> SUFFICES ASSUME IntakeInit PROVE IntakeInv
    OBVIOUS
  <1>1. \A s \in Scanners : scanner[s] = IdleScanner
    BY DEF IntakeInit
  <1>2. IntakeTypes
    <2>1. scanner \in [Scanners -> ScanJobs]
      BY IdleScannerTyped DEF IntakeInit
    <2>2. snapshot \in [Snapshots -> {"absent", "part", "whole"}]
      BY DEF IntakeInit
    <2>3. intake_events \in Seq(Events) /\ intake_faults \in Nat /\ source \in [Paths -> Documents]
      BY DEF IntakeInit
    <2> QED  BY <2>1, <2>2, <2>3 DEF IntakeTypes
  <1>3. PartsAreFilled
    BY DEF IntakeInit, PartsAreFilled
  <1>4. \A s \in Scanners : ScanSound(scanner[s])
    BY <1>1, IdleScannerTyped DEF ScanSound
  <1>5. DOMAIN intake_events = {}
    BY DEF IntakeInit
  <1> QED  BY <1>2, <1>3, <1>4, <1>5 DEF IntakeInv

(* An append leaves what was true of the ledger at a scan's start.          *)
LogGrows == intake_events' = intake_events \/ \E e \in Events : intake_events' = Append(intake_events, e)

LEMMA LogKeeps ==
    ASSUME intake_events \in Seq(Events), LogGrows
    PROVE  /\ intake_events' \in Seq(Events) /\ Len(intake_events) <= Len(intake_events)'
           /\ \A p, sha : \A since \in Nat : since <= Len(intake_events) /\ LastAt(p, since, sha) => LastAt(p, since, sha)'
           /\ \A p : \A since \in Nat : PassedSince(p, since) => PassedSince(p, since)'
  <1>1. CASE intake_events' = intake_events
    BY <1>1 DEF LastAt, PassedSince, Successes
  <1>2. CASE \E e \in Events : intake_events' = Append(intake_events, e)
    <2>1. PICK e \in Events : intake_events' = Append(intake_events, e)
      BY <1>2
    <2>2. PICK n \in Nat : n = Len(intake_events)
      OBVIOUS
    <2>3. /\ intake_events' \in Seq(Events) /\ Len(intake_events') = n + 1 /\ intake_events'[n + 1] = e
          /\ DOMAIN intake_events = 1..n /\ DOMAIN intake_events' = 1..(n + 1)
          /\ \A i \in 1..n : intake_events'[i] = intake_events[i]
      BY <2>1, <2>2
    <2>4. \A i \in 1..(n + 1) : i \in 1..n \/ i = n + 1
      BY <2>2
    <2>5. \A p : /\ \A k \in Successes(p) : k \in 1..n /\ k \in Successes(p)' /\ intake_events'[k] = intake_events[k]
                 /\ \A k \in Successes(p)' : k \in Successes(p) \/ k = n + 1
      BY <2>3, <2>4 DEF Successes
    <2>6. ASSUME NEW p, NEW sha, NEW since \in Nat, since <= n, LastAt(p, since, sha) PROVE LastAt(p, since, sha)'
      <3>1. PICK j \in Successes(p) : /\ j <= since /\ intake_events[j].sha = sha
                                      /\ \A k \in Successes(p) : k <= j \/ k > since
        BY <2>6 DEF LastAt
      <3>2. j \in Successes(p)' /\ intake_events'[j].sha = sha
        BY <2>5, <3>1
      <3>3. n + 1 > since
        BY <2>2, <2>6
      <3>4. \A k \in Successes(p)' : k <= j \/ k > since
        BY <2>5, <3>1, <3>3
      <3> QED  BY <3>1, <3>2, <3>4 DEF LastAt
    <2>7. ASSUME NEW p, NEW since \in Nat, PassedSince(p, since) PROVE PassedSince(p, since)'
      <3>1. PICK i \in (since + 1)..n : intake_events[i].path = p
        BY <2>2, <2>7 DEF PassedSince
      <3>2. i \in 1..n /\ i \in (since + 1)..(n + 1)
        BY <2>2
      <3> QED  BY <2>3, <3>1, <3>2 DEF PassedSince
    <2>8. n <= n + 1
      BY <2>2
    <2> QED  BY <2>2, <2>3, <2>6, <2>7, <2>8
  <1> QED  BY <1>1, <1>2 DEF LogGrows

(* A scan stays sound while log and store grow.                              *)
LEMMA ScanStays ==
    ASSUME IntakeInv, LogGrows, \A t \in Snapshots : Stored(t) => Stored(t)',
           NEW job \in ScanJobs, ScanSound(job),
           job.pc = "extract" => job.mixed \/ source'[job.path] = source[job.path]
    PROVE  ScanSound(job)'
  <1>1. job.since \in Nat
    BY DEF ScanJobs
  <1>2. intake_events \in Seq(Events)
    BY DEF IntakeInv, IntakeTypes
  <1>3. SUFFICES ASSUME job.pc # "idle" PROVE ScanSound(job)'
    BY DEF ScanSound
  <1>4. /\ Len(intake_events) \in Nat /\ Len(intake_events') \in Nat /\ Len(intake_events) <= Len(intake_events')
    BY <1>2, LogKeeps
  <1>5. job.since <= Len(intake_events) /\ job.since <= Len(intake_events')
    BY <1>1, <1>3, <1>4 DEF ScanSound
  <1>6. \A p, sha : LastAt(p, job.since, sha) => LastAt(p, job.since, sha)'
    BY <1>1, <1>2, <1>5, LogKeeps
  <1>7. \A p : PassedSince(p, job.since) => PassedSince(p, job.since)'
    BY <1>1, <1>2, LogKeeps
  <1>8. TextFits(job)' <=> TextFits(job)
    BY DEF TextFits
  <1>9. TextFits(job) => (Stored(job.text) => Stored(job.text)')
    BY DEF TextFits
  <1> QED  BY <1>3, <1>5, <1>6, <1>7, <1>8, <1>9 DEF ScanSound

(* And so does a line of the log.                                            *)
LEMMA EventStays ==
    ASSUME IntakeInv, LogGrows, \A t \in Snapshots : Stored(t) => Stored(t)', NEW e \in Events, EventSound(e)
    PROVE  EventSound(e)'
  <1>1. e.since \in Nat
    BY DEF Events
  <1>2. intake_events \in Seq(Events)
    BY DEF IntakeInv, IntakeTypes
  <1>3. /\ Len(intake_events) \in Nat /\ Len(intake_events') \in Nat /\ Len(intake_events) <= Len(intake_events')
    BY <1>2, LogKeeps
  <1>4. e.since <= Len(intake_events) /\ e.since <= Len(intake_events')
    BY <1>1, <1>3 DEF EventSound
  <1>5. \A p, sha : LastAt(p, e.since, sha) => LastAt(p, e.since, sha)'
    BY <1>1, <1>2, <1>4, LogKeeps
  <1>6. TextFits(e) => (Stored(e.text) => Stored(e.text)')
    BY DEF TextFits
  <1> QED  BY <1>4, <1>5, <1>6 DEF EventSound, TextFits

(* The ledger after a step, if an event it appends is sound.                *)
LEMMA LedgerSound ==
    ASSUME IntakeInv, \A t \in Snapshots : Stored(t) => Stored(t)',
           \/ intake_events' = intake_events
           \/ \E e \in Events : intake_events' = Append(intake_events, e) /\ EventSound(e)'
    PROVE  LogGrows /\ intake_events' \in Seq(Events) /\ (\A i \in DOMAIN intake_events : EventSound(intake_events[i]))'
  <1>1. LogGrows
    BY DEF LogGrows
  <1>2. intake_events \in Seq(Events)
    BY DEF IntakeInv, IntakeTypes
  <1>3. \A e \in Events : EventSound(e) => EventSound(e)'
    BY <1>1, EventStays
  <1>4. \A i \in DOMAIN intake_events : intake_events[i] \in Events /\ EventSound(intake_events[i])
    BY <1>2 DEF IntakeInv
  <1>5. PICK old : old = intake_events
    OBVIOUS
  <1>6. \A i \in DOMAIN old : EventSound(old[i])'
    BY <1>3, <1>4, <1>5
  <1>7. PICK new : new = intake_events'
    OBVIOUS
  <1>8. ASSUME NEW i \in DOMAIN new PROVE EventSound(new[i])'
    <2>1. CASE intake_events' = intake_events
      BY <1>5, <1>6, <1>7, <2>1
    <2>2. CASE \E e \in Events : intake_events' = Append(intake_events, e) /\ EventSound(e)'
      <3>1. PICK e \in Events : intake_events' = Append(intake_events, e) /\ EventSound(e)'
        BY <2>2
      <3>2. PICK n \in Nat : n = Len(old)
        BY <1>2, <1>5
      <3>3. new = Append(old, e) /\ old \in Seq(Events)
        BY <1>2, <1>5, <1>7, <3>1
      <3>4. DOMAIN old = 1..n /\ DOMAIN new = 1..(n + 1) /\ new[n + 1] = e /\ \A k \in 1..n : new[k] = old[k]
        BY <3>2, <3>3
      <3>5. i \in 1..n \/ i = n + 1
        BY <3>2, <3>4
      <3> QED  BY <1>6, <3>1, <3>4, <3>5
    <2> QED  BY <2>1, <2>2
  <1>9. intake_events' \in Seq(Events)
    BY <1>1, <1>2, LogKeeps
  <1> QED  BY <1>1, <1>7, <1>8, <1>9

(* A step of one scan keeps the invariant when that scan stays sound.        *)
LEMMA ScannerMoves ==
    ASSUME IntakeInv, NEW s \in Scanners, NEW job \in ScanJobs, Goes(s, job), source' = source,
           \A t \in Snapshots : Stored(t) => Stored(t)', snapshot' \in [Snapshots -> {"absent", "part", "whole"}],
           intake_faults' \in Nat, PartsAreFilled', ScanSound(job)',
           \/ intake_events' = intake_events
           \/ \E e \in Events : intake_events' = Append(intake_events, e) /\ EventSound(e)'
    PROVE  IntakeInv'
  <1>1. /\ LogGrows /\ intake_events' \in Seq(Events)
        /\ (\A i \in DOMAIN intake_events : EventSound(intake_events[i]))'
    BY LedgerSound
  <1>2. scanner \in [Scanners -> ScanJobs] /\ scanner' = [scanner EXCEPT ![s] = job]
    BY DEF IntakeInv, IntakeTypes, Goes
  <1>3. scanner' \in [Scanners -> ScanJobs] /\ scanner'[s] = job /\ \A o \in Scanners \ {s} : scanner'[o] = scanner[o]
    BY <1>2
  <1>4. IntakeTypes'
    BY <1>1, <1>3 DEF IntakeInv, IntakeTypes
  <1>5. PICK jobs : jobs = scanner
    OBVIOUS
  <1>6. \A o \in Scanners : ScanSound(jobs[o])'
    <2>1. \A o \in Scanners : jobs[o] \in ScanJobs /\ ScanSound(jobs[o])
      BY <1>2, <1>5 DEF IntakeInv
    <2> QED  BY <1>1, <2>1, ScanStays
  <1>7. PICK after : after = scanner'
    OBVIOUS
  <1>8. \A o \in Scanners : ScanSound(after[o])'
    BY <1>3, <1>5, <1>6, <1>7
  <1> QED  BY <1>1, <1>4, <1>7, <1>8 DEF IntakeInv

(* A step that fills no store leaves none in part.                           *)
LEMMA PartsStay ==
    ASSUME IntakeInv, NEW s \in Scanners, NEW job, Goes(s, job), ~IsDoing(s, "fill"), snapshot' = snapshot,
           intake_faults' = intake_faults
    PROVE  PartsAreFilled'
  <1>1. \A o \in Scanners \ {s} : scanner'[o] = scanner[o]
    BY DEF Goes, IntakeInv, IntakeTypes
  <1> QED  BY <1>1 DEF IntakeInv, PartsAreFilled, IsDoing

(* A set of lines that is not empty has a last one.                          *)
LEMMA LastLine ==
    ASSUME NEW n \in Nat, NEW lines, lines \subseteq 1..n, lines # {}
    PROVE  \E i \in lines : \A j \in lines : j <= i
  <1> DEFINE From(i) == {j \in lines : i <= j}
             Tails == {From(i) : i \in lines}
             R == StrictSubsetOrdering(lines)
  <1>1. IsFiniteSet(lines)
    <2>1. IsFiniteSet(1..n)
      BY FS_Interval
    <2> QED  BY <2>1, FS_Subset
  <1>2. IsWellFoundedOn(R, SUBSET lines)
    BY <1>1, FS_StrictSubsetOrderingWellFounded, FS_FiniteSubsetsOfFinite
  <1>3. Tails \subseteq SUBSET lines /\ Tails # {}
    OBVIOUS
  <1>4. PICK t \in Tails : \A u \in Tails : <<u, t>> \notin R
    <2> HIDE DEF Tails, R
    <2> QED  BY <1>2, <1>3, WFMin
  <1>5. PICK i \in lines : t = From(i)
    BY <1>4
  <1>6. ASSUME NEW j \in lines, ~(j <= i) PROVE FALSE
    <2>1. i \in Nat /\ j \in Nat /\ i < j
      BY <1>6
    <2>2. From(j) \subseteq From(i) /\ i \in From(i) /\ i \notin From(j)
      <3>1. \A k \in lines : k \in Nat
        OBVIOUS
      <3>2. \A k \in lines : j <= k => i <= k
        BY <2>1, <3>1
      <3>3. i <= i /\ ~(j <= i)
        BY <2>1
      <3> QED  BY <3>2, <3>3
    <2>3. From(j) \in Tails /\ From(j) \in SUBSET lines /\ From(i) \in SUBSET lines
      OBVIOUS
    <2> HIDE DEF From, Tails
    <2>4. From(j) # From(i)
      BY <2>2
    <2>5. <<From(j), From(i)>> \in R
      BY <2>2, <2>3, <2>4 DEF StrictSubsetOrdering
    <2> QED  BY <1>4, <1>5, <2>3, <2>5
  <1> QED  BY <1>6

LEMMA StartScanKeeps == ASSUME IntakeInv, NEW s \in Scanners, StartScan(s) PROVE IntakeInv'
  <1>1. PICK n \in Nat : n = Len(intake_events)
    BY DEF IntakeInv, IntakeTypes
  <1>2. PICK cache : cache = load_ledger
    OBVIOUS
  <1>3. intake_events \in Seq(Events) /\ DOMAIN intake_events = 1..n
    BY <1>1 DEF IntakeInv, IntakeTypes
  <1>4. ASSUME NEW p \in Paths PROVE /\ cache[p] \in Hashes
                                     /\ cache[p] = NoDocument \/ LastAt(p, n, cache[p])
    <2>1. CASE Successes(p) = {}
      BY <1>2, <2>1 DEF load_ledger, Hashes
    <2>2. CASE Successes(p) # {}
      <3>1. Successes(p) \subseteq 1..n
        BY <1>3 DEF Successes
      <3>2. PICK i \in Successes(p) : \A j \in Successes(p) : j <= i
        BY <1>1, <2>2, <3>1, LastLine
      <3>3. \A j \in Successes(p) : i >= j
        BY <3>1, <3>2
      <3>4. PICK last : last = Max(Successes(p))
        OBVIOUS
      <3>5. last \in Successes(p) /\ \A j \in Successes(p) : last >= j
        BY <3>3, <3>4 DEF Max
      <3>6. last \in 1..n /\ \A j \in Successes(p) : j <= last
        BY <3>1, <3>5
      <3>7. cache[p] = intake_events[last].sha
        BY <1>2, <2>2, <3>4 DEF load_ledger
      <3>8. intake_events[last] \in Events
        BY <1>3, <3>6
      <3>9. cache[p] \in Hashes
        BY <3>7, <3>8 DEF Events
      <3>10. last <= n /\ \A k \in Successes(p) : k <= last \/ k > n
        BY <1>1, <3>6
      <3>11. LastAt(p, n, cache[p])
        BY <3>5, <3>7, <3>10 DEF LastAt
      <3> QED  BY <3>9, <3>11
    <2> QED  BY <2>1, <2>2
  <1>5. cache \in [Paths -> Hashes]
    BY <1>2, <1>4 DEF load_ledger
  <1>6. PICK first : first = [IdleScanner EXCEPT !.pc = "next"]
    OBVIOUS
  <1>7. first \in ScanJobs /\ first.pc = "next"
    <2>1. IdleScanner \in ScanJobs /\ "next" \in ScanSteps
      BY IdleScannerTyped DEF ScanSteps
    <2> QED  BY <1>6, <2>1, ScanAt
  <1>8. PICK second : second = [first EXCEPT !.left = Paths]
    OBVIOUS
  <1>9. second \in ScanJobs /\ second.pc = "next" /\ second.left = Paths
    BY <1>7, <1>8 DEF ScanJobs
  <1>10. PICK third : third = [second EXCEPT !.since = n]
    OBVIOUS
  <1>11. third \in ScanJobs /\ third.pc = "next" /\ third.left = Paths /\ third.since = n
    BY <1>9, <1>10 DEF ScanJobs
  <1>12. PICK job : job = [third EXCEPT !.ledger_cache = cache]
    OBVIOUS
  <1>13. job \in ScanJobs /\ job.pc = "next" /\ job.left = Paths /\ job.since = n /\ job.ledger_cache = cache
    BY <1>5, <1>11, <1>12 DEF ScanJobs
  <1>14. Goes(s, job)
    BY <1>1, <1>2, <1>6, <1>8, <1>10, <1>12 DEF StartScan
  <1>15. ScanSound(job)
    BY <1>1, <1>4, <1>5, <1>13 DEF ScanSound
  <1>16. /\ source' = source /\ snapshot' = snapshot /\ intake_events' = intake_events
         /\ intake_faults' = intake_faults /\ ~IsDoing(s, "fill")
    BY DEF StartScan, IsDoing
  <1>17. ScanSound(job)'
    BY <1>13, <1>15, <1>16, ScanStays DEF LogGrows, Stored
  <1>18. PartsAreFilled'
    BY <1>14, <1>16, PartsStay
  <1> QED  BY <1>13, <1>14, <1>16, <1>17, <1>18, ScannerMoves DEF Stored, IntakeInv, IntakeTypes

(* A step that only moves the scanner on.                                   *)
LEMMA ScannerOnly ==
    ASSUME IntakeInv, NEW s \in Scanners, NEW job \in ScanJobs, Goes(s, job), ~IsDoing(s, "fill"), ScanSound(job),
           UNCHANGED <<source, snapshot, intake_events, intake_faults>>
    PROVE  IntakeInv'
  <1>1. ScanSound(job)'
    BY ScanStays DEF LogGrows, Stored
  <1>2. PartsAreFilled'
    BY PartsStay
  <1> QED  BY <1>1, <1>2, ScannerMoves DEF Stored, IntakeInv, IntakeTypes

(* A scan that ends, or is killed.                                           *)
LEMMA ScanEnds ==
    ASSUME IntakeInv, NEW s \in Scanners, Goes(s, IdleScanner),
           UNCHANGED <<source, snapshot, intake_events>>, intake_faults' \in Nat,
           intake_faults' # 0 \/ (~IsDoing(s, "fill") /\ intake_faults' = intake_faults)
    PROVE  IntakeInv'
  <1>1. ScanSound(IdleScanner)'
    BY IdleScannerTyped DEF ScanSound, IdleScanner
  <1>2. PartsAreFilled'
    BY PartsStay DEF PartsAreFilled
  <1>3. PICK job \in ScanJobs : job = IdleScanner
    BY IdleScannerTyped
  <1>4. ScanSound(job)'
    BY <1>3, IdleScannerTyped DEF ScanSound
  <1> QED  BY <1>2, <1>3, <1>4, ScannerMoves DEF Stored, IntakeInv, IntakeTypes

LEMMA FinishScanKeeps == ASSUME IntakeInv, NEW s \in Scanners, FinishScan(s) PROVE IntakeInv'
  <1>1. intake_faults' \in Nat
    BY DEF FinishScan, IntakeInv, IntakeTypes
  <1> QED  BY <1>1, ScanEnds DEF FinishScan, IsDoing

LEMMA ScanKilledKeeps == ASSUME IntakeInv, NEW s \in Scanners, ScanKilled(s) PROVE IntakeInv'
  <1>1. intake_faults \in Nat /\ intake_faults' = intake_faults + 1
    BY DEF ScanKilled, IntakeInv, IntakeTypes
  <1>2. intake_faults' \in Nat /\ intake_faults' # 0
    BY <1>1
  <1> QED  BY <1>2, ScanEnds DEF ScanKilled

LEMMA TakeFileKeeps == ASSUME IntakeInv, NEW s \in Scanners, NEW p \in Paths, TakeFile(s, p) PROVE IntakeInv'
  <1>1. PICK old : old = scanner[s]
    OBVIOUS
  <1>2. old \in ScanJobs /\ ScanSound(old) /\ old.pc = "next" /\ p \in old.left /\ source[p] \in Documents
    BY <1>1 DEF TakeFile, IsDoing, IntakeInv, IntakeTypes
  <1>3. /\ old.since <= Len(intake_events) /\ old.ledger_cache \in [Paths -> Hashes]
        /\ \A q \in old.left : old.ledger_cache[q] = NoDocument \/ LastAt(q, old.since, old.ledger_cache[q])
        /\ \A q \in Paths \ old.left : PassedSince(q, old.since)
    BY <1>2 DEF ScanSound
  <1>4. PICK left \in SUBSET Paths : left = old.left \ {p}
    BY <1>2 DEF ScanJobs
  <1>5. PICK m1 : m1 = [old EXCEPT !.left = left]
    OBVIOUS
  <1>6. /\ m1 \in ScanJobs /\ m1.left = left /\ m1.since = old.since /\ m1.ledger_cache = old.ledger_cache
    BY <1>2, <1>5 DEF ScanJobs
  <1>7. PICK m2 : m2 = [m1 EXCEPT !.path = p]
    OBVIOUS
  <1>8. m2 \in ScanJobs /\ m2.left = left /\ m2.since = old.since /\ m2.ledger_cache = old.ledger_cache /\ m2.path = p
    BY <1>6, <1>7 DEF ScanJobs
  <1>9. PICK m3 : m3 = [m2 EXCEPT !.text = ""]
    OBVIOUS
  <1>10. m3 \in ScanJobs /\ m3.left = left /\ m3.since = old.since /\ m3.ledger_cache = old.ledger_cache /\ m3.path = p
    BY <1>8, <1>9 DEF ScanJobs, Texts
  <1>11. PICK taken : taken = [m3 EXCEPT !.mixed = FALSE]
    OBVIOUS
  <1>12. /\ taken \in ScanJobs /\ taken.left = left /\ taken.since = old.since /\ taken.path = p
         /\ taken.ledger_cache = old.ledger_cache
    BY <1>10, <1>11 DEF ScanJobs
  <1>13. taken = [old EXCEPT !.left = @ \ {p}, !.path = p, !.text = "", !.mixed = FALSE]
    BY <1>4, <1>5, <1>7, <1>9, <1>11
  <1>14. ASSUME NEW job \in ScanJobs, job.left = left, job.since = old.since, job.path = p,
                job.ledger_cache = old.ledger_cache, job.pc \in {"log", "extract"}, job.status # "success" \/ job.pc = "extract",
                job.pc = "extract" => job.sha = source[p],
                job.pc = "log" /\ job.status = "skipped_unchanged" => LastAt(p, old.since, job.sha)
         PROVE  ScanSound(job)
    <2>1. \A q \in left : job.ledger_cache[q] = NoDocument \/ LastAt(q, job.since, job.ledger_cache[q])
      BY <1>3, <1>4, <1>14
    <2>2. \A q \in Paths \ left : q = p \/ PassedSince(q, job.since)
      BY <1>3, <1>4, <1>14
    <2>3. p \in Paths \ left
      BY <1>4
    <2> QED  BY <1>2, <1>3, <1>14, <2>1, <2>2, <2>3 DEF ScanSound
  <1>15. ASSUME NEW status \in {"skipped_too_large", "skipped_unchanged"}, NEW sha \in Hashes,
                status = "skipped_unchanged" => LastAt(p, old.since, sha),
                Goes(s, [taken EXCEPT !.pc = "log", !.status = status, !.sha = sha])
         PROVE  IntakeInv'
    <2>1. PICK a : a = [taken EXCEPT !.pc = "log"]
      OBVIOUS
    <2>2. a \in ScanJobs /\ a.pc = "log" /\ a.left = left /\ a.since = old.since /\ a.path = p /\ a.ledger_cache = old.ledger_cache
      BY <1>12, <2>1, ScanAt DEF ScanSteps
    <2>3. PICK b : b = [a EXCEPT !.status = status]
      OBVIOUS
    <2>4. /\ b \in ScanJobs /\ b.pc = "log" /\ b.left = left /\ b.since = old.since /\ b.path = p
          /\ b.ledger_cache = old.ledger_cache /\ b.status = status
      <3>1. status \in Statuses
        BY <1>15 DEF Statuses
      <3> QED  BY <2>2, <2>3, <3>1 DEF ScanJobs
    <2>5. PICK job : job = [b EXCEPT !.sha = sha]
      OBVIOUS
    <2>6. /\ job \in ScanJobs /\ job.pc = "log" /\ job.left = left /\ job.since = old.since /\ job.path = p
          /\ job.ledger_cache = old.ledger_cache /\ job.status = status /\ job.sha = sha
      BY <2>4, <2>5 DEF ScanJobs
    <2>7. ScanSound(job)
      BY <1>14, <1>15, <2>6
    <2>8. Goes(s, job)
      BY <1>15, <2>1, <2>3, <2>5
    <2> QED  BY <2>6, <2>7, <2>8, ScannerOnly DEF TakeFile, IsDoing
  <1>16. CASE source[p].class = "too_large" /\ Goes(s, [taken EXCEPT !.pc = "log", !.status = "skipped_too_large", !.sha = NoDocument])
    <2>1. NoDocument \in Hashes
      BY DEF Hashes
    <2> QED  BY <1>15, <1>16, <2>1
  <1>17. CASE source[p] = taken.ledger_cache[p] /\ Goes(s, [taken EXCEPT !.pc = "log", !.status = "skipped_unchanged", !.sha = source[p]])
    <2>1. source[p] \in Hashes /\ source[p] # NoDocument
      BY <1>2, IntakeAssumption DEF Hashes
    <2>2. LastAt(p, old.since, source[p])
      BY <1>2, <1>3, <1>12, <1>17, <2>1
    <2>3. PICK sha \in Hashes : sha = source[p]
      BY <2>1
    <2> QED  BY <1>15, <1>17, <2>2, <2>3
  <1>18. CASE Goes(s, [taken EXCEPT !.pc = "extract", !.sha = source[p]])
    <2>1. PICK sha \in Documents : sha = source[p]
      BY <1>2
    <2>2. PICK a : a = [taken EXCEPT !.pc = "extract"]
      OBVIOUS
    <2>3. a \in ScanJobs /\ a.pc = "extract" /\ a.left = left /\ a.since = old.since /\ a.path = p /\ a.ledger_cache = old.ledger_cache
      BY <1>12, <2>2, ScanAt DEF ScanSteps
    <2>4. PICK job : job = [a EXCEPT !.sha = sha]
      OBVIOUS
    <2>5. /\ job \in ScanJobs /\ job.pc = "extract" /\ job.left = left /\ job.since = old.since /\ job.path = p
          /\ job.ledger_cache = old.ledger_cache /\ job.sha = sha
      BY <2>3, <2>4 DEF ScanJobs, Hashes
    <2>6. ScanSound(job)
      BY <1>14, <2>1, <2>5
    <2>7. Goes(s, job)
      BY <1>18, <2>1, <2>2, <2>4
    <2> QED  BY <2>5, <2>6, <2>7, ScannerOnly DEF TakeFile, IsDoing
  <1> QED  BY <1>1, <1>13, <1>16, <1>17, <1>18 DEF TakeFile

LEMMA ExtractKeeps == ASSUME IntakeInv, NEW s \in Scanners, Extract(s) PROVE IntakeInv'
  <1>1. PICK old : old = scanner[s]
    OBVIOUS
  <1>2. old \in ScanJobs /\ ScanSound(old) /\ old.pc = "extract" /\ old.path \in Paths
        /\ old.sha \in Documents /\ (old.sha = source[old.path] \/ old.mixed)
    BY <1>1 DEF Extract, IsDoing, IntakeInv, IntakeTypes, ScanSound
  <1>3. PICK found \in Documents : found = source[old.path]
    BY <1>2 DEF IntakeInv, IntakeTypes
  <1>4. UNCHANGED <<source, snapshot, intake_events, intake_faults>> /\ ~IsDoing(s, "fill")
    BY DEF Extract, IsDoing
  <1>5. CASE found.class = "empty"
    <2>1. PICK a : a = [old EXCEPT !.pc = "log"]
      OBVIOUS
    <2>2. /\ a \in ScanJobs /\ a.pc = "log" /\ a.left = old.left /\ a.since = old.since /\ a.path = old.path
          /\ a.ledger_cache = old.ledger_cache
      BY <1>2, <2>1, ScanAt DEF ScanSteps
    <2>3. PICK b : b = [a EXCEPT !.status = "error"]
      OBVIOUS
    <2>4. /\ b \in ScanJobs /\ b.pc = "log" /\ b.left = old.left /\ b.since = old.since /\ b.path = old.path
          /\ b.ledger_cache = old.ledger_cache /\ b.status = "error"
      BY <2>2, <2>3 DEF ScanJobs, Statuses
    <2>5. PICK job : job = [b EXCEPT !.sha = NoDocument]
      OBVIOUS
    <2>6. /\ job \in ScanJobs /\ job.pc = "log" /\ job.left = old.left /\ job.since = old.since /\ job.path = old.path
          /\ job.ledger_cache = old.ledger_cache /\ job.status = "error"
      BY <2>4, <2>5 DEF ScanJobs, Hashes
    <2>7. ScanSound(job)
      BY <1>2, <2>6 DEF ScanSound
    <2>8. Goes(s, job)
      BY <1>1, <1>3, <1>5, <2>1, <2>3, <2>5 DEF Extract
    <2> QED  BY <1>4, <2>6, <2>7, <2>8, ScannerOnly
  <1>6. CASE found.class # "empty"
    <2>1. PICK a : a = [old EXCEPT !.pc = "look"]
      OBVIOUS
    <2>2. /\ a \in ScanJobs /\ a.pc = "look" /\ a.left = old.left /\ a.since = old.since /\ a.path = old.path
          /\ a.ledger_cache = old.ledger_cache /\ a.sha = old.sha /\ a.mixed = old.mixed
      BY <1>2, <2>1, ScanAt DEF ScanSteps
    <2>3. PICK b : b = [a EXCEPT !.text = found.text]
      OBVIOUS
    <2>4. found.text \in Snapshots
      BY DEF Snapshots
    <2>5. /\ b \in ScanJobs /\ b.pc = "look" /\ b.left = old.left /\ b.since = old.since /\ b.path = old.path
          /\ b.ledger_cache = old.ledger_cache /\ b.sha = old.sha /\ b.mixed = old.mixed /\ b.text = found.text
      BY <2>2, <2>3, <2>4 DEF ScanJobs, Texts
    <2>6. PICK job : job = [b EXCEPT !.status = "success"]
      OBVIOUS
    <2>7. /\ job \in ScanJobs /\ job.pc = "look" /\ job.left = old.left /\ job.since = old.since /\ job.path = old.path
          /\ job.ledger_cache = old.ledger_cache /\ job.sha = old.sha /\ job.mixed = old.mixed /\ job.text = found.text
          /\ job.status = "success"
      BY <2>5, <2>6 DEF ScanJobs, Statuses
    <2>8. TextFits(job)
      BY <1>2, <1>3, <2>4, <2>7 DEF TextFits
    <2>9. ScanSound(job)
      BY <1>2, <2>7, <2>8 DEF ScanSound
    <2>10. Goes(s, job)
      BY <1>1, <1>3, <1>6, <2>1, <2>3, <2>6 DEF Extract
    <2> QED  BY <1>4, <2>7, <2>9, <2>10, ScannerOnly
  <1> QED  BY <1>5, <1>6

LEMMA LookForSnapshotKeeps == ASSUME IntakeInv, NEW s \in Scanners, LookForSnapshot(s) PROVE IntakeInv'
  <1>1. PICK old : old = scanner[s]
    OBVIOUS
  <1>2. old \in ScanJobs /\ ScanSound(old) /\ old.pc = "look" /\ old.status = "success" /\ TextFits(old)
    BY <1>1 DEF LookForSnapshot, IsDoing, IntakeInv, IntakeTypes, ScanSound
  <1>3. PICK step \in {"open", "log"} : step = IF snapshot[old.text] = "absent" THEN "open" ELSE "log"
    OBVIOUS
  <1>4. PICK job : job = [old EXCEPT !.pc = step]
    OBVIOUS
  <1>5. /\ job \in ScanJobs /\ job.pc = step /\ job.left = old.left /\ job.since = old.since /\ job.path = old.path
        /\ job.ledger_cache = old.ledger_cache /\ job.sha = old.sha /\ job.mixed = old.mixed /\ job.text = old.text
        /\ job.status = old.status
    <2>1. step \in ScanSteps
      BY <1>3 DEF ScanSteps
    <2> QED  BY <1>2, <1>4, <2>1, ScanAt
  <1>6. TextFits(job) /\ (step = "log" => Stored(job.text))
    BY <1>2, <1>3, <1>5 DEF TextFits, Stored
  <1>7. ScanSound(job)
    BY <1>2, <1>3, <1>5, <1>6 DEF ScanSound
  <1>8. Goes(s, job)
    BY <1>1, <1>3, <1>4 DEF LookForSnapshot
  <1> QED  BY <1>5, <1>7, <1>8, ScannerOnly DEF LookForSnapshot, IsDoing

LEMMA StoreSnapshotKeeps == ASSUME IntakeInv, NEW s \in Scanners, StoreSnapshot(s) PROVE IntakeInv'
  <1>1. PICK old : old = scanner[s]
    OBVIOUS
  <1>2. /\ old \in ScanJobs /\ ScanSound(old) /\ old.pc \in {"open", "fill"} /\ old.status = "success"
        /\ TextFits(old) /\ old.text \in Snapshots
    BY <1>1 DEF StoreSnapshot, IsDoing, IntakeInv, IntakeTypes, ScanSound, TextFits
  <1>3. PICK step \in {"fill", "log"} : step = IF old.pc = "open" THEN "fill" ELSE "log"
    OBVIOUS
  <1>4. PICK content \in {"part", "whole"} : content = IF old.pc = "open" THEN "part" ELSE "whole"
    OBVIOUS
  <1>5. PICK job : job = [old EXCEPT !.pc = step]
    OBVIOUS
  <1>6. /\ job \in ScanJobs /\ job.pc = step /\ job.left = old.left /\ job.since = old.since /\ job.path = old.path
        /\ job.ledger_cache = old.ledger_cache /\ job.sha = old.sha /\ job.mixed = old.mixed /\ job.text = old.text
        /\ job.status = old.status
    <2>1. step \in ScanSteps
      BY <1>3 DEF ScanSteps
    <2> QED  BY <1>2, <1>5, <2>1, ScanAt
  <1>7. /\ Goes(s, job) /\ snapshot' = [snapshot EXCEPT ![old.text] = content]
        /\ UNCHANGED <<source, intake_events, intake_faults>>
    BY <1>1, <1>2, <1>3, <1>4, <1>5 DEF StoreSnapshot, IsDoing
  <1>8. snapshot \in [Snapshots -> {"absent", "part", "whole"}]
    BY DEF IntakeInv, IntakeTypes
  <1>9. /\ snapshot' \in [Snapshots -> {"absent", "part", "whole"}]
        /\ \A t \in Snapshots : snapshot'[t] = IF t = old.text THEN content ELSE snapshot[t]
    BY <1>2, <1>7, <1>8
  <1>10. \A t \in Snapshots : Stored(t) => Stored(t)'
    BY <1>9 DEF Stored
  <1>11. snapshot'[job.text] # "absent"
    BY <1>2, <1>6, <1>9
  <1>12. ScanSound(job)'
    <2>1. LogGrows
      BY <1>7 DEF LogGrows
    <2>2. ScanSound(old)'
      BY <1>2, <1>10, <2>1, ScanStays
    <2>3. TextFits(job)' /\ Stored(job.text)'
      BY <1>2, <1>6, <1>11 DEF TextFits, Stored
    <2>4. job.pc = "fill" \/ job.pc = "log"
      BY <1>3, <1>6
    <2> QED  BY <1>2, <1>6, <2>2, <2>3, <2>4 DEF ScanSound
  <1>13. PartsAreFilled'
    <2>1. scanner' = [scanner EXCEPT ![s] = job] /\ scanner \in [Scanners -> ScanJobs]
      BY <1>7 DEF Goes, IntakeInv, IntakeTypes
    <2>2. scanner'[s] = job /\ \A o \in Scanners \ {s} : scanner'[o] = scanner[o]
      BY <2>1
    <2> SUFFICES ASSUME intake_faults = 0, NEW t \in Snapshots, snapshot'[t] = "part"
                 PROVE  \E o \in Scanners : scanner'[o].pc = "fill" /\ scanner'[o].text = t
      BY <1>7 DEF PartsAreFilled, IsDoing
    <2>3. CASE t = old.text
      <3>1. old.pc = "open"
        BY <1>4, <1>9, <2>3
      <3> QED  BY <1>3, <1>6, <2>2, <2>3, <3>1
    <2>4. CASE t # old.text
      <3>1. snapshot[t] = "part"
        BY <1>9, <2>4
      <3>2. PICK o \in Scanners : scanner[o].pc = "fill" /\ scanner[o].text = t
        BY <3>1 DEF IntakeInv, PartsAreFilled, IsDoing
      <3>3. o # s
        BY <1>1, <2>4, <3>2
      <3> QED  BY <2>2, <3>2, <3>3
    <2> QED  BY <2>3, <2>4
  <1> QED  BY <1>6, <1>7, <1>9, <1>10, <1>12, <1>13, ScannerMoves DEF IntakeInv, IntakeTypes

LEMMA AppendKeeps == ASSUME IntakeInv, NEW s \in Scanners, append_event(s) PROVE IntakeInv'
  <1>1. PICK old : old = scanner[s]
    OBVIOUS
  <1>2. old \in ScanJobs /\ ScanSound(old) /\ old.pc = "log" /\ old.path \in Paths \ old.left
        /\ old.ledger_cache \in [Paths -> Hashes] /\ old.since \in Nat
    BY <1>1 DEF append_event, IsDoing, IntakeInv, IntakeTypes, ScanSound, ScanJobs
  <1>3. PICK cache : cache = CacheAfter(old)
    OBVIOUS
  <1>4. cache \in [Paths -> Hashes] /\ \A p \in old.left : cache[p] = old.ledger_cache[p]
    <2>1. old.sha \in Hashes /\ old.left \subseteq Paths
      BY <1>2 DEF ScanJobs
    <2> QED  BY <1>2, <1>3, <2>1 DEF CacheAfter
  <1>5. PICK a : a = [old EXCEPT !.pc = "next"]
    OBVIOUS
  <1>6. a \in ScanJobs /\ a.pc = "next" /\ a.left = old.left /\ a.since = old.since /\ a.path = old.path
    BY <1>2, <1>5, ScanAt DEF ScanSteps
  <1>7. PICK job : job = [a EXCEPT !.ledger_cache = cache]
    OBVIOUS
  <1>8. /\ job \in ScanJobs /\ job.pc = "next" /\ job.left = old.left /\ job.since = old.since /\ job.path = old.path
        /\ job.ledger_cache = cache
    BY <1>4, <1>6, <1>7 DEF ScanJobs
  <1>9. Goes(s, job)
    BY <1>1, <1>3, <1>5, <1>7 DEF append_event
  <1>10. PICK e : e = Event(old)
    OBVIOUS
  <1>11. /\ e \in Events /\ e.path = old.path /\ e.sha = old.sha /\ e.text = old.text /\ e.status = old.status
         /\ e.since = old.since /\ e.mixed = old.mixed
    BY <1>2, <1>10 DEF Event, Events, ScanJobs
  <1>12. intake_events' = Append(intake_events, e) /\ intake_events \in Seq(Events)
    BY <1>1, <1>10 DEF append_event, IntakeInv, IntakeTypes
  <1>13. UNCHANGED <<source, snapshot, intake_faults>> /\ ~IsDoing(s, "fill") /\ LogGrows
    BY <1>11, <1>12 DEF append_event, IsDoing, LogGrows
  <1>14. EventSound(e)
    BY <1>2, <1>11 DEF ScanSound, EventSound, TextFits
  <1>15. \A t \in Snapshots : Stored(t) => Stored(t)'
    BY <1>13 DEF Stored
  <1>16. EventSound(e)'
    BY <1>11, <1>13, <1>14, <1>15, EventStays
  <1>17. ScanSound(old)'
    BY <1>2, <1>13, <1>15, ScanStays
  <1>18. PassedSince(old.path, old.since)'
    <2>1. PICK n \in Nat : n = Len(intake_events)
      BY <1>12
    <2>2. Len(intake_events') = n + 1 /\ intake_events'[n + 1] = e
      BY <1>12, <2>1
    <2>3. old.since <= n
      BY <1>2, <2>1 DEF ScanSound
    <2>4. n + 1 \in (old.since + 1)..(n + 1)
      BY <1>2, <2>1, <2>3
    <2> QED  BY <1>11, <2>2, <2>4 DEF PassedSince
  <1>19. ScanSound(job)'
    <2>1. old.since <= Len(intake_events')
      BY <1>2, <1>17 DEF ScanSound
    <2>2. \A p \in old.left : cache[p] = NoDocument \/ LastAt(p, old.since, cache[p])'
      BY <1>2, <1>4, <1>17 DEF ScanSound
    <2>3. \A p \in Paths \ old.left : PassedSince(p, old.since)'
      BY <1>2, <1>17, <1>18 DEF ScanSound
    <2> QED  BY <1>4, <1>8, <2>1, <2>2, <2>3 DEF ScanSound
  <1>20. PartsAreFilled'
    BY <1>9, <1>13, PartsStay
  <1>21. \E x \in Events : intake_events' = Append(intake_events, x) /\ EventSound(x)'
    BY <1>11, <1>12, <1>16
  <1> QED  BY <1>8, <1>9, <1>13, <1>15, <1>19, <1>20, <1>21, ScannerMoves DEF IntakeInv, IntakeTypes

LEMMA AppendFailsKeeps == ASSUME IntakeInv, NEW s \in Scanners, AppendFails(s) PROVE IntakeInv'
  <1>1. intake_faults \in Nat /\ intake_faults' = intake_faults + 1
    BY DEF AppendFails, IntakeInv, IntakeTypes
  <1>2. intake_faults' \in Nat /\ intake_faults' # 0
    BY <1>1
  <1>3. UNCHANGED <<source, snapshot, intake_events>> /\ LogGrows
    BY DEF AppendFails, LogGrows
  <1>4. PICK old : old = scanner[s]
    OBVIOUS
  <1>5. old \in ScanJobs /\ ScanSound(old) /\ old.pc = "log"
    BY <1>4 DEF AppendFails, IsDoing, IntakeInv, IntakeTypes
  <1>6. CASE Goes(s, IdleScanner)
    BY <1>2, <1>3, <1>6, ScanEnds
  <1>7. CASE Goes(s, [old EXCEPT !.status = "error", !.sha = NoDocument, !.text = ""])
    <2>1. PICK a : a = [old EXCEPT !.status = "error"]
      OBVIOUS
    <2>2. /\ a \in ScanJobs /\ a.pc = "log" /\ a.left = old.left /\ a.since = old.since /\ a.path = old.path
          /\ a.ledger_cache = old.ledger_cache /\ a.status = "error"
      BY <1>5, <2>1 DEF ScanJobs, Statuses
    <2>3. PICK b : b = [a EXCEPT !.sha = NoDocument]
      OBVIOUS
    <2>4. /\ b \in ScanJobs /\ b.pc = "log" /\ b.left = old.left /\ b.since = old.since /\ b.path = old.path
          /\ b.ledger_cache = old.ledger_cache /\ b.status = "error"
      BY <2>2, <2>3 DEF ScanJobs, Hashes
    <2>5. PICK job : job = [b EXCEPT !.text = ""]
      OBVIOUS
    <2>6. /\ job \in ScanJobs /\ job.pc = "log" /\ job.left = old.left /\ job.since = old.since /\ job.path = old.path
          /\ job.ledger_cache = old.ledger_cache /\ job.status = "error"
      BY <2>4, <2>5 DEF ScanJobs, Texts
    <2>7. ScanSound(job)
      BY <1>5, <2>6 DEF ScanSound
    <2>8. Goes(s, job)
      BY <1>7, <2>1, <2>3, <2>5
    <2>9. PartsAreFilled'
      BY <1>2 DEF PartsAreFilled
    <2>10. ScanSound(job)'
      BY <1>3, <2>6, <2>7, ScanStays DEF Stored
    <2> QED  BY <1>2, <1>3, <2>6, <2>8, <2>9, <2>10, ScannerMoves DEF Stored, IntakeInv, IntakeTypes
  <1> QED  BY <1>4, <1>6, <1>7 DEF AppendFails

LEMMA RewriteSourceKeeps == ASSUME IntakeInv, NEW p \in Paths, NEW d \in Documents, RewriteSource(p, d) PROVE IntakeInv'
  <1>1. PICK jobs : jobs = scanner
    OBVIOUS
  <1>2. jobs \in [Scanners -> ScanJobs] /\ \A s \in Scanners : ScanSound(jobs[s])
    BY <1>1 DEF IntakeInv, IntakeTypes
  <1>3. UNCHANGED <<snapshot, intake_events, intake_faults>> /\ LogGrows /\ source' = [source EXCEPT ![p] = d]
        /\ source \in [Paths -> Documents]
    BY DEF RewriteSource, LogGrows, IntakeInv, IntakeTypes
  <1>4. source' \in [Paths -> Documents] /\ \A q \in Paths \ {p} : source'[q] = source[q]
    BY <1>3
  <1>5. PICK after : after = scanner'
    OBVIOUS
  <1>6. after = [s \in Scanners |-> [jobs[s] EXCEPT !.mixed = @ \/ (jobs[s].pc = "extract" /\ jobs[s].path = p)]]
    BY <1>1, <1>5 DEF RewriteSource, IsDoing
  <1>7. ASSUME NEW s \in Scanners
        PROVE  /\ after[s] \in ScanJobs /\ ScanSound(after[s])' /\ after[s].pc = jobs[s].pc /\ after[s].text = jobs[s].text
    <2>1. PICK old \in ScanJobs : old = jobs[s]
      BY <1>2
    <2>2. PICK mixed \in BOOLEAN : mixed = (old.mixed \/ (old.pc = "extract" /\ old.path = p))
      <3>1. (old.mixed \/ (old.pc = "extract" /\ old.path = p)) \in BOOLEAN
        OBVIOUS
      <3> QED  BY <3>1
    <2>3. after[s] = [old EXCEPT !.mixed = mixed]
      BY <1>6, <2>1, <2>2
    <2>4. /\ after[s] \in ScanJobs /\ after[s].pc = old.pc /\ after[s].left = old.left /\ after[s].since = old.since
          /\ after[s].ledger_cache = old.ledger_cache /\ after[s].path = old.path /\ after[s].sha = old.sha
          /\ after[s].text = old.text /\ after[s].status = old.status /\ after[s].mixed = mixed
      BY <2>1, <2>2, <2>3 DEF ScanJobs
    <2>5. PICK new \in ScanJobs : new = after[s]
      BY <2>4
    <2>6. ScanSound(old)
      BY <1>2, <2>1
    <2>7. old.mixed => mixed
      BY <2>2
    <2>8. ScanSound(new)
      BY <2>4, <2>5, <2>6, <2>7 DEF ScanSound, TextFits
    <2>9. new.pc = "extract" => new.mixed \/ source'[new.path] = source[new.path]
      <3> SUFFICES ASSUME new.pc = "extract", ~new.mixed PROVE source'[new.path] = source[new.path]
        OBVIOUS
      <3>1. new.path \in Paths /\ new.path # p
        BY <2>2, <2>4, <2>5, <2>8 DEF ScanSound
      <3> QED  BY <1>4, <3>1
    <2>10. ScanSound(new)'
      BY <1>3, <2>8, <2>9, ScanStays DEF Stored
    <2> QED  BY <2>1, <2>4, <2>5, <2>10
  <1>8. IntakeTypes'
    <2>1. scanner' \in [Scanners -> ScanJobs]
      BY <1>5, <1>6, <1>7
    <2> QED  BY <1>3, <1>4, <2>1 DEF IntakeInv, IntakeTypes
  <1>9. PartsAreFilled'
    BY <1>1, <1>3, <1>5, <1>7 DEF IntakeInv, PartsAreFilled, IsDoing
  <1>10. (\A i \in DOMAIN intake_events : EventSound(intake_events[i]))'
    BY <1>3, LedgerSound DEF Stored
  <1>11. \A s \in Scanners : ScanSound(after[s])'
    BY <1>7
  <1> QED  BY <1>5, <1>8, <1>9, <1>10, <1>11 DEF IntakeInv

LEMMA OperatorIntakeKeeps == ASSUME IntakeInv, NEW p \in Paths, OperatorIntake(p) PROVE IntakeInv'
  <1>1. UNCHANGED <<source, snapshot, scanner, intake_faults>> /\ \A t \in Snapshots : Stored(t) => Stored(t)'
    BY DEF OperatorIntake, Stored
  <1>2. \/ intake_events' = intake_events
        \/ \E e \in Events : intake_events' = Append(intake_events, e) /\ EventSound(e)'
    <2> SUFFICES ASSUME intake_events' # intake_events
                 PROVE  \E e \in Events : intake_events' = Append(intake_events, e) /\ EventSound(e)'
      OBVIOUS
    <2>1. PICK job : job = [IdleScanner EXCEPT !.path = p, !.sha = OperatorHash, !.status = "success"]
      OBVIOUS
    <2>2. /\ job.path = p /\ job.sha = OperatorHash /\ job.text = "" /\ job.status = "success" /\ job.since = 0
          /\ job.mixed = FALSE
      BY <2>1 DEF IdleScanner
    <2>3. PICK e : e = Event(job)
      OBVIOUS
    <2>4. /\ e \in Events /\ e.sha = OperatorHash /\ e.status = "success" /\ e.since = 0
      <3>1. e = [path |-> p, sha |-> OperatorHash, text |-> "", status |-> "success", since |-> 0, mixed |-> FALSE]
        BY <2>2, <2>3 DEF Event
      <3>2. OperatorHash \in Hashes /\ "" \in Texts /\ "success" \in Statuses
        BY DEF Hashes, Texts, Statuses
      <3> QED  BY <3>1, <3>2 DEF Events
    <2>5. intake_events' = Append(intake_events, e)
      BY <2>1, <2>3 DEF OperatorIntake
    <2>6. Len(intake_events') \in Nat
      BY <2>4, <2>5 DEF IntakeInv, IntakeTypes
    <2>7. EventSound(e)'
      BY <2>4, <2>6 DEF EventSound
    <2> QED  BY <2>4, <2>5, <2>7
  <1>3. LogGrows /\ intake_events' \in Seq(Events) /\ (\A i \in DOMAIN intake_events : EventSound(intake_events[i]))'
    BY <1>1, <1>2, LedgerSound
  <1>4. IntakeTypes' /\ PartsAreFilled'
    BY <1>1, <1>3 DEF IntakeInv, IntakeTypes, PartsAreFilled, IsDoing
  <1>5. PICK jobs : jobs = scanner
    OBVIOUS
  <1>6. \A s \in Scanners : jobs[s] \in ScanJobs /\ ScanSound(jobs[s])
    BY <1>5 DEF IntakeInv, IntakeTypes
  <1>7. \A s \in Scanners : ScanSound(jobs[s])'
    BY <1>1, <1>3, <1>6, ScanStays
  <1> QED  BY <1>1, <1>3, <1>4, <1>5, <1>7 DEF IntakeInv

LEMMA IntakeStepInv == IntakeInv /\ [IntakeNext]_intake_vars => IntakeInv'
  <1> SUFFICES ASSUME IntakeInv, [IntakeNext]_intake_vars PROVE IntakeInv'
    OBVIOUS
  <1>1. ASSUME NEW s \in Scanners,
               \/ StartScan(s) \/ FinishScan(s) \/ (\E p \in Paths : TakeFile(s, p))
               \/ Extract(s) \/ LookForSnapshot(s) \/ StoreSnapshot(s) \/ append_event(s)
               \/ AppendFails(s) \/ ScanKilled(s)
        PROVE  IntakeInv'
    BY <1>1, StartScanKeeps, FinishScanKeeps, TakeFileKeeps, ExtractKeeps, LookForSnapshotKeeps, StoreSnapshotKeeps,
       AppendKeeps, AppendFailsKeeps, ScanKilledKeeps
  <1>2. ASSUME NEW p \in Paths, OperatorIntake(p) \/ \E d \in Documents \ {source[p]} : RewriteSource(p, d)
        PROVE  IntakeInv'
    BY <1>2, OperatorIntakeKeeps, RewriteSourceKeeps
  <1>3. CASE UNCHANGED intake_vars
    <2>1. UNCHANGED <<source, snapshot, intake_events, scanner, intake_faults>>
      BY <1>3 DEF intake_vars
    <2>2. IntakeTypes' /\ PartsAreFilled'
      BY <2>1 DEF IntakeInv, IntakeTypes, PartsAreFilled, IsDoing
    <2>3. LogGrows /\ \A t \in Snapshots : Stored(t) => Stored(t)'
      BY <2>1 DEF LogGrows, Stored
    <2>4. (\A i \in DOMAIN intake_events : EventSound(intake_events[i]))'
      BY <2>1, <2>3, LedgerSound
    <2>5. PICK jobs : jobs = scanner
      OBVIOUS
    <2>6. \A s \in Scanners : jobs[s] \in ScanJobs /\ ScanSound(jobs[s])
      BY <2>5 DEF IntakeInv, IntakeTypes
    <2>7. \A s \in Scanners : ScanSound(jobs[s])'
      BY <2>1, <2>3, <2>6, ScanStays
    <2> QED  BY <2>1, <2>2, <2>4, <2>5, <2>7 DEF IntakeInv
  <1> QED  BY <1>1, <1>2, <1>3 DEF IntakeNext

LEMMA IntakeInvHolds == IntakeSpec => []IntakeInv
  BY IntakeInitInv, IntakeStepInv, PTL DEF IntakeSpec

(* The types of the run.                                                    *)
THEOREM IntakeTypesHold == IntakeSpec => []IntakeTypeOK
  <1>1. IntakeInv => IntakeTypeOK
    <2> SUFFICES ASSUME IntakeInv PROVE IntakeTypeOK
      OBVIOUS
    <2>1. \A i \in DOMAIN intake_events : intake_events[i] \in Events
      BY DEF IntakeInv, IntakeTypes
    <2>2. \A s \in Scanners : scanner[s] \in ScanJobs
      BY DEF IntakeInv, IntakeTypes
    <2> QED  BY <2>1, <2>2 DEF IntakeInv, IntakeTypes, IntakeTypeOK, Events, ScanJobs
  <1> QED  BY <1>1, IntakeInvHolds, PTL

(* For any number of overlapping scans, files and failures: what the ledger *)
(* says of a file is true of the store and of the scan's view of it.        *)
THEOREM IngestedStaysStored == IntakeSpec => []IngestedIsStored
  <1>1. IntakeInv => IngestedIsStored
    <2> SUFFICES ASSUME IntakeInv PROVE IngestedIsStored
      OBVIOUS
    <2>1. intake_faults \in Nat
      BY DEF IntakeInv, IntakeTypes
    <2>2. ASSUME NEW t \in Snapshots, Stored(t)
          PROVE  \/ snapshot[t] = "whole"
                 \/ /\ snapshot[t] = "part"
                    /\ intake_faults > 0 \/ \E s \in Scanners : IsDoing(s, "fill") /\ scanner[s].text = t
      <3>1. snapshot[t] \in {"part", "whole"}
        BY <2>2 DEF Stored, IntakeInv, IntakeTypes
      <3>2. intake_faults = 0 \/ intake_faults > 0
        BY <2>1
      <3> QED  BY <3>1, <3>2 DEF IntakeInv, PartsAreFilled
    <2>3. ASSUME NEW i \in DOMAIN intake_events
          PROVE  LET e == intake_events[i]
                 IN  /\ e.status = "success" /\ e.sha # OperatorHash =>
                            /\ \/ snapshot[e.text] = "whole"
                               \/ /\ snapshot[e.text] = "part"
                                  /\ intake_faults > 0 \/ \E s \in Scanners : IsDoing(s, "fill") /\ scanner[s].text = e.text
                            /\ e.text = e.sha.text \/ e.mixed
                     /\ e.status = "skipped_unchanged" =>
                            \E j \in Successes(e.path) : /\ j <= e.since /\ intake_events[j].sha = e.sha
                                                         /\ \A k \in Successes(e.path) : k <= j \/ k > e.since
      <3>1. EventSound(intake_events[i])
        BY DEF IntakeInv
      <3> QED  BY <2>2, <3>1 DEF EventSound, TextFits, LastAt
    <2>4. ASSUME NEW s \in Scanners, ~IsDoing(s, "idle"), NEW p \in Paths \ (scanner[s].left \cup {scanner[s].path})
          PROVE  \E i \in (scanner[s].since + 1)..Len(intake_events) : intake_events[i].path = p
      BY <2>4 DEF IntakeInv, ScanSound, IsDoing, PassedSince
    <2> QED  BY <2>3, <2>4 DEF IngestedIsStored
  <1> QED  BY <1>1, IntakeInvHolds, PTL

----------------------------------------------------------------------------
(* The shell.  What a command carries, what the plan file seals and what    *)
(* the log shows of a simulation was approved; every simulation that has    *)
(* yet to end has its start in the log.                                     *)
ShellTypes == {"proposal_reviewed", "simulation_started", "simulation_finished"}
ShellEvents == [type : ShellTypes, index : Nat, proposal : Proposals, prev : Nat]
ShellSteps == {"idle", "index", "append", "seal", "snapshot"}
ShellJobs == [pc : ShellSteps, proposal : Proposals \cup {NoProposal}, type : ShellTypes \cup {"none"}, index : Nat]

ShellTypesInv ==
    /\ proposal_file \in Proposals
    /\ shell_log \in Seq(ShellEvents)
    /\ shell \in [Shells -> ShellJobs]
    /\ reviewed \subseteq Proposals /\ snapshots \subseteq Proposals

Approved(p) ==
    /\ evaluate_policy(p).decision # "deny"
    /\ confirmation_required(effective_risk(p)) => p \in reviewed

ShellSound(job) ==
    /\ job.pc # "idle" => job.proposal \in Proposals
    /\ job.pc \in {"index", "append"} => job.type \in ShellTypes
    /\ job.pc = "snapshot" => job.type = "simulation_started"
    /\ job.pc = "seal" \/ job.type \in {"simulation_started", "simulation_finished"} => Approved(job.proposal)

PlanSound ==
    \/ plan_file = NoPlanFile
    \/ /\ plan_file \in [body : Proposals, sealed : Proposals]
       /\ Approved(plan_file.sealed)

LineSound(i) ==
    /\ shell_log[i].index = i - 1 /\ shell_log[i].prev = i - 1
    /\ shell_log[i].type # "proposal_reviewed" => Approved(shell_log[i].proposal)

(* Simulations of p whose end is still to be appended.                      *)
Unfinished(p) == {s \in Shells : shell[s].type = "simulation_finished" /\ shell[s].proposal = p}

StartedFirst ==
    \A p \in Proposals :
        /\ \A n \in DOMAIN shell_log : OfPlan("simulation_finished", p, n) <= OfPlan("simulation_started", p, n)
        /\ OfPlan("simulation_finished", p, Len(shell_log)) + Cardinality(Unfinished(p))
               <= OfPlan("simulation_started", p, Len(shell_log))

ShellInv ==
    /\ ShellTypesInv /\ PlanSound /\ StartedFirst
    /\ \A s \in Shells : ShellSound(shell[s])
    /\ \A i \in DOMAIN shell_log : LineSound(i)

LEMMA ShellIdleTyped ==
    /\ ShellIdle \in ShellJobs /\ ShellIdle.pc = "idle" /\ ShellIdle.type = "none" /\ ShellIdle.index = 0
    /\ ShellIdle.proposal = NoProposal
  BY DEF ShellIdle, ShellJobs, ShellSteps

(* A shell between two commands.                                             *)
LEMMA IdleIsSound == ShellSound(ShellIdle)
  BY ShellIdleTyped DEF ShellSound

LEMMA OfPlanTyped == ASSUME NEW type, NEW p, NEW n \in Nat PROVE OfPlan(type, p, n) \in Nat
  <1>1. PICK hits : hits = {i \in 1..n : shell_log[i].type = type /\ shell_log[i].proposal = p}
    OBVIOUS
  <1>2. IsFiniteSet(1..n) /\ hits \subseteq 1..n
    BY <1>1, FS_Interval
  <1>3. IsFiniteSet(hits)
    BY <1>2, FS_Subset
  <1> QED  BY <1>1, <1>3, FS_CardinalityType DEF OfPlan

LEMMA UnfinishedTyped == ASSUME NEW p PROVE IsFiniteSet(Unfinished(p)) /\ Cardinality(Unfinished(p)) \in Nat
  <1>1. Unfinished(p) \subseteq Shells
    BY DEF Unfinished
  <1>2. IsFiniteSet(Unfinished(p))
    BY <1>1, ShellAssumption, FS_Subset
  <1> QED  BY <1>2, FS_CardinalityType

(* What an append adds to the counts.                                       *)
LEMMA OfPlanGrows ==
    ASSUME shell_log \in Seq(ShellEvents), NEW e \in ShellEvents, shell_log' = Append(shell_log, e),
           NEW n \in Nat, n = Len(shell_log), NEW type, NEW p
    PROVE  OfPlan(type, p, n + 1)' = OfPlan(type, p, n) + (IF e.type = type /\ e.proposal = p THEN 1 ELSE 0)
  <1>1. PICK old \in Seq(ShellEvents) : old = shell_log
    OBVIOUS
  <1>2. PICK new : new = shell_log'
    OBVIOUS
  <1>3. new[n + 1] = e /\ \A i \in 1..n : new[i] = old[i]
    BY <1>1, <1>2
  <1> DEFINE Was(k) == {i \in 1..k : old[i].type = type /\ old[i].proposal = p}
             Is(k) == {i \in 1..k : new[i].type = type /\ new[i].proposal = p}
  <1>4. \A k \in Nat : OfPlan(type, p, k) = Cardinality(Was(k)) /\ OfPlan(type, p, k)' = Cardinality(Is(k))
    BY <1>1, <1>2 DEF OfPlan
  <1>5. \A k \in 0..n : k \in Nat /\ Is(k) = Was(k)
    BY <1>3
  <1>6. IsFiniteSet(Was(n)) /\ Cardinality(Was(n)) \in Nat
    <2>1. IsFiniteSet(1..n) /\ Was(n) \subseteq 1..n
      BY FS_Interval
    <2>2. IsFiniteSet(Was(n))
      BY <2>1, FS_Subset
    <2> QED  BY <2>2, FS_CardinalityType
  <1>7. Cardinality(Is(n + 1)) = Cardinality(Was(n)) + (IF e.type = type /\ e.proposal = p THEN 1 ELSE 0)
    <2>1. \A i \in 1..(n + 1) : i \in 1..n \/ i = n + 1
      OBVIOUS
    <2>2. CASE e.type = type /\ e.proposal = p
      <3>1. Is(n + 1) = Was(n) \cup {n + 1} /\ n + 1 \notin Was(n)
        BY <1>3, <2>1, <2>2
      <3>2. Cardinality(Was(n) \cup {n + 1}) = Cardinality(Was(n)) + 1
        <4> HIDE DEF Was
        <4> QED  BY <1>6, <3>1, FS_AddElement
      <3> QED  BY <2>2, <3>1, <3>2
    <2>3. CASE ~(e.type = type /\ e.proposal = p)
      <3>1. Is(n + 1) = Was(n)
        BY <1>3, <2>1, <2>3
      <3>2. Cardinality(Is(n + 1)) = Cardinality(Was(n)) /\ Cardinality(Was(n)) \in Nat
        BY <1>6, <3>1
      <3> HIDE DEF Was, Is
      <3> QED  BY <2>3, <3>2
    <2> QED  BY <2>2, <2>3
  <1>8. n \in 0..n /\ n + 1 \in Nat
    OBVIOUS
  <1> QED
    <2> HIDE DEF Was, Is
    <2> QED  BY <1>4, <1>5, <1>7, <1>8

(* The counts of a plan over a log with one more line.                       *)
LEMMA OfPlanStays ==
    ASSUME shell_log \in Seq(ShellEvents), NEW e \in ShellEvents, shell_log' = Append(shell_log, e),
           NEW n \in Nat, n = Len(shell_log), NEW type, NEW p, NEW k \in 0..n
    PROVE  OfPlan(type, p, k)' = OfPlan(type, p, k)
  <1>1. PICK old, new : old = shell_log /\ new = shell_log'
    OBVIOUS
  <1>2. \A i \in 1..k : new[i] = old[i]
    BY <1>1
  <1>3. {i \in 1..k : new[i].type = type /\ new[i].proposal = p} = {i \in 1..k : old[i].type = type /\ old[i].proposal = p}
    BY <1>2
  <1> QED  BY <1>1, <1>3 DEF OfPlan

LEMMA ShellInitInv == ShellInit => ShellInv
  <1> SUFFICES ASSUME ShellInit PROVE ShellInv
    OBVIOUS
  <1>1. \A s \in Shells : shell[s] = ShellIdle
    BY DEF ShellInit
  <1>2. ShellTypesInv
    <2>1. shell \in [Shells -> ShellJobs]
      BY ShellIdleTyped DEF ShellInit
    <2> QED  BY <2>1 DEF ShellInit, ShellTypesInv
  <1>3. \A s \in Shells : ShellSound(shell[s])
    BY <1>1, IdleIsSound
  <1>4. DOMAIN shell_log = {} /\ Len(shell_log) = 0
    BY DEF ShellInit
  <1>5. ASSUME NEW p \in Proposals
        PROVE  OfPlan("simulation_finished", p, Len(shell_log)) + Cardinality(Unfinished(p))
                   <= OfPlan("simulation_started", p, Len(shell_log))
    <2>1. Unfinished(p) = {}
      BY <1>1, ShellIdleTyped DEF Unfinished
    <2>2. \A type : OfPlan(type, p, 0) = 0
      <3>1. \A type : {i \in 1..0 : shell_log[i].type = type /\ shell_log[i].proposal = p} = {}
        OBVIOUS
      <3> QED  BY <3>1, FS_EmptySet DEF OfPlan
    <2>3. Cardinality(Unfinished(p)) = 0
      BY <2>1, FS_EmptySet
    <2> QED  BY <1>4, <2>2, <2>3
  <1> QED  BY <1>2, <1>3, <1>4, <1>5 DEF ShellInv, ShellInit, PlanSound, StartedFirst

(* A step that leaves the log as it is.                                     *)
LEMMA ApprovalsStay ==
    ASSUME reviewed \subseteq reviewed'
    PROVE  /\ \A p : Approved(p) => Approved(p)'
           /\ \A job : ShellSound(job) => ShellSound(job)'
  BY DEF Approved, ShellSound

(* A step of one command keeps the invariant when that command stays sound.  *)
LEMMA CommandMoves ==
    ASSUME ShellInv, NEW s \in Shells, NEW job \in ShellJobs, shell' = [shell EXCEPT ![s] = job], ShellSound(job)',
           shell_log' = shell_log, reviewed \subseteq reviewed', reviewed' \subseteq Proposals, snapshots' \subseteq Proposals,
           proposal_file' \in Proposals, PlanSound',
           job.type = "simulation_finished" => shell[s].type = job.type /\ shell[s].proposal = job.proposal
    PROVE  ShellInv'
  <1>1. shell \in [Shells -> ShellJobs]
    BY DEF ShellInv, ShellTypesInv
  <1>2. shell' \in [Shells -> ShellJobs] /\ shell'[s] = job /\ \A o \in Shells \ {s} : shell'[o] = shell[o]
    BY <1>1
  <1>3. ShellTypesInv'
    BY <1>2 DEF ShellInv, ShellTypesInv
  <1>4. PICK old : old = shell
    OBVIOUS
  <1>5. \A o \in Shells : ShellSound(old[o])'
    BY <1>4, ApprovalsStay DEF ShellInv
  <1>6. PICK new : new = shell'
    OBVIOUS
  <1>7. \A o \in Shells : ShellSound(new[o])'
    BY <1>2, <1>4, <1>5, <1>6
  <1>8. \A i \in DOMAIN shell_log : LineSound(i)'
    BY ApprovalsStay DEF ShellInv, LineSound
  <1>9. ASSUME NEW p \in Proposals
        PROVE  /\ \A n \in DOMAIN shell_log : OfPlan("simulation_finished", p, n)' <= OfPlan("simulation_started", p, n)'
               /\ OfPlan("simulation_finished", p, Len(shell_log))' + Cardinality(Unfinished(p))'
                      <= OfPlan("simulation_started", p, Len(shell_log))'
    <2>1. PICK n \in Nat : n = Len(shell_log)
      BY DEF ShellInv, ShellTypesInv
    <2>2. \A type, k : OfPlan(type, p, k)' = OfPlan(type, p, k)
      BY DEF OfPlan
    <2>3. Unfinished(p)' \subseteq Unfinished(p)
      BY <1>2 DEF Unfinished
    <2>4. PICK was, is : was = Unfinished(p) /\ is = Unfinished(p)'
      OBVIOUS
    <2>5. IsFiniteSet(was) /\ is \subseteq was
      BY <2>3, <2>4, UnfinishedTyped
    <2>6. Cardinality(is) \in Nat /\ Cardinality(was) \in Nat /\ Cardinality(is) <= Cardinality(was)
      BY <2>5, FS_Subset, FS_CardinalityType
    <2>7. PICK f, g \in Nat : f = OfPlan("simulation_finished", p, n) /\ g = OfPlan("simulation_started", p, n)
      BY OfPlanTyped
    <2>8. f + Cardinality(was) <= g
      BY <2>1, <2>4, <2>7 DEF ShellInv, StartedFirst
    <2>9. f + Cardinality(is) <= g
      BY <2>6, <2>7, <2>8
    <2>10. Cardinality(is) = Cardinality(Unfinished(p))'
      BY <2>4
    <2>11. \A k \in DOMAIN shell_log : OfPlan("simulation_finished", p, k)' <= OfPlan("simulation_started", p, k)'
      BY <2>2 DEF ShellInv, StartedFirst
    <2>12. /\ OfPlan("simulation_finished", p, Len(shell_log))' = f /\ OfPlan("simulation_started", p, Len(shell_log))' = g
      <3>1. Len(shell_log') = n
        BY <2>1
      <3> QED  BY <2>2, <2>7, <3>1
    <2> QED  BY <2>9, <2>10, <2>11, <2>12
  <1>10. StartedFirst'
    BY <1>9 DEF StartedFirst
  <1> QED  BY <1>3, <1>6, <1>7, <1>8, <1>10 DEF ShellInv

LEMMA ReviewStartKeeps == ASSUME ShellInv, NEW s \in Shells, ReviewStart(s) PROVE ShellInv'
  <1>1. proposal_file \in Proposals /\ reviewed \subseteq Proposals /\ snapshots \subseteq Proposals
    BY DEF ShellInv, ShellTypesInv
  <1>2. /\ UNCHANGED <<proposal_file, plan_file, snapshots, shell_log>>
        /\ reviewed' = reviewed \/ reviewed' = reviewed \cup {proposal_file}
    BY DEF ReviewStart, ShellStart, file_vars
  <1>3. PlanSound'
    BY <1>2, ApprovalsStay DEF ShellInv, PlanSound
  <1>4. CASE shell' = [shell EXCEPT ![s] = ShellIdle]
    <2>1. ShellSound(ShellIdle)'
      BY <1>2, IdleIsSound, ApprovalsStay
    <2>2. PICK job \in ShellJobs : job = ShellIdle
      BY ShellIdleTyped
    <2>3. ShellSound(job)' /\ job.type # "simulation_finished"
      BY <2>2, IdleIsSound, ShellIdleTyped, ApprovalsStay, <1>2
    <2> QED  BY <1>1, <1>2, <1>3, <1>4, <2>2, <2>3, CommandMoves
  <1>5. CASE shell' = [shell EXCEPT ![s] = [ShellIdle EXCEPT !.pc = "index", !.proposal = proposal_file,
                                                             !.type = "proposal_reviewed"]]
    <2>1. PICK a : a = [ShellIdle EXCEPT !.pc = "index"]
      OBVIOUS
    <2>2. a \in ShellJobs /\ a.pc = "index"
      BY <2>1, ShellIdleTyped DEF ShellJobs, ShellSteps
    <2>3. PICK b : b = [a EXCEPT !.proposal = proposal_file]
      OBVIOUS
    <2>4. b \in ShellJobs /\ b.pc = "index" /\ b.proposal = proposal_file
      BY <1>1, <2>2, <2>3 DEF ShellJobs
    <2>5. PICK job : job = [b EXCEPT !.type = "proposal_reviewed"]
      OBVIOUS
    <2>6. job \in ShellJobs /\ job.pc = "index" /\ job.proposal = proposal_file /\ job.type = "proposal_reviewed"
      BY <2>4, <2>5 DEF ShellJobs, ShellTypes
    <2>7. ShellSound(job)
      BY <1>1, <2>6 DEF ShellSound, ShellTypes
    <2>8. ShellSound(job)'
      BY <1>2, <2>7, ApprovalsStay
    <2>9. shell' = [shell EXCEPT ![s] = job]
      BY <1>5, <2>1, <2>3, <2>5
    <2> QED  BY <1>1, <1>2, <1>3, <2>6, <2>8, <2>9, CommandMoves
  <1> QED  BY <1>4, <1>5 DEF ReviewStart, ShellStart

(* A command that returns, or moves on with the same proposal.              *)
LEMMA ShellReturnKeeps ==
    ASSUME ShellInv, NEW s \in Shells, ShellReturn(s),
           UNCHANGED <<proposal_file, snapshots, shell_log, reviewed>>, PlanSound'
    PROVE  ShellInv'
  <1>1. PICK job \in ShellJobs : job = ShellIdle
    BY ShellIdleTyped
  <1>2. ShellSound(job)' /\ job.type # "simulation_finished"
    BY <1>1, IdleIsSound, ShellIdleTyped, ApprovalsStay
  <1> QED  BY <1>1, <1>2, CommandMoves DEF ShellReturn, ShellGoto, ShellInv, ShellTypesInv

LEMMA CountEventsKeeps == ASSUME ShellInv, NEW s \in Shells, CountEvents(s) PROVE ShellInv'
  <1>1. UNCHANGED <<proposal_file, plan_file, snapshots, shell_log, reviewed>>
    BY DEF CountEvents, file_vars
  <1>2. PlanSound'
    BY <1>1, ApprovalsStay DEF ShellInv, PlanSound
  <1>3. CASE torn
    BY <1>1, <1>2, <1>3, ShellReturnKeeps DEF CountEvents
  <1>4. CASE ~torn
    <2>1. PICK old : old = shell[s]
      OBVIOUS
    <2>2. old \in ShellJobs /\ old.pc = "index" /\ ShellSound(old)
      BY <2>1 DEF CountEvents, ShellInv, ShellTypesInv
    <2>3. PICK n \in Nat : n = Len(shell_log)
      BY DEF ShellInv, ShellTypesInv
    <2>4. PICK a : a = [old EXCEPT !.pc = "append"]
      OBVIOUS
    <2>5. a \in ShellJobs /\ a.pc = "append" /\ a.proposal = old.proposal /\ a.type = old.type
      BY <2>2, <2>4 DEF ShellJobs, ShellSteps
    <2>6. PICK job : job = [a EXCEPT !.index = n]
      OBVIOUS
    <2>7. job \in ShellJobs /\ job.pc = "append" /\ job.proposal = old.proposal /\ job.type = old.type
      BY <2>3, <2>5, <2>6 DEF ShellJobs
    <2>8. ShellSound(job)'
      BY <1>1, <2>2, <2>7, ApprovalsStay DEF ShellSound
    <2>9. shell' = [shell EXCEPT ![s] = job]
      BY <1>4, <2>1, <2>3, <2>4, <2>6 DEF CountEvents, ShellGoto
    <2> QED  BY <1>1, <1>2, <2>1, <2>7, <2>8, <2>9, CommandMoves DEF ShellInv, ShellTypesInv
  <1> QED  BY <1>3, <1>4

LEMMA ApproveStartKeeps ==
    ASSUME ShellInv, NEW s \in Shells, NEW supplied \in reviewed \cup {NoProposal}, ApproveStart(s, supplied)
    PROVE  ShellInv'
  <1>1. UNCHANGED <<proposal_file, plan_file, snapshots, shell_log, reviewed>> /\ proposal_file \in Proposals
    BY DEF ApproveStart, file_vars, ShellInv, ShellTypesInv
  <1>2. PlanSound'
    BY <1>1, ApprovalsStay DEF ShellInv, PlanSound
  <1>3. Approved(proposal_file)
    BY DEF ApproveStart, confirmed, Approved
  <1>4. PICK a : a = [ShellIdle EXCEPT !.pc = "seal"]
    OBVIOUS
  <1>5. a \in ShellJobs /\ a.pc = "seal" /\ a.type = "none"
    BY <1>4, ShellIdleTyped DEF ShellJobs, ShellSteps
  <1>6. PICK job : job = [a EXCEPT !.proposal = proposal_file]
    OBVIOUS
  <1>7. job \in ShellJobs /\ job.pc = "seal" /\ job.proposal = proposal_file /\ job.type = "none"
    BY <1>1, <1>5, <1>6 DEF ShellJobs
  <1>8. ShellSound(job)
    BY <1>1, <1>3, <1>7 DEF ShellSound
  <1>9. ShellSound(job)'
    BY <1>1, <1>8, ApprovalsStay
  <1>10. shell' = [shell EXCEPT ![s] = job]
    BY <1>4, <1>6 DEF ApproveStart, ShellStart
  <1> QED  BY <1>1, <1>2, <1>7, <1>9, <1>10, CommandMoves DEF ShellInv, ShellTypesInv

LEMMA SealPlanKeeps == ASSUME ShellInv, NEW s \in Shells, SealPlan(s) PROVE ShellInv'
  <1>1. PICK old : old = shell[s]
    OBVIOUS
  <1>2. old.proposal \in Proposals /\ Approved(old.proposal)
    BY <1>1 DEF SealPlan, ShellInv, ShellSound
  <1>3. PICK plan : plan = [body |-> old.proposal, sealed |-> old.proposal]
    OBVIOUS
  <1>4. plan \in [body : Proposals, sealed : Proposals] /\ plan.sealed = old.proposal
    BY <1>2, <1>3
  <1>5. UNCHANGED <<proposal_file, snapshots, shell_log, reviewed>> /\ plan_file' = plan
    BY <1>1, <1>3 DEF SealPlan
  <1>6. Approved(plan.sealed)
    BY <1>2, <1>4
  <1>7. Approved(plan.sealed)'
    BY <1>5, <1>6, ApprovalsStay
  <1>8. PlanSound'
    BY <1>4, <1>5, <1>7 DEF PlanSound
  <1> QED  BY <1>5, <1>8, ShellReturnKeeps DEF SealPlan

LEMMA SimulateStartKeeps == ASSUME ShellInv, NEW s \in Shells, SimulateStart(s) PROVE ShellInv'
  <1>1. UNCHANGED <<proposal_file, plan_file, snapshots, shell_log, reviewed>>
    BY DEF SimulateStart, file_vars
  <1>2. PlanSound'
    BY <1>1, ApprovalsStay DEF ShellInv, PlanSound
  <1>3. PICK p : p = plan_file.body
    OBVIOUS
  <1>4. p \in Proposals /\ Approved(p)
    BY <1>3 DEF SimulateStart, verify_execution_plan, ShellInv, PlanSound
  <1>5. PICK a : a = [ShellIdle EXCEPT !.pc = "snapshot"]
    OBVIOUS
  <1>6. a \in ShellJobs /\ a.pc = "snapshot"
    BY <1>5, ShellIdleTyped DEF ShellJobs, ShellSteps
  <1>7. PICK b : b = [a EXCEPT !.proposal = p]
    OBVIOUS
  <1>8. b \in ShellJobs /\ b.pc = "snapshot" /\ b.proposal = p
    BY <1>4, <1>6, <1>7 DEF ShellJobs
  <1>9. PICK job : job = [b EXCEPT !.type = "simulation_started"]
    OBVIOUS
  <1>10. job \in ShellJobs /\ job.pc = "snapshot" /\ job.proposal = p /\ job.type = "simulation_started"
    BY <1>8, <1>9 DEF ShellJobs, ShellTypes
  <1>11. ShellSound(job)
    BY <1>4, <1>10 DEF ShellSound
  <1>12. ShellSound(job)'
    BY <1>1, <1>11, ApprovalsStay
  <1>13. shell' = [shell EXCEPT ![s] = job]
    BY <1>3, <1>5, <1>7, <1>9 DEF SimulateStart, ShellStart
  <1> QED  BY <1>1, <1>2, <1>10, <1>12, <1>13, CommandMoves DEF ShellInv, ShellTypesInv

LEMMA WriteSnapshotKeeps == ASSUME ShellInv, NEW s \in Shells, WriteSnapshot(s) PROVE ShellInv'
  <1>1. PICK old : old = shell[s]
    OBVIOUS
  <1>2. old \in ShellJobs /\ ShellSound(old) /\ old.pc = "snapshot" /\ old.proposal \in Proposals
        /\ old.type = "simulation_started"
    BY <1>1 DEF WriteSnapshot, ShellInv, ShellTypesInv, ShellSound
  <1>3. UNCHANGED <<proposal_file, plan_file, shell_log, reviewed>> /\ snapshots' = snapshots \cup {old.proposal}
    BY <1>1 DEF WriteSnapshot
  <1>4. PlanSound'
    BY <1>3, ApprovalsStay DEF ShellInv, PlanSound
  <1>5. PICK job : job = [old EXCEPT !.pc = "index"]
    OBVIOUS
  <1>6. job \in ShellJobs /\ job.pc = "index" /\ job.proposal = old.proposal /\ job.type = old.type
    BY <1>2, <1>5 DEF ShellJobs, ShellSteps
  <1>7. ShellSound(job)
    BY <1>2, <1>6 DEF ShellSound, ShellTypes
  <1>8. ShellSound(job)'
    BY <1>3, <1>7, ApprovalsStay
  <1>9. shell' = [shell EXCEPT ![s] = job]
    BY <1>1, <1>5 DEF WriteSnapshot, ShellGoto
  <1>10. snapshots' \subseteq Proposals
    BY <1>2, <1>3 DEF ShellInv, ShellTypesInv
  <1> QED  BY <1>2, <1>3, <1>4, <1>6, <1>8, <1>9, <1>10, CommandMoves DEF ShellInv, ShellTypesInv

LEMMA ShellKilledKeeps == ASSUME ShellInv, NEW s \in Shells, ShellKilled(s) PROVE ShellInv'
  <1>1. UNCHANGED <<proposal_file, plan_file, snapshots, shell_log, reviewed>>
    BY DEF ShellKilled, file_vars
  <1>2. PlanSound'
    BY <1>1, ApprovalsStay DEF ShellInv, PlanSound
  <1> QED  BY <1>1, <1>2, ShellReturnKeeps DEF ShellKilled

LEMMA EditFilesKeeps == ASSUME ShellInv, EditFiles PROVE ShellInv'
  <1>1. UNCHANGED <<snapshots, shell_log, shell, reviewed>>
    BY DEF EditFiles
  <1>2. proposal_file' \in Proposals
    BY DEF EditFiles, ShellInv, ShellTypesInv
  <1>3. PlanSound'
    <2>1. CASE plan_file' = plan_file
      BY <1>1, <2>1, ApprovalsStay DEF ShellInv, PlanSound
    <2>2. CASE plan_file # NoPlanFile /\ \E p \in Proposals : plan_file' = [plan_file EXCEPT !.body = p]
      <3>1. PICK plan \in [body : Proposals, sealed : Proposals] : plan = plan_file /\ Approved(plan.sealed)
        BY <2>2 DEF ShellInv, PlanSound
      <3>2. PICK p \in Proposals : plan_file' = [plan EXCEPT !.body = p]
        BY <2>2, <3>1
      <3>3. plan_file' \in [body : Proposals, sealed : Proposals] /\ plan_file'.sealed = plan.sealed
        BY <3>2
      <3>4. Approved(plan.sealed)'
        BY <1>1, <3>1, ApprovalsStay
      <3> QED  BY <3>3, <3>4 DEF PlanSound, Approved
    <2> QED  BY <2>1, <2>2 DEF EditFiles
  <1>4. ShellTypesInv'
    BY <1>1, <1>2 DEF ShellInv, ShellTypesInv
  <1>5. StartedFirst'
    BY <1>1 DEF ShellInv, StartedFirst, OfPlan, Unfinished
  <1>6. (\A s \in Shells : ShellSound(shell[s]))' /\ (\A i \in DOMAIN shell_log : LineSound(i))'
    BY <1>1 DEF ShellInv, ShellSound, LineSound, Approved
  <1> QED  BY <1>3, <1>4, <1>5, <1>6 DEF ShellInv

(* An append under the lock: its number is that of the line it becomes.     *)
LEMMA AppendedKeeps ==
    ASSUME ShellInv, NEW s \in Shells, shell[s].pc = "append", shell[s].index = Len(shell_log), Appended(s),
           UNCHANGED <<proposal_file, plan_file, snapshots>>
    PROVE  ShellInv'
  <1>1. PICK old : old = shell[s]
    OBVIOUS
  <1>2. old \in ShellJobs /\ ShellSound(old) /\ old.pc = "append" /\ old.proposal \in Proposals /\ old.type \in ShellTypes
    BY <1>1 DEF ShellInv, ShellTypesInv, ShellSound
  <1>3. PICK n \in Nat : n = Len(shell_log)
    BY DEF ShellInv, ShellTypesInv
  <1>4. PICK e : e = ShellEvent(s)
    OBVIOUS
  <1>5. /\ e \in ShellEvents /\ e.type = old.type /\ e.proposal = old.proposal /\ e.index = n /\ e.prev = n
    <2>1. (IF shell_log = <<>> THEN 0 ELSE Len(shell_log)) = n
      BY <1>3
    <2>2. e = [type |-> old.type, index |-> n, proposal |-> old.proposal, prev |-> n]
      BY <1>1, <1>3, <1>4, <2>1 DEF ShellEvent
    <2> QED  BY <1>2, <2>2 DEF ShellEvents
  <1>6. shell_log \in Seq(ShellEvents) /\ shell_log' = Append(shell_log, e)
    BY <1>4 DEF Appended, ShellInv, ShellTypesInv
  <1>7. /\ shell_log' \in Seq(ShellEvents) /\ Len(shell_log') = n + 1 /\ shell_log'[n + 1] = e
        /\ DOMAIN shell_log = 1..n /\ DOMAIN shell_log' = 1..(n + 1)
        /\ \A i \in 1..n : shell_log'[i] = shell_log[i]
    BY <1>3, <1>5, <1>6
  <1>8. PICK job \in ShellJobs :
            /\ shell' = [shell EXCEPT ![s] = job] /\ ShellSound(job)
            /\ IF old.type = "simulation_started" THEN job.type = "simulation_finished" /\ job.proposal = old.proposal
               ELSE job.type = "none"
    <2>1. CASE old.type = "simulation_started"
      <3>1. PICK a : a = [old EXCEPT !.pc = "index"]
        OBVIOUS
      <3>2. a \in ShellJobs /\ a.pc = "index" /\ a.proposal = old.proposal
        BY <1>2, <3>1 DEF ShellJobs, ShellSteps
      <3>3. PICK job : job = [a EXCEPT !.type = "simulation_finished"]
        OBVIOUS
      <3>4. job \in ShellJobs /\ job.pc = "index" /\ job.proposal = old.proposal /\ job.type = "simulation_finished"
        BY <3>2, <3>3 DEF ShellJobs, ShellTypes
      <3>5. ShellSound(job)
        BY <1>2, <2>1, <3>4 DEF ShellSound, ShellTypes
      <3>6. shell' = [shell EXCEPT ![s] = job]
        BY <1>1, <2>1, <3>1, <3>3 DEF Appended, ShellGoto
      <3> QED  BY <2>1, <3>4, <3>5, <3>6
    <2>2. CASE old.type # "simulation_started"
      <3>1. shell' = [shell EXCEPT ![s] = ShellIdle]
        BY <1>1, <2>2 DEF Appended, ShellReturn, ShellGoto
      <3> QED  BY <2>2, <3>1, ShellIdleTyped, IdleIsSound
    <2> QED  BY <2>1, <2>2
  <1>9. reviewed \subseteq reviewed' /\ reviewed' \subseteq Proposals
    <2>1. reviewed' = reviewed \/ reviewed' = reviewed \cup {old.proposal}
      BY <1>1 DEF Appended
    <2> QED  BY <1>2, <2>1 DEF ShellInv, ShellTypesInv
  <1>10. /\ shell \in [Shells -> ShellJobs] /\ shell' \in [Shells -> ShellJobs] /\ shell'[s] = job
         /\ \A o \in Shells \ {s} : shell'[o] = shell[o]
    BY <1>8 DEF ShellInv, ShellTypesInv
  <1>11. ShellTypesInv'
    BY <1>7, <1>9, <1>10 DEF ShellInv, ShellTypesInv
  <1>12. PlanSound'
    BY <1>9, ApprovalsStay DEF ShellInv, PlanSound
  <1>13. (\A o \in Shells : ShellSound(shell[o]))'
    <2>1. PICK was : was = shell
      OBVIOUS
    <2>2. \A o \in Shells : ShellSound(was[o])'
      BY <1>9, <2>1, ApprovalsStay DEF ShellInv
    <2>3. ShellSound(job)'
      BY <1>8, <1>9, ApprovalsStay
    <2>4. PICK new : new = shell'
      OBVIOUS
    <2>5. \A o \in Shells : ShellSound(new[o])'
      BY <1>10, <2>1, <2>2, <2>3, <2>4
    <2> QED  BY <2>4, <2>5
  <1>14. (\A i \in DOMAIN shell_log : LineSound(i))'
    <2>1. ASSUME NEW i \in 1..n PROVE LineSound(i)'
      <3>1. LineSound(i)
        BY <1>7 DEF ShellInv
      <3> QED  BY <1>7, <1>9, <3>1, ApprovalsStay DEF LineSound
    <2>2. ASSUME NEW i \in 1..(n + 1), i = n + 1 PROVE LineSound(i)'
      <3>1. (e.type # "proposal_reviewed" => Approved(e.proposal)')
        <4>1. e.type # "proposal_reviewed" => Approved(e.proposal)
          BY <1>2, <1>5 DEF ShellSound, ShellTypes
        <4> QED  BY <1>9, <4>1, ApprovalsStay
      <3>2. e.index = i - 1 /\ e.prev = i - 1
        BY <1>5, <2>2
      <3> QED  BY <1>7, <2>2, <3>1, <3>2 DEF LineSound
    <2>3. \A i \in 1..(n + 1) : i \in 1..n \/ i = n + 1
      BY <1>3
    <2> QED  BY <1>7, <2>1, <2>2, <2>3
  <1>15. ASSUME NEW p \in Proposals
         PROVE  /\ \A k \in 1..(n + 1) : OfPlan("simulation_finished", p, k)' <= OfPlan("simulation_started", p, k)'
                /\ OfPlan("simulation_finished", p, n + 1)' + Cardinality(Unfinished(p)')
                       <= OfPlan("simulation_started", p, n + 1)'
    <2>1. PICK f, g \in Nat : f = OfPlan("simulation_finished", p, n) /\ g = OfPlan("simulation_started", p, n)
      BY OfPlanTyped
    <2>2. PICK was, is : was = Unfinished(p) /\ is = Unfinished(p)'
      OBVIOUS
    <2>3. IsFiniteSet(was) /\ Cardinality(was) \in Nat
      BY <2>2, UnfinishedTyped
    <2>4. f + Cardinality(was) <= g
      BY <1>3, <2>1, <2>2 DEF ShellInv, StartedFirst
    <2>5. PICK f1, g1 \in Nat : /\ f1 = OfPlan("simulation_finished", p, n + 1)' /\ g1 = OfPlan("simulation_started", p, n + 1)'
                                /\ f1 = f + (IF e.type = "simulation_finished" /\ e.proposal = p THEN 1 ELSE 0)
                                /\ g1 = g + (IF e.type = "simulation_started" /\ e.proposal = p THEN 1 ELSE 0)
      BY <1>3, <1>5, <1>6, <2>1, OfPlanGrows
    <2>6. \A o \in Shells : o # s => (o \in is <=> o \in was)
      BY <1>10, <2>2 DEF Unfinished
    <2>7. s \in was <=> (old.type = "simulation_finished" /\ old.proposal = p)
      BY <1>1, <2>2 DEF Unfinished
    <2>8. s \in is <=> (old.type = "simulation_started" /\ old.proposal = p)
      BY <1>8, <1>10, <2>2 DEF Unfinished
    <2>9. was \subseteq Shells /\ is \subseteq Shells
      BY <2>2 DEF Unfinished
    <2>10. Cardinality(is) \in Nat /\ f1 + Cardinality(is) <= g1
      <3>1. CASE e.type = "simulation_finished" /\ e.proposal = p
        <4>1. s \in was /\ is = was \ {s}
          BY <1>5, <2>6, <2>7, <2>8, <2>9, <3>1
        <4>2. Cardinality(is) = Cardinality(was) - 1 /\ IsFiniteSet(is)
          BY <2>3, <4>1, FS_RemoveElement
        <4>3. Cardinality(is) \in Nat
          BY <4>2, FS_CardinalityType
        <4>4. f1 = f + 1 /\ g1 = g
          BY <2>5, <3>1
        <4> QED  BY <2>1, <2>3, <2>4, <4>2, <4>3, <4>4
      <3>2. CASE e.type = "simulation_started" /\ e.proposal = p
        <4>1. s \notin was /\ is = was \cup {s}
          BY <1>5, <2>6, <2>7, <2>8, <2>9, <3>2
        <4>2. Cardinality(is) = Cardinality(was) + 1
          BY <2>3, <4>1, FS_AddElement
        <4>3. f1 = f /\ g1 = g + 1
          BY <2>5, <3>2
        <4> QED  BY <2>1, <2>3, <2>4, <4>2, <4>3
      <3>3. CASE ~(e.type \in {"simulation_started", "simulation_finished"} /\ e.proposal = p)
        <4>1. s \notin was /\ s \notin is
          <5>1. ~(old.type = "simulation_finished" /\ old.proposal = p)
            BY <1>5, <3>3
          <5>2. ~(old.type = "simulation_started" /\ old.proposal = p)
            BY <1>5, <3>3
          <5> QED  BY <2>7, <2>8, <5>1, <5>2
        <4>2. is = was
          BY <2>6, <2>9, <4>1, SMTT(30)
        <4>3. f1 = f /\ g1 = g
          BY <2>5, <3>3
        <4> QED  BY <2>3, <2>4, <4>2, <4>3
      <3> QED  BY <3>1, <3>2, <3>3
    <2>11. f1 <= g1
      BY <2>5, <2>10
    <2>12. \A k \in 1..n : OfPlan("simulation_finished", p, k)' <= OfPlan("simulation_started", p, k)'
      <3>1. \A k \in 1..n : k \in 0..n /\ k \in DOMAIN shell_log
        BY <1>3, <1>7
      <3>2. ASSUME NEW type, NEW k \in 0..n PROVE OfPlan(type, p, k)' = OfPlan(type, p, k)
        BY <1>3, <1>5, <1>6, OfPlanStays
      <3>4. \A k \in DOMAIN shell_log : OfPlan("simulation_finished", p, k) <= OfPlan("simulation_started", p, k)
        BY DEF ShellInv, StartedFirst
      <3>5. ASSUME NEW k \in 1..n
            PROVE  OfPlan("simulation_finished", p, k)' <= OfPlan("simulation_started", p, k)'
        <4>1. k \in 0..n /\ k \in DOMAIN shell_log
          BY <3>1
        <4>2. /\ OfPlan("simulation_finished", p, k)' = OfPlan("simulation_finished", p, k)
              /\ OfPlan("simulation_started", p, k)' = OfPlan("simulation_started", p, k)
          BY <3>2, <4>1
        <4> QED  BY <3>4, <4>1, <4>2
      <3> QED  BY <3>5
    <2>13. \A k \in 1..(n + 1) : k \in 1..n \/ k = n + 1
      BY <1>3
    <2> QED  BY <2>2, <2>5, <2>10, <2>11, <2>12, <2>13
  <1>16. StartedFirst'
    BY <1>7, <1>15 DEF StartedFirst
  <1> QED  BY <1>11, <1>12, <1>13, <1>14, <1>16 DEF ShellInv

LEMMA AppendEventKeeps == ASSUME ShellInv, NEW s \in Shells, AppendEvent(s) PROVE ShellInv'
  <1>1. UNCHANGED <<proposal_file, plan_file, snapshots>> /\ shell[s].pc = "append"
    BY DEF AppendEvent, file_vars
  <1>2. CASE torn \/ shell[s].index # Len(shell_log)
    <2>1. UNCHANGED <<shell_log, reviewed>> /\ ShellReturn(s)
      BY <1>2 DEF AppendEvent
    <2>2. PlanSound'
      BY <1>1, <2>1, ApprovalsStay DEF ShellInv, PlanSound
    <2> QED  BY <1>1, <2>1, <2>2, ShellReturnKeeps
  <1>3. CASE ~(torn \/ shell[s].index # Len(shell_log))
    BY <1>1, <1>3, AppendedKeeps DEF AppendEvent
  <1> QED  BY <1>2, <1>3

LEMMA ShellStepInv == ShellInv /\ [ShellNext]_shell_vars => ShellInv'
  <1> SUFFICES ASSUME ShellInv, [ShellNext]_shell_vars PROVE ShellInv'
    OBVIOUS
  <1>1. ASSUME NEW s \in Shells,
               \/ ReviewStart(s) \/ CountEvents(s) \/ AppendEvent(s)
               \/ \E supplied \in reviewed \cup {NoProposal} : ApproveStart(s, supplied)
               \/ SealPlan(s) \/ SimulateStart(s) \/ WriteSnapshot(s) \/ ShellKilled(s)
        PROVE  ShellInv'
    BY <1>1, ReviewStartKeeps, CountEventsKeeps, AppendEventKeeps, ApproveStartKeeps, SealPlanKeeps, SimulateStartKeeps,
       WriteSnapshotKeeps, ShellKilledKeeps
  <1>2. CASE UNCHANGED shell_vars
    <2>1. UNCHANGED <<proposal_file, plan_file, snapshots, shell_log, shell, reviewed>>
      BY <1>2 DEF shell_vars
    <2>2. ShellTypesInv' /\ PlanSound'
      BY <2>1, ApprovalsStay DEF ShellInv, ShellTypesInv, PlanSound
    <2>4. StartedFirst'
      BY <2>1 DEF ShellInv, StartedFirst, OfPlan, Unfinished
    <2>3. (\A s \in Shells : ShellSound(shell[s]))' /\ (\A i \in DOMAIN shell_log : LineSound(i))'
      BY <2>1 DEF ShellInv, ShellSound, LineSound, Approved
    <2> QED  BY <2>2, <2>3, <2>4 DEF ShellInv
  <1> QED  BY <1>1, <1>2, EditFilesKeeps DEF ShellNext

LEMMA ShellInvHolds == ShellSpec => []ShellInv
  BY ShellInitInv, ShellStepInv, PTL DEF ShellSpec

(* The types of the run.                                                    *)
THEOREM ShellTypesHold == ShellSpec => []ShellTypeOK
  <1>1. ShellInv => ShellTypeOK
    <2> SUFFICES ASSUME ShellInv PROVE ShellTypeOK
      OBVIOUS
    <2>1. plan_file.sealed \in Proposals \cup {NoProposal}
      BY DEF ShellInv, PlanSound, NoPlanFile
    <2>2. \A i \in DOMAIN shell_log : shell_log[i].proposal \in Proposals
      <3>1. \A i \in DOMAIN shell_log : shell_log[i] \in ShellEvents
        BY DEF ShellInv, ShellTypesInv
      <3> QED  BY <3>1 DEF ShellEvents
    <2> QED  BY <2>1, <2>2 DEF ShellInv, ShellTypesInv, ShellTypeOK
  <1> QED  BY <1>1, ShellInvHolds, PTL

(* For any number of commands, proposals and edits: no simulation without   *)
(* its approval, and a log that replays.                                    *)
THEOREM SimulationsAreApproved == ShellSpec => []SimulatedWasApproved
  <1>1. ShellInv => SimulatedWasApproved
    <2> SUFFICES ASSUME ShellInv PROVE SimulatedWasApproved
      OBVIOUS
    <2>1. \A i \in DOMAIN shell_log : LineSound(i)
      BY DEF ShellInv
    <2>2. ~torn => verify_audit_chain
      BY <2>1 DEF verify_audit_chain, LineSound
    <2>3. \A n \in DOMAIN shell_log, p \in Proposals :
              OfPlan("simulation_finished", p, n) <= OfPlan("simulation_started", p, n)
      BY DEF ShellInv, StartedFirst
    <2> QED  BY <2>1, <2>2, <2>3 DEF SimulatedWasApproved, LineSound, Approved
  <1> QED  BY <1>1, ShellInvHolds, PTL

----------------------------------------------------------------------------
(* Side by side.  The workflows share no file: a step of one leaves the     *)
(* files of the others alone, so each keeps its own specification.          *)
THEOREM WorkflowsKeepTheirSpecs ==
    Spec => CaptureSpec /\ CurationSpec /\ IntakeSpec /\ ShellSpec /\ ReleaseSpec
  <1>1. Init => CaptureInit /\ CurationInit /\ IntakeInit /\ ShellInit /\ ReleaseInit
    BY DEF Init
  <1>2. [Next]_all_vars => [CaptureNext]_cap_vars
    BY DEF Next, all_vars
  <1>3. [Next]_all_vars => [CurationNext]_curation_vars
    BY DEF Next, all_vars
  <1>4. [Next]_all_vars => [IntakeNext]_intake_vars
    BY DEF Next, all_vars
  <1>5. [Next]_all_vars => [ShellNext]_shell_vars
    BY DEF Next, all_vars
  <1>6. [Next]_all_vars => [ReleaseNext]_release_vars
    BY DEF Next, all_vars
  <1> QED  BY <1>1, <1>2, <1>3, <1>4, <1>5, <1>6, PTL
           DEF Spec, CaptureSpec, CurationSpec, IntakeSpec, ShellSpec, ReleaseSpec

(* What the workflows keep in their files and memory (promote.py, curate.py,*)
(* intake.py, the governed shell and release.py) is of the kind the code    *)
(* writes there, whichever of them runs.                                    *)
THEOREM WorkflowTypesHold == Spec => []TypeOK
  <1>1. CaptureTypeOK /\ CurationTypeOK /\ IntakeTypeOK /\ ShellTypeOK /\ ReleaseTypeOK => TypeOK
    BY DEF TypeOK
  <1> QED  BY <1>1, WorkflowsKeepTheirSpecs, CaptureTypesHold, CurationTypesHold, IntakeTypesHold,
              ShellTypesHold, ReleaseTypesHold, PTL
=============================================================================
