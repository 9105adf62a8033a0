----------------------------- MODULE LettersRelease -----------------------------
(***************************************************************************)
(* The release gate of Letters of Light: release.py, release_site.py and   *)
(* publishers/youtube.py behind a server with one thread a request, or the *)
(* same functions from the command line.  A request reads release.json     *)
(* whole at its start and writes it whole at its end; the page, the index  *)
(* of the site and the video are made in between.                          *)
(*                                                                         *)
(* Letters come from a pipeline outside this tree: a letter is a version   *)
(* and whether it passes the public thresholds.  Markup is left out.       *)
(***************************************************************************)
EXTENDS Naturals, FiniteSets

CONSTANTS
    Requests,      \* threads and commands
    Letters,
    MaxRequested,  \* bound: requests
    MaxChanges,    \* bound: changes of a letter
    MaxReqKills    \* bound: requests killed

ASSUME ReleaseAssumption ==
    /\ IsFiniteSet(Letters) /\ Letters # {} /\ IsFiniteSet(Requests)
    /\ MaxChanges \in Nat

VARIABLES
    letter,         \* letter -> its version, and whether it is eligible
    release,        \* release.json
    exported,       \* release_export: versions of site.md and of final.mp4
    captions,       \* release_export: version of the texts for social networks
    page,           \* the published page: versions of its text and its media
    site_index,     \* letters listed in letters/index.html
    uploads,        \* videos on YouTube, by letter
    request,        \* request in progress
    approvals,      \* letters an approval has found eligible
    site_overlap,   \* two site publications have overlapped
    requested, changes, req_kills

release_vars == <<letter, release, exported, captions, page, site_index, uploads, request,
                  approvals, site_overlap, requested, changes, req_kills>>

Nothing == [text |-> 0, media |-> 0]
NoRelease == [state |-> "unseen", approved |-> FALSE, site |-> "pending", video |-> "pending"]
ReleaseStates == {"unseen", "candidate", "approved", "exported", "published", "manual_required"}
(* "next": what an approval that found no release goes on with.             *)
IdleRequest == [op |-> "none", pc |-> "idle", letter |-> CHOOSE l \in Letters : TRUE,
                release |-> NoRelease, media |-> 0, index |-> {}, next |-> "none"]

----------------------------------------------------------------------------
(* What the functions make of a release.  create_release_candidate keeps    *)
(* the state of a protected release but starts its targets again.           *)
Protected == {"approved", "exported", "published"}
(* Mutant: what passes the thresholds counts as approved. *)
ApprovesEligible(old, eligible) ==
    [state |-> IF eligible THEN "approved" ELSE "manual_required", approved |-> eligible,
     site |-> "pending", video |-> "pending"]
candidate_of(old, eligible) ==
    [state |-> IF ~eligible THEN "manual_required" ELSE IF old.state \in Protected THEN old.state ELSE "candidate",
     approved |-> eligible /\ old.state \in Protected /\ old.approved,
     site |-> "pending", video |-> "pending"]

blocked(rel) == [rel EXCEPT !.state = "manual_required", !.approved = FALSE]
approval_of(rel) ==
    [rel EXCEPT !.state = IF rel.state \in {"exported", "published"} THEN rel.state ELSE "approved", !.approved = TRUE]
export_of(rel) == [rel EXCEPT !.state = IF rel.state = "published" THEN "published" ELSE "exported"]
publication_of(rel) == [rel EXCEPT !.state = "published", !.site = "published"]
video_of(rel, outcome) == [rel EXCEPT !.video = outcome]

(* publish_release_site. *)
Publishable(rel, l) == rel.approved /\ rel.state \in {"exported", "published"} /\ exported[l].text # 0

----------------------------------------------------------------------------
(* Nothing released yet; both letters exported; one of them published.      *)
ReleasedState(kind) == [state |-> kind, approved |-> TRUE, site |-> IF kind = "published" THEN "published" ELSE "pending",
                        video |-> "pending"]
ReleaseInit ==
    \E published \in SUBSET Letters : \E fresh \in SUBSET (Letters \ published) :
        LET kind(l) == IF l \in published THEN "published" ELSE "exported"
        IN  /\ release = [l \in Letters |-> IF l \in fresh THEN NoRelease ELSE ReleasedState(kind(l))]
            /\ exported = [l \in Letters |-> IF l \in fresh THEN Nothing ELSE [text |-> 1, media |-> 1]]
            /\ captions = [l \in Letters |-> IF l \in fresh THEN 0 ELSE 1]
            /\ page = [l \in Letters |-> IF l \in published THEN [text |-> 1, media |-> 1] ELSE Nothing]
            /\ site_index = published
            /\ approvals = Letters \ fresh
            /\ letter = [l \in Letters |-> [version |-> 1, eligible |-> TRUE]]
            /\ uploads = [l \in Letters |-> 0]
            /\ request = [r \in Requests |-> IdleRequest]
            /\ site_overlap = FALSE
            /\ requested = 0 /\ changes = 0 /\ req_kills = 0

(* The pipeline rewrites a letter, its evaluation or its media.             *)
LetterChanges(l, eligible) ==
    /\ changes < MaxChanges
    /\ changes' = changes + 1
    /\ letter' = [letter EXCEPT ![l] = [version |-> @.version + 1, eligible |-> eligible]]
    /\ UNCHANGED <<release, exported, captions, page, site_index, uploads, request, approvals, site_overlap, requested, req_kills>>

Operations == {"candidate", "approve", "export", "site", "youtube", "youtube_force"}
Unchanged == UNCHANGED <<letter, approvals, site_overlap, requested, changes, req_kills>>
Step(r, job) == request' = [request EXCEPT ![r] = job]
Done(r) == Step(r, IdleRequest)
IsAt(r, op, pc) == request[r].op = op /\ request[r].pc = pc

(* A release read as missing is created first, and an export then raises    *)
(* for want of an approval; the others raise at once.                       *)
Opened(op, l) ==
    LET rel == release[l]
        job == [IdleRequest EXCEPT !.op = op, !.letter = l, !.release = rel, !.pc = "check"]
        fresh == [job EXCEPT !.op = "candidate", !.next = op]
    IN  CASE op = "candidate" -> job
          [] op = "approve" -> IF rel.state = "unseen" THEN fresh ELSE job
          [] op = "export" -> IF rel.state = "unseen" THEN [fresh EXCEPT !.next = "none"]
                              ELSE IF rel.approved THEN job ELSE IdleRequest
          [] op = "site" -> IF Publishable(rel, l) THEN [job EXCEPT !.pc = "media"] ELSE IdleRequest
          [] OTHER -> IF rel.state = "unseen" \/ (op = "youtube" /\ rel.approved /\ rel.video = "published")
                      THEN IdleRequest
                      ELSE IF rel.approved THEN [job EXCEPT !.op = "youtube", !.pc = "upload"]
                      ELSE [job EXCEPT !.op = "youtube", !.pc = "write", !.release = video_of(rel, "failed")]

BeginRequest(r, op, l) ==
    /\ request[r].pc = "idle"
    /\ requested < MaxRequested
    /\ requested' = requested + 1
    /\ Step(r, Opened(op, l))
    /\ site_overlap' = (site_overlap \/ (op = "site" /\ \E s \in Requests \ {r} : request[s].op = "site"))
    /\ UNCHANGED <<letter, release, exported, captions, page, site_index, uploads, approvals, changes, req_kills>>

(* check_release_eligibility, and what each function does with the verdict. *)
Eligible(l) == letter[l].eligible

CheckEligibility(r) ==
    LET job == request[r]
        eligible == Eligible(job.letter)
        made == CASE job.op = "candidate"               -> candidate_of(job.release, eligible)
                  [] job.op # "candidate" /\ ~eligible   -> blocked(job.release)
                  [] job.op = "approve" /\ eligible      -> approval_of(job.release)
                  [] OTHER                              -> job.release
    IN  /\ job.pc = "check"
        /\ Step(r, [job EXCEPT !.release = made,
                               !.pc = IF job.op = "export" /\ eligible THEN "text" ELSE "write"])
        /\ approvals' = IF job.op = "approve" /\ eligible THEN approvals \cup {job.letter} ELSE approvals
        /\ UNCHANGED <<letter, release, exported, captions, page, site_index, uploads, site_overlap, requested, changes, req_kills>>

(* export_campaign reads the letter again for the texts; the media follow.  *)
ExportTexts(r) ==
    LET l == request[r].letter
    IN  /\ IsAt(r, "export", "text")
        /\ exported' = [exported EXCEPT ![l].text = letter[l].version]
        /\ captions' = [captions EXCEPT ![l] = letter[l].version]
        /\ Step(r, [request[r] EXCEPT !.pc = "media", !.media = letter[l].version])
        /\ UNCHANGED <<release, page, site_index, uploads>> /\ Unchanged

ExportMedia(r) ==
    LET job == request[r]
    IN  /\ IsAt(r, "export", "media")
        /\ exported' = [exported EXCEPT ![job.letter].media = job.media]
        /\ Step(r, [job EXCEPT !.pc = "write", !.release = export_of(@)])
        /\ UNCHANGED <<release, captions, page, site_index, uploads>> /\ Unchanged

(* publish_release_site: media, page, index, captions, release.  Media that were not  *)
(* exported are taken from where the release says they are.                 *)
CopyMedia(r) ==
    LET l == request[r].letter
    IN  /\ IsAt(r, "site", "media")
        /\ page' = [page EXCEPT ![l].media = IF exported[l].media = 0 THEN letter[l].version ELSE exported[l].media]
        /\ Step(r, [request[r] EXCEPT !.pc = "page"])
        /\ UNCHANGED <<release, exported, captions, site_index, uploads>> /\ Unchanged

WritePage(r) ==
    LET l == request[r].letter
    IN  /\ IsAt(r, "site", "page")
        /\ page' = [page EXCEPT ![l].text = exported[l].text]
        /\ Step(r, [request[r] EXCEPT !.pc = "index"])
        /\ UNCHANGED <<release, exported, captions, site_index, uploads>> /\ Unchanged

ReadIndex(r) ==
    /\ IsAt(r, "site", "index")
    /\ Step(r, [request[r] EXCEPT !.pc = "merge", !.index = site_index])
    /\ UNCHANGED <<release, exported, captions, page, site_index, uploads>> /\ Unchanged

MergeIndex(r) ==
    LET job == request[r]
    IN  /\ IsAt(r, "site", "merge")
        /\ site_index' = job.index \cup {job.letter}
        /\ Step(r, [job EXCEPT !.pc = "captions", !.index = {}])
        /\ UNCHANGED <<release, exported, captions, page, uploads>> /\ Unchanged

(* The captions are made again, from what routing.json says now.            *)
RefreshSocialExports(r) ==
    LET job == request[r]
    IN  /\ IsAt(r, "site", "captions")
        /\ captions' = [captions EXCEPT ![job.letter] = letter[job.letter].version]
        /\ Step(r, [job EXCEPT !.pc = "write", !.release = publication_of(@)])
        /\ UNCHANGED <<release, exported, page, site_index, uploads>> /\ Unchanged

(* The upload; one that fails may have reached the service all the same,    *)
(* and one without a video fails before it starts.                          *)
Answers == {[outcome |-> "published", videos |-> 1], [outcome |-> "failed", videos |-> 0],
            [outcome |-> "failed", videos |-> 1]}

Upload(r) ==
    LET job == request[r]
    IN  /\ IsAt(r, "youtube", "upload")
        /\ \E answer \in Answers :
               /\ uploads' = [uploads EXCEPT ![job.letter] = @ + answer.videos]
               /\ Step(r, [job EXCEPT !.pc = "write", !.release = video_of(@, answer.outcome)])
        /\ UNCHANGED <<release, exported, captions, page, site_index>> /\ Unchanged

(* The last step of every function: release.json, whole, as it was read.    *)
WriteRelease(r) ==
    LET job == request[r]
    IN  /\ job.pc = "write"
        /\ release' = [release EXCEPT ![job.letter] = job.release]
        /\ Step(r, IF job.next = "none" THEN IdleRequest
                   ELSE [job EXCEPT !.op = job.next, !.pc = "check", !.next = "none"])
        /\ UNCHANGED <<exported, captions, page, site_index, uploads>> /\ Unchanged

RequestKilled(r) ==
    /\ request[r].pc # "idle"
    /\ req_kills < MaxReqKills
    /\ req_kills' = req_kills + 1
    /\ Done(r)
    /\ UNCHANGED <<letter, release, exported, captions, page, site_index, uploads, approvals, site_overlap, requested, changes>>

ReleaseNext ==
    \/ \E l \in Letters : \E eligible \in BOOLEAN : LetterChanges(l, eligible)
    \/ \E r \in Requests :
        \/ \E op \in Operations : \E l \in Letters : BeginRequest(r, op, l)
        \/ CheckEligibility(r) \/ WriteRelease(r) \/ RequestKilled(r)
        \/ ExportTexts(r) \/ ExportMedia(r)
        \/ CopyMedia(r) \/ WritePage(r) \/ ReadIndex(r) \/ MergeIndex(r) \/ RefreshSocialExports(r)
        \/ Upload(r)

ReleaseSpec == ReleaseInit /\ [][ReleaseNext]_release_vars

----------------------------------------------------------------------------
Versions == 0..(MaxChanges + 1)
ReleaseTypeOK ==
    /\ \A l \in Letters : /\ release[l].state \in ReleaseStates
                          /\ page[l].text \in Versions /\ page[l].media \in Versions
                          /\ exported[l].text \in Versions /\ exported[l].media \in Versions
                          /\ captions[l] \in Versions
    /\ site_index \subseteq Letters /\ approvals \subseteq Letters
    /\ \A r \in Requests : request[r].letter \in Letters

(* However requests overlap, write back what they read, or are killed:      *)
(* nothing is exported, on the site or uploaded of a letter no approval     *)
(* found eligible; the index lists letters that have a page, and a release  *)
(* that says it is published has one; and a page the index leaves out is    *)
(* that of a request in progress or killed, or two publications overlapped. *)
PublicWasApproved ==
    /\ \A l \in Letters :
           exported[l] # Nothing \/ captions[l] > 0 \/ page[l] # Nothing \/ uploads[l] > 0 \/ release[l].approved => l \in approvals
    /\ site_index \subseteq {l \in Letters : page[l].text # 0}
    /\ \A l \in Letters : release[l].state = "published" \/ release[l].site = "published" => page[l].text # 0
    /\ site_overlap \/ Cardinality({l \in Letters \ site_index : page[l] # Nothing})
           <= req_kills + Cardinality({r \in Requests : request[r].op = "site"})
=============================================================================
