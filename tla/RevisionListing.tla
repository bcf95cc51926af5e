--------------------------- MODULE RevisionListing ---------------------------
(***************************************************************************)
(* The releases of an image while revisions of it are uploaded: each lists *)
(* the objects of the Swift container once, without a look at the          *)
(* lockfile, and release.py reads the tracks of the revisions off that     *)
(* list, twice: to move the tags and to update the record.                 *)
(***************************************************************************)
EXTENDS RevisionAllocation, FiniteSets

\* The uploads of before have left each revision on one track.
ASSUME ListingAssumption == \A s, t \in Existing : s[2] = t[2] => s = t

VARIABLES
    step,       \* the release: "idle", "listed", "tagged", "raised", "done"
    listing,    \* canonical-tags-file.txt, as <<track, revision>>
    tracks      \* revision_to_track, as <<track, revision>>

listingVars == <<vars, step, listing, tracks>>

\* The lockfile is listed as one more tag, <lockfile.lock>_<>.
LockfileTag == <<"lockfile.lock", "">>

ListingInit == Init /\ step = "idle" /\ listing = {} /\ tracks = {}

\* get_canonical_tags_from_swift.sh: uniq makes one tag of the objects of a
\* slot.
ListTags ==
    /\ step = "idle"
    /\ listing' = Taken \cup (IF lock = NoRun THEN {} ELSE {LockfileTag})
    /\ step' = "listed"
    /\ UNCHANGED <<vars, tracks>>

\* get_revision_to_track: int("") raises, and so does the empty list that
\* split makes one empty tag of; a revision has one track.
Reads(tags) ==
    /\ tags # {} /\ LockfileTag \notin tags
    /\ \A s, t \in tags : s[2] = t[2] => s = t

\* One run of release.py after the other, on the same file.
GetRevisionToTrack ==
    /\ step \in {"listed", "tagged"}
    /\ IF Reads(listing)
       THEN /\ tracks' = listing
            /\ step' = IF step = "listed" THEN "tagged" ELSE "done"
       ELSE step' = "raised" /\ UNCHANGED tracks
    /\ UNCHANGED <<vars, listing>>

\* The release is run again, or another one is.
ReleaseAgain ==
    /\ step \in {"raised", "done"}
    /\ step' = "idle" /\ listing' = {} /\ tracks' = {}
    /\ UNCHANGED vars

ReleaseStep == ListTags \/ GetRevisionToTrack \/ ReleaseAgain

ListingNext ==
    \/ Next /\ UNCHANGED <<step, listing, tracks>>
    \/ ReleaseStep

ListingSpec == ListingInit /\ [][ListingNext]_listingVars

-----------------------------------------------------------------------------
\* Uploads that go on meanwhile, fail, or are cancelled half-way do not get
\* into the way of a release, only a lockfile does, or that there is no
\* revision at all: unless the protocol was disturbed, a release that raises
\* has listed one of these (release_info.py:60-84).
RaisesForLockfileOnly ==
    step = "raised" /\ Undisturbed => LockfileTag \in listing \/ listing = {}

\* The track a release takes a revision to have is the one its image was
\* pushed to, whichever run pushes it and when (release.py:258-295).
TracksAreThePushed ==
    Undisturbed =>
        \A s \in tracks : \A t \in ghcr : t.slot[2] = s[2] => t.slot = s

=============================================================================
