--------------------------- MODULE ReleaseRequests ---------------------------
(***************************************************************************)
(* What a trigger (image.yaml) asks to be released, and what               *)
(* merge_release_info.py makes of it once the builds of its uploads have   *)
(* revision numbers.                                                       *)
(*                                                                         *)
(* A trigger is a record of its "release" section, a mapping, of the       *)
(* end-of-life dates given there and of its uploads in file order; an      *)
(* upload is the triplet source_commit_directory it is built from, the set *)
(* of channels to release it to and the dates of their tracks.  The        *)
(* revision file of an upload adds its number.                             *)
(***************************************************************************)
EXTENDS ReleaseTags, Sequences

\* KNOWN_RISKS_ORDERED: from the most to the least stable.
Rank == [stable |-> 0, candidate |-> 1, beta |-> 2, edge |-> 3]
NextLower == [candidate |-> "stable", beta |-> "candidate", edge |-> "beta"]
Below(d, c) == d[1] = c[1] /\ Rank[d[2]] < Rank[c[2]]

EmptyMapping == [c \in {} |-> c]

\* A trigger has these fields and no other, channels have known risks, tracks
\* get a date when they get a channel, and triplets are unique.
ImageSchema(trigger) ==
    /\ DOMAIN trigger = {"release", "eol", "uploads"}
    /\ IsMapping(trigger.release)
    /\ TracksOf(trigger.release) = DOMAIN trigger.eol
    /\ trigger.uploads \in Seq({trigger.uploads[i] : i \in DOMAIN trigger.uploads})
    /\ \A i \in DOMAIN trigger.uploads :
          /\ trigger.uploads[i].channels \subseteq Channels
          /\ {c[1] : c \in trigger.uploads[i].channels}
                = DOMAIN trigger.uploads[i].eol
          /\ \A j \in DOMAIN trigger.uploads \ {i} :
                trigger.uploads[i].source # trigger.uploads[j].source

\* Mutant: every channel follows stable, in between or not.
BackfillStable(m) ==
    LET missing == {c \in Channels \ DOMAIN m : \E d \in DOMAIN m : Below(d, c)}
    IN  Overlay(m, [c \in missing |-> <<c[1], "stable">>])

\* Mutant: a risk that is missing follows the next riskier one.
BackfillUpward(m) ==
    LET missing == {c \in Channels \ DOMAIN m : \E d \in DOMAIN m : Below(d, c)}
        next == [candidate |-> "beta", beta |-> "edge", edge |-> "beta"]
    IN  Overlay(m, [c \in missing |-> <<c[1], next[c[2]]>>])

\* backfill_higher_risks: a risk that is missing above one that is there
\* follows the next lower risk, which is there or has just been added.
Backfill(m) ==
    LET missing == {c \in Channels \ DOMAIN m : \E d \in DOMAIN m : Below(d, c)}
    IN  Overlay(m, [c \in missing |-> <<c[1], NextLower[c[2]]>>])

Pins(file) == [c \in file.channels |-> file.rev]

\* merge_release_info.py run on a trigger and one revision file.
MergeRevision(trigger, file) ==
    [trigger EXCEPT !.release = Backfill(Overlay(@, Pins(file))),
                    !.eol = Overlay(@, file.eol)]

-----------------------------------------------------------------------------
(* Numbering and filtering the builds.                                     *)

\* filter_eol_tracks: the channels of an upload on tracks that have ended
\* are dropped, and with the last one the upload.
LiveChannels(upload, now) ==
    {c \in upload.channels : ~ PastEndOfLife(upload.eol, now, c)}

\* The revision files of the uploads, numbered in file order before
\* filter_eol_builds drops those of which nothing is left.
RevisionFiles(uploads, numbers, now) ==
    {[rev |-> numbers[i], channels |-> LiveChannels(uploads[i], now),
      eol |-> [t \in {c[1] : c \in LiveChannels(uploads[i], now)} |->
                  uploads[i].eol[t]]] :
        i \in {j \in DOMAIN uploads :
                  uploads[j].channels = {} \/ LiveChannels(uploads[j], now) # {}}}

\* The output "release-to": there is something to release.
ReleaseTo(trigger, files) ==
    DOMAIN trigger.release # {} \/ \E f \in files : f.channels # {}

\* release.py takes the dates of the trigger's releases and then those of
\* its uploads, the dropped ones included: the last date of a track counts.
DatesOf(trigger) ==
    LET dated(t) == {i \in DOMAIN trigger.uploads :
                        t \in DOMAIN trigger.uploads[i].eol}
        last(t) == CHOOSE i \in dated(t) : \A j \in dated(t) : j <= i
    IN  [t \in DOMAIN trigger.eol \cup
                 UNION {DOMAIN trigger.uploads[i].eol : i \in DOMAIN trigger.uploads}
            |-> IF dated(t) = {} THEN trigger.eol[t]
                ELSE trigger.uploads[last(t)].eol[t]]
=============================================================================
