-------------------------- MODULE DocumentationData --------------------------
(***************************************************************************)
(* The documentation of an image in the registries.  Every release starts  *)
(* a run of Documentation.yaml when it is done; a run can also be started  *)
(* by hand or by a change of documentation.yaml, and nothing keeps two     *)
(* runs apart.  A run reads the dates of _releases.json, lists the tags in *)
(* ECR page by page, looks up the architectures of one revision after the  *)
(* other, and publishes the table to Docker Hub and then to ECR.           *)
(*                                                                         *)
(* The releases are those of ReleaseBoard.  A digest stands for the        *)
(* revision it was built as; so do its architectures.                      *)
(***************************************************************************)
EXTENDS ReleaseBoard, ReleaseRequests, FiniteSets

CONSTANTS
    DocRuns,    \* runs of the workflow there may be at a time
    Versioned,  \* tracks named <version>-<base>
    Dashed,     \* those with more than one "-"
    Contains,   \* <<t, k>>: the name of track t contains the word k
    Alphabet,   \* the places of the channels' tags in alphabetical order
    Override,   \* override-tracks of documentation.yaml: dates of tracks
    PageOf,     \* ECR: the page of the list that each tag is on
    MaxReleases, MaxFailures

LastPage == CHOOSE n \in {PageOf[t] : t \in OciTags} :
                \A t \in OciTags : PageOf[t] <= n

ASSUME DocumentationAssumption ==
    /\ IsFiniteSet(Tracks)
    /\ Dashed \subseteq Versioned /\ Versioned \subseteq Tracks
    /\ Contains \subseteq Tracks \X KnownRisks
    /\ Alphabet \in [Channels -> Nat]
    /\ DOMAIN Override \subseteq Tracks
    /\ PageOf \in [OciTags -> Nat \ {0}]
    /\ MaxReleases \in Nat /\ MaxFailures \in Nat

VARIABLES
    run,        \* per run: where it is and what it knows
    docs,       \* per registry, the table in its documentation
    released, failed

\* History: per run, the entries the registry has held since it started,
\* and the number of releases there had been by then.
VARIABLES seen, begun

docVars == <<boardVars, run, docs, released, failed, seen, begun>>
counters == <<released, failed>>
history == <<seen, begun>>

Registries == {"hub", "ecr"}
Idle == [step |-> "idle", dates |-> [t \in {} |-> 0], page |-> 0,
         read |-> {}, rows |-> {}]
DocGoto(r, s) == run' = [run EXCEPT ![r].step = s]

DocInit ==
    /\ BoardInit
    /\ run = [r \in DocRuns |-> Idle]
    /\ docs = [g \in Registries |-> {}]
    /\ released = 0 /\ failed = 0
    /\ seen = [r \in DocRuns |-> {}] /\ begun = [r \in DocRuns |-> 0]

-----------------------------------------------------------------------------
(* The table.                                                              *)

TagsIn(entries, v) == {e.tag : e \in {f \in entries : f.rev = v}}
RevisionsIn(entries) == {e.rev : e \in entries}

\* The regular expression of find_channel_tag.
IsChannelTag(tag) == tag \in Versioned \X KnownRisks

\* The risks whose name is found in a channel tag.
Shows(tag) == {k \in KnownRisks : k = tag[2] \/ <<tag[1], k>> \in Contains}

\* Mutant: the risks are walked through from the least stable one.
FindChannelTagsReversed(tags) ==
    LET found == {t \in tags : IsChannelTag(t)}
        top == {k \in KnownRisks : \E t \in found : k \in Shows(t)}
    IN  {t \in found : \E k \in Shows(t) : \A j \in top : Rank[j] <= Rank[k]}

\* The channel tags of the most stable risk that shows in one of them; the
\* last of them in the alphabet is found.
FindChannelTags(tags) ==
    LET found == {t \in tags : IsChannelTag(t)}
        top == {k \in KnownRisks : \E t \in found : k \in Shows(t)}
    IN  {t \in found : \E k \in Shows(t) : \A j \in top : Rank[k] <= Rank[j]}

FindChannelTag(tags) ==
    CHOOSE t \in FindChannelTags(tags) :
        \A u \in FindChannelTags(tags) : Alphabet[u] <= Alphabet[t]

\* A row of the table: the revision's channel, its other tags, the
\* architectures, the date if there is one, and whether it has passed.
Row(dates, entries, v, arches) ==
    LET tag == FindChannelTag(TagsIn(entries, v))
    IN  [rev |-> v, channel |-> tag, tags |-> TagsIn(entries, v) \ {tag},
         arches |-> arches,
         support |-> {dates[t] : t \in {tag[1]} \cap DOMAIN dates},
         deprecated |-> PastEndOfLife(dates, now, tag)]

\* The revisions that get a row: without a channel tag there is none.
Listable(entries) ==
    {v \in RevisionsIn(entries) : FindChannelTags(TagsIn(entries, v)) # {}}

\* What the documentation of the image is to show.
Table ==
    {Row(Overlay(eol, Override), registry, v, v) : v \in Listable(registry)}

-----------------------------------------------------------------------------
(* A run of Documentation.yaml.                                            *)

Note(entries) == seen' = [r \in DocRuns |-> seen[r] \cup entries]

\* A release that is done calls the workflow.
ReleaseThenDocument(r) ==
    /\ run[r].step = "idle" /\ released < MaxReleases
    /\ \E request \in Requests :
          \E dates \in [TracksOf(request) -> Dates] : Release(request, dates)
    /\ DocGoto(r, "start")
    /\ released' = released + 1
    /\ Note(registry')
    /\ UNCHANGED <<docs, failed, begun>>

\* Dispatched by hand, or documentation.yaml was pushed.
DocDispatch(r) ==
    /\ run[r].step = "idle" /\ registry # {}
    /\ DocGoto(r, "start")
    /\ UNCHANGED <<boardVars, docs, counters, history>>

\* fetch-releases-json, then get_all_tracks and the overrides.
GetAllTracks(r) ==
    /\ run[r].step = "start"
    /\ run' = [run EXCEPT ![r] = [Idle EXCEPT !.step = "list",
                                              !.dates = Overlay(eol, Override)]]
    /\ seen' = [seen EXCEPT ![r] = registry]
    /\ begun' = [begun EXCEPT ![r] = released]
    /\ UNCHANGED <<boardVars, docs, counters>>

\* Mutant: each page adds what is read to what it begins with, the tags of
\* the first page are listed again with the second.
DescribeImageTagsAgain(r) ==
    /\ run[r].step = "list"
    /\ run' = [run EXCEPT
                  ![r].page = @ + 1,
                  ![r].read = @ \cup {e \in registry : PageOf[e.tag] <= run[r].page + 1},
                  ![r].step = IF run[r].page + 1 = LastPage THEN "inspect" ELSE "list"]
    /\ UNCHANGED <<boardVars, docs, counters, history>>

\* One page of the tags in ECR, with the digests they have by now; the
\* last one has no nextToken.
DescribeImageTags(r) ==
    /\ run[r].step = "list"
    /\ run' = [run EXCEPT
                  ![r].page = @ + 1,
                  ![r].read = @ \cup {e \in registry : PageOf[e.tag] = run[r].page + 1},
                  ![r].step = IF run[r].page + 1 = LastPage THEN "inspect" ELSE "list"]
    /\ UNCHANGED <<boardVars, docs, counters, history>>

\* The revisions read that have no row yet.
Pending(r) == Listable(run[r].read) \ {row.rev : row \in run[r].rows}

\* get_arches inspects the channel tag, whatever it points to by now.
\* Splitting the name of its track raises when it has two dashes.
BuildRelease(r) ==
    /\ run[r].step = "inspect"
    /\ \E v \in Pending(r) :
          LET tag == FindChannelTag(TagsIn(run[r].read, v))
          IN  /\ tag[1] \notin Dashed
              /\ \E e \in registry :
                    /\ e.tag = tag
                    /\ run' = [run EXCEPT ![r].rows =
                          @ \cup {Row(run[r].dates, run[r].read, v, e.rev)}]
    /\ UNCHANGED <<boardVars, docs, counters, history>>

SplitRaises(r) ==
    /\ run[r].step = "inspect"
    /\ \E v \in Pending(r) :
          FindChannelTag(TagsIn(run[r].read, v))[1] \in Dashed
    /\ run' = [run EXCEPT ![r] = Idle]
    /\ UNCHANGED <<boardVars, docs, counters, history>>

TableBuilt(r) ==
    /\ run[r].step = "inspect" /\ Pending(r) = {}
    /\ DocGoto(r, "hub")
    /\ UNCHANGED <<boardVars, docs, counters, history>>

\* publish_docs.sh: Docker Hub first.  An error there does not keep the
\* documentation from ECR, only the job fails in the end.
PublishHub(r) ==
    /\ run[r].step = "hub"
    /\ \/ docs' = [docs EXCEPT !["hub"] = run[r].rows] /\ UNCHANGED failed
       \/ failed < MaxFailures /\ failed' = failed + 1 /\ UNCHANGED docs
    /\ DocGoto(r, "ecr")
    /\ UNCHANGED <<boardVars, released, history>>

PublishEcr(r) ==
    /\ run[r].step = "ecr"
    /\ docs' = [docs EXCEPT !["ecr"] = run[r].rows]
    /\ run' = [run EXCEPT ![r] = Idle]
    /\ UNCHANGED <<boardVars, counters, history>>

\* Any other step of the job fails.
DocFail(r) ==
    /\ run[r].step # "idle" /\ failed < MaxFailures
    /\ failed' = failed + 1
    /\ run' = [run EXCEPT ![r] = Idle]
    /\ UNCHANGED <<boardVars, docs, released, history>>

DocAdvance(r) ==
    \/ GetAllTracks(r) \/ DescribeImageTags(r) \/ BuildRelease(r)
    \/ SplitRaises(r) \/ TableBuilt(r) \/ PublishHub(r) \/ PublishEcr(r)

DocNext ==
    \E r \in DocRuns :
        ReleaseThenDocument(r) \/ DocDispatch(r) \/ DocAdvance(r) \/ DocFail(r)

DocSpec == DocInit /\ [][DocNext]_docVars

-----------------------------------------------------------------------------
\* Whatever is released while the pages are read, a tag is on one row and
\* stands there with a revision it had while the run went on; and so do
\* the architectures (generate_oci_doc_yaml.py:288-310).
TableIsTrue ==
    \A r \in DocRuns : \A row \in run[r].rows :
        LET shown == {row.channel} \cup row.tags
        IN  /\ \A t \in shown : [tag |-> t, rev |-> row.rev] \in seen[r]
            /\ [tag |-> row.channel, rev |-> row.arches] \in seen[r]
            /\ \A other \in run[r].rows \ {row} :
                  shown \cap ({other.channel} \cup other.tags) = {}

\* A run that no release has disturbed since it began publishes exactly the
\* table of what is in the registry: every revision on one row, with all its
\* tags and its most stable channel, page after page.  Where the name of a
\* track contains a more stable risk than the channel's own, the channel may
\* be chosen for that one (generate_oci_doc_yaml.py:278-332, 418-430).
UndisturbedRunIsComplete ==
    [][\A r \in DocRuns : \A g \in Registries :
          run[r].step = g /\ docs'[g] # docs[g] /\ run'[r].step # g
              /\ begun[r] = released
              => /\ docs'[g] = Table
                 /\ \A row \in Table : \A t \in row.tags :
                       /\ \A k \in Shows(row.channel) : Rank[row.channel[2]] <= Rank[k]
                       /\ IsChannelTag(t)
                       => Rank[row.channel[2]] <= Rank[t[2]]]_docVars

=============================================================================
