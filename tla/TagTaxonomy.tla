----------------------------- MODULE TagTaxonomy -----------------------------
(***************************************************************************)
(* The table platform_tags and its two writers for Polymarket.  Every      *)
(* write goes through upsert_platform_tag of workers/taxonomy.py, which    *)
(* overwrites parent_ids and the display flags of the row:                 *)
(*   - the tag sync (run_polymarket_tag_sync of workers/polymarket/        *)
(*     ingest.py) lists the tags, asks for the children of each of them,   *)
(*     three at a time with six attempts each, and writes every tag with   *)
(*     the parents it was found under;                                     *)
(*   - a catalogue sync writes the tags of each event it upserts, which    *)
(*     come without parents and flags.                                     *)
(***************************************************************************)
EXTENDS Naturals, FiniteSets

CONSTANTS
    Tags,
    TopLevel,      \* the tags that GET /tags lists
    Children,      \* external: the related tags of each tag
    Flagged,       \* external: tags with isCarousel, forceShow or forceHide
    Permits,       \* the semaphore of run_polymarket_tag_sync (3 in the code)
    Attempts,      \* max_retries of _fetch_tag_children (6 in the code)
    Faults,        \* which faults may happen, here and in the catalogue sync
    MaxMishaps     \* bound: how many of them in one behaviour

ASSUME TagConstantsAssumption ==
    /\ TopLevel \subseteq Tags /\ Flagged \subseteq Tags
    /\ Children \in [Tags -> SUBSET Tags]
    /\ Permits \in Nat \ {0}
    /\ Attempts \in Nat \ {0}
    /\ Faults \subseteq {"fetch", "row", "die", "relist", "limited"}
    /\ MaxMishaps \in Nat

VARIABLES
    tagRow,      \* platform_tags
    tagStep,     \* what the tag sync does
    listedTags,  \* tags_map after step 1
    waiting,     \* fetches of children that wait for a permit
    attempt,     \* the fetches that hold one, with the attempts they have made
    answered,    \* the tags whose children were answered
    queue,       \* the tags still to upsert
    \* history:
    wanting,     \* tags whose row was written without a parent they have
    mishaps      \* how many faults there were

tagState == <<tagRow, tagStep, listedTags, waiting, attempt, answered, queue, wanting>>
tagVars == <<tagState, mishaps>>

-----------------------------------------------------------------------------
NoRow == [parents |-> {}, flags |-> FALSE, present |-> FALSE]
Row(parents, flags) == [parents |-> parents, flags |-> flags, present |-> TRUE]

ParentsOf(t) == {p \in Tags : t \in Children[p]}
Reported(t) == Row(ParentsOf(t) \cap TopLevel, t \in Flagged)

\* A fault: a page or an answer that does not come (fetch), a statement that
\* fails (row), a run that is cut short (die), a list that changes (relist).
Mishap(kind) ==
    /\ kind \in Faults
    /\ mishaps < MaxMishaps
    /\ mishaps' = mishaps + 1

Holding == {t \in Tags : attempt[t] # 0}

TagTypeOK ==
    /\ tagRow \in [Tags -> [parents : SUBSET Tags, flags : BOOLEAN, present : BOOLEAN]]
    /\ tagStep \in {"idle", "children", "upsert", "sports"}
    /\ listedTags \in SUBSET TopLevel
    /\ waiting \in SUBSET Tags
    /\ attempt \in [Tags -> 0..Attempts]
    /\ Cardinality(Holding) <= Permits
    /\ answered \in SUBSET Tags
    /\ queue \in SUBSET Tags
    /\ wanting \in SUBSET Tags
    /\ mishaps \in 0..MaxMishaps

TagInit ==
    /\ tagRow = [t \in Tags |-> NoRow]
    /\ tagStep = "idle"
    /\ listedTags = {}
    /\ waiting = {}
    /\ attempt = [t \in Tags |-> 0]
    /\ answered = {}
    /\ queue = {}
    /\ wanting = {}
    /\ mishaps = 0

-----------------------------------------------------------------------------
(* The tag sync.                                                             *)

\* _fetch_all_tags: a page that fails ends the list with what has come so far.
ListTags(S) ==
    /\ tagStep = "idle"
    /\ S \subseteq TopLevel
    /\ IF S = TopLevel THEN UNCHANGED mishaps ELSE Mishap("fetch")
    /\ tagStep' = "children"
    /\ listedTags' = S
    /\ waiting' = S
    /\ answered' = {}
    /\ UNCHANGED <<tagRow, attempt, queue, wanting>>

AcquirePermit_NoSemaphore(t) ==
    /\ t \in waiting
    /\ waiting' = waiting \ {t}
    /\ attempt' = [attempt EXCEPT ![t] = 1]
    /\ UNCHANGED <<tagRow, tagStep, listedTags, answered, queue, wanting, mishaps>>

AcquirePermit(t) ==
    /\ t \in waiting
    /\ Cardinality(Holding) < Permits
    /\ waiting' = waiting \ {t}
    /\ attempt' = [attempt EXCEPT ![t] = 1]
    /\ UNCHANGED <<tagRow, tagStep, listedTags, answered, queue, wanting, mishaps>>

ChildrenAnswered(t) ==
    /\ t \in Holding
    /\ attempt' = [attempt EXCEPT ![t] = 0]
    /\ answered' = answered \cup {t}
    /\ UNCHANGED <<tagRow, tagStep, listedTags, waiting, queue, wanting, mishaps>>

ChildrenLimited_Forever(t) ==
    /\ "limited" \in Faults
    /\ t \in Holding
    /\ attempt' = [attempt EXCEPT ![t] = IF @ = Attempts THEN 1 ELSE @ + 1]
    /\ UNCHANGED <<tagRow, tagStep, listedTags, waiting, answered, queue, wanting, mishaps>>

\* Status 429: the fetch keeps its permit, sleeps and asks again; after the last
\* attempt it gives an empty list.
ChildrenLimited(t) ==
    /\ "limited" \in Faults
    /\ t \in Holding
    /\ attempt' = [attempt EXCEPT ![t] = IF @ = Attempts THEN 0 ELSE @ + 1]
    /\ UNCHANGED <<tagRow, tagStep, listedTags, waiting, answered, queue, wanting, mishaps>>

\* Any other status or an exception: an empty list at once.
ChildrenFail(t) ==
    /\ Mishap("fetch")
    /\ t \in Holding
    /\ attempt' = [attempt EXCEPT ![t] = 0]
    /\ UNCHANGED <<tagRow, tagStep, listedTags, waiting, answered, queue, wanting>>

\* asyncio.gather has every answer: the tags listed or found as a child.
Gathered ==
    /\ tagStep = "children"
    /\ waiting = {} /\ Holding = {}
    /\ tagStep' = "upsert"
    /\ queue' = listedTags \cup UNION {Children[p] : p \in answered}
    /\ UNCHANGED <<tagRow, listedTags, waiting, attempt, answered, wanting, mishaps>>

FoundParents_First(t) ==
    LET found == {p \in answered : t \in Children[p]} IN
    IF found = {} THEN {} ELSE {CHOOSE p \in found : TRUE}

FoundParents(t) == {p \in answered : t \in Children[p]}

UpsertTag(t) ==
    /\ tagStep = "upsert" /\ t \in queue
    /\ tagRow' = [tagRow EXCEPT ![t] = Row(FoundParents(t), t \in Flagged)]
    /\ queue' = queue \ {t}
    /\ wanting' = IF ParentsOf(t) \cap TopLevel \subseteq answered
                  THEN wanting \ {t} ELSE wanting \cup {t}
    /\ UNCHANGED <<tagStep, listedTags, waiting, attempt, answered, mishaps>>

\* upsert_platform_tag swallows the exception of its statement.
SkipTag(t) ==
    /\ Mishap("row")
    /\ tagStep = "upsert" /\ t \in queue
    /\ queue' = queue \ {t}
    /\ UNCHANGED <<tagRow, tagStep, listedTags, waiting, attempt, answered, wanting>>

AllUpserted ==
    /\ tagStep = "upsert" /\ queue = {}
    /\ tagStep' = "sports"
    /\ UNCHANGED <<tagRow, listedTags, waiting, attempt, answered, queue, wanting, mishaps>>

\* sports_metadata is written by one statement; without an answer it is left alone.
SyncSports ==
    /\ tagStep = "sports"
    /\ tagStep' = "idle"
    /\ UNCHANGED <<tagRow, listedTags, waiting, attempt, answered, queue, wanting, mishaps>>

TagSyncProceeds ==
    \/ \E t \in Tags :
        \/ AcquirePermit(t)
        \/ ChildrenAnswered(t) \/ ChildrenLimited(t) \/ ChildrenFail(t)
        \/ UpsertTag(t) \/ SkipTag(t)
    \/ Gathered
    \/ AllUpserted
    \/ SyncSports

\* One tag of an event, as _upsert_event writes it.
WriteEventTag(t) ==
    /\ tagRow' = [tagRow EXCEPT ![t] = Row({}, FALSE)]
    /\ wanting' = wanting \cup {t}
    /\ UNCHANGED <<tagStep, listedTags, waiting, attempt, answered, queue, mishaps>>

-----------------------------------------------------------------------------
(* Properties.                                                               *)

\* A tag row carries the parents and the flags Polymarket reports, unless an event
\* was upserted with the tag after the last tag sync that wrote it, or that sync
\* got no answer about one of its parents.  In particular a tag that is listed
\* and found below two others keeps both.
LinksAccounted ==
    \A t \in Tags : tagRow[t].present => tagRow[t] = Reported(t) \/ t \in wanting

\* However often Polymarket answers 429, the tag sync comes to its end.
TagSyncEnds == (tagStep # "idle") ~> (tagStep = "idle")
=============================================================================
