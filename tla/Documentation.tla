---------------------------- MODULE Documentation ----------------------------
(***************************************************************************)
(* The documentation sources as pages/assemble.mjs sees them: the front    *)
(* matter and the links of a page, the checks one page or the whole index  *)
(* must pass, the repository its links are published under, and what a     *)
(* sound set of pages is, stated without the order the checks run in.      *)
(*                                                                         *)
(* A page's text is abstracted to the fields the checks read.  A link is   *)
(* the path it names (its suffix does not matter here), Outside when it    *)
(* leaves the checkout, or External when localTarget ignores it (another   *)
(* scheme, a site route or a fragment).                                    *)
(***************************************************************************)
EXTENDS Naturals, Sequences

CONSTANTS
    Order,        \* every documentation file, in the order glob and sort give
    Collection,   \* file -> the directory it lives in, "overview" for docs/README.md
    Overview,     \* docs/README.md
    Others,       \* the other paths of the checkout: sources, images, directories
    Directories,  \* those that are directories
    Readme,       \* directory -> its README.md
    Ids,          \* the document IDs
    Prefix,       \* ID -> "REQ", "ADR" or "none"
    Number,       \* ID -> the number after its prefix
    None, Outside, External

Files == {Order[k] : k \in DOMAIN Order}

\* The first of some files in that order.
IsFirst(f, S) == \E k \in DOMAIN Order : Order[k] = f /\ \A j \in DOMAIN Order : Order[j] \in S => k <= j

collections == <<"handbook", "requirements", "decisions", "templates">>
Names == {collections[k] : k \in DOMAIN collections}

\* The collections whose records have a status.
Recorded == {"requirements", "decisions"}
statuses(c) == IF c = "requirements" THEN {"draft", "accepted", "retired"}
                                     ELSE {"proposed", "accepted", "rejected", "superseded"}

Targets == Files \union Others \union {Outside, External}
Row     == [section: Names, links: Seq(Targets), purpose: BOOLEAN]
Content == [wellFormed: BOOLEAN,      \* the checks of one field's syntax: id, title, related, date
            collection: Names \union {"overview"},
            id: Ids,
            position: Nat,            \* sidebar_position; 0 where it is not a positive integer
            status: {"", "draft", "accepted", "retired", "proposed", "rejected", "superseded"},
            supersededBy: Ids \union {None},
            related: SUBSET Ids,
            links: SUBSET Targets,
            images: SUBSET Targets,
            index: Seq(Row)]          \* the table rows below a collection's heading

ASSUME DocumentationAssumption ==
    /\ Order \in Seq(Files)
    /\ \A j, k \in DOMAIN Order : Order[j] = Order[k] => j = k
    /\ Overview \in Files
    /\ Collection \in [Files -> Names \union {"overview"}]
    /\ \A f \in Files : Collection[f] = "overview" <=> f = Overview
    /\ Directories \subseteq Others
    /\ Readme \in [Directories -> Files \union {None}]
    /\ Files \intersect Others = {}
    /\ {None, Outside, External} \intersect (Files \union Others \union Ids) = {}
    /\ Outside # External
    /\ Prefix \in [Ids -> {"REQ", "ADR", "none"}]
    /\ Number \in [Ids -> Nat]

-----------------------------------------------------------------------------
(* One page. *)

\* Every url of the page: the cells of its index tables hold links too.
Mentioned(c) == c.links \union c.images
                \union UNION {{r.links[k] : k \in DOMAIN r.links} : r \in {c.index[n] : n \in DOMAIN c.index}}

\* What localTarget looks up on disk.
Local(c) == Mentioned(c) \ {Outside, External}

\* validateMetadata, given the IDs of the pages before this one.
MetadataOK(f, c, known) ==
    /\ c.wellFormed
    /\ c.collection = Collection[f]
    /\ Collection[f] = "handbook" => c.position >= 1
    /\ c.id \notin known
    /\ Collection[f] \in Recorded =>
          /\ Prefix[c.id] = (IF Collection[f] = "requirements" THEN "REQ" ELSE "ADR")
          /\ c.status \in statuses(Collection[f])
    /\ Collection[f] = "decisions" => (c.status = "superseded" <=> c.supersededBy # None)

\* What a replacement must be, on the page that has its ID.
Replaces(f, c) == Collection[f] = "decisions" /\ c.status \in {"accepted", "superseded"}

-----------------------------------------------------------------------------
(* The index of the overview page; pages maps the files read to content. *)

\* The positions of the rows below the heading of collection c.
Section(pages, c) == {k \in DOMAIN pages[Overview].index : pages[Overview].index[k].section = c}

\* The page the row at position k links to first.
Entry(pages, k) == pages[Overview].index[k].links[1]

\* A row: a purpose, and one link, to a page that belongs below this heading.
RowOK(pages, r) ==
    /\ r.purpose
    /\ Len(r.links) = 1
    /\ r.links[1] \in DOMAIN pages
    /\ Collection[r.links[1]] = r.section

\* What a collection is ordered by.
Rank(pages, f) == IF Collection[f] = "handbook" THEN pages[f].position ELSE Number[pages[f].id]

\* Mutant: two records may have the same number.
AscendingTies(pages, j, k) == Rank(pages, Entry(pages, j)) <= Rank(pages, Entry(pages, k))

\* The test of two neighbours in the list of a collection.
Ascending(pages, j, k) == Rank(pages, Entry(pages, j)) < Rank(pages, Entry(pages, k))

\* validateIndex, its existence checks apart: the rows, the unused positions, and per
\* collection no page missing, none twice, neighbours ascending.
IndexOK(pages) ==
    /\ \A k \in DOMAIN pages[Overview].index : RowOK(pages, pages[Overview].index[k])
    /\ \A f, g \in DOMAIN pages :
          f # g /\ Collection[f] = "handbook" /\ Collection[g] = "handbook"
              => pages[f].position # pages[g].position
    /\ \A c \in Names :
          LET rows == Section(pages, c)
          IN  /\ \A j, k \in rows : j # k => Entry(pages, j) # Entry(pages, k)
              /\ \A f \in DOMAIN pages : Collection[f] = c => \E k \in rows : Entry(pages, k) = f
              /\ c # "templates" =>
                    \A j, k \in rows :
                        j < k /\ (\A n \in rows : n <= j \/ k <= n) => Ascending(pages, j, k)

-----------------------------------------------------------------------------
(* Rendering. *)

\* The page a local target is published as: the page itself, or the README of a directory.
Destinations(pages, p) ==
    {f \in DOMAIN pages : f = p \/ (p \in Directories /\ Readme[p] = f)}

\* The pages the rendered page leads to: its links and images, its replacement (records
\* only) and its related documents.
Leads(pages, ids, f) ==
    LET c == pages[f]
    IN  (UNION {Destinations(pages, p) : p \in Local(c)})
        \union {ids[r] : r \in c.related}
        \union (IF Collection[f] \in Recorded /\ c.supersededBy # None THEN {ids[c.supersededBy]} ELSE {})

\* An image that names a directory no page stands for.
BadImage(pages, c) ==
    \E p \in c.images \intersect Directories : Destinations(pages, p) = {}

-----------------------------------------------------------------------------
(* buildContext: a URL is its kind and whether it carries credentials. *)

URL == [kind: {"web", "ssh", "scp", "path"}, credentials: BOOLEAN]
Env == [explicit: URL \union {None}, ci: URL \union {None}, origin: URL \union {None}]

\* DOCS_REPOSITORY_URL, else the CI repository, else the origin: a web origin as it is,
\* an ssh or scp one as the https URL of its host and path.
Candidate(env) ==
    IF env.explicit # None THEN env.explicit
    ELSE IF env.ci # None THEN env.ci
    ELSE IF env.origin = None THEN None
    ELSE CASE env.origin.kind = "web"           -> env.origin
           [] env.origin.kind \in {"ssh", "scp"} -> [kind |-> "web", credentials |-> FALSE]
           [] env.origin.kind = "path"          -> None

\* The error of buildContext.
RefusedURL(env) ==
    Candidate(env) # None /\ (Candidate(env).kind # "web" \/ Candidate(env).credentials)

-----------------------------------------------------------------------------
(* What makes a set of pages sound, whatever order it is checked in. *)

\* Sets of IDs that hold the replacement of each of their members.
Closed(pages, S) ==
    \A f \in DOMAIN pages :
        pages[f].id \in S /\ pages[f].supersededBy # None => pages[f].supersededBy \in S

\* Following replacements from a page leads, through decisions only, to an accepted one.
ReplacedSoundly(pages, f) ==
    pages[f].supersededBy # None =>
        /\ \E g \in DOMAIN pages : pages[g].id = pages[f].supersededBy /\ Replaces(g, pages[g])
        /\ \E g \in DOMAIN pages :
              /\ Collection[g] = "decisions" /\ pages[g].status = "accepted"
              /\ \A S \in SUBSET Ids : pages[f].id \in S /\ Closed(pages, S) => pages[g].id \in S

\* The index lists the pages of a collection once each, and wherever two are listed the
\* one with the lower rank comes first.
IndexSound(pages, c) ==
    LET rows == Section(pages, c)
        mine == {f \in DOMAIN pages : Collection[f] = c}
    IN  /\ \A f \in mine : \E k \in rows : \A j \in rows : Entry(pages, j) = f <=> j = k
        /\ \A j, k \in rows :
              j < k /\ c # "templates" => Rank(pages, Entry(pages, j)) < Rank(pages, Entry(pages, k))

\* Each page by itself and the references between pages.
Coherent(pages) ==
    /\ \A f \in DOMAIN pages : MetadataOK(f, pages[f], {}) /\ Outside \notin Mentioned(pages[f])
    /\ \A f, g \in DOMAIN pages : pages[f].id = pages[g].id => f = g
    /\ \A f \in DOMAIN pages : pages[f].related \subseteq {pages[g].id : g \in DOMAIN pages}
    /\ \A f \in DOMAIN pages : ReplacedSoundly(pages, f)

Sound(pages) ==
    /\ Coherent(pages)
    /\ \A k \in DOMAIN pages[Overview].index : RowOK(pages, pages[Overview].index[k])
    /\ \A c \in Names : IndexSound(pages, c)
=============================================================================
