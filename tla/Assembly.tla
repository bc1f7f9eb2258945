------------------------------ MODULE Assembly ------------------------------
(***************************************************************************)
(* pages/assemble.mjs as a process: it reads the documentation, validates  *)
(* it, and, unless it was started with --check, renders every page and     *)
(* replaces pages/docs.  Authors edit the sources and other files of the   *)
(* checkout while it runs, so what it read and what is on disk may differ, *)
(* and it may be stopped at any point.                                     *)
(*                                                                         *)
(* One step reads, validates, renders or writes one page; the index is     *)
(* validated in one step.  Fail is an exception caught by the main block.  *)
(***************************************************************************)
EXTENDS Documentation

CONSTANTS
    Drafts,      \* file -> what authors turn it into
    Seeds,       \* the trees a run may find first
    Envs,        \* what buildContext may find in the environment and in git
    MaxEdits,    \* bound on the edits of a behaviour
    Absent,      \* a file that does not exist
    Garbled      \* a file whose front matter is not a YAML mapping

ASSUME AssemblyAssumption ==
    /\ Drafts \in [Files -> SUBSET (Content \union {Absent, Garbled})]
    /\ Seeds \subseteq [Files -> Content \union {Absent, Garbled}]
    /\ Envs \subseteq Env
    /\ MaxEdits \in Nat
    /\ Absent # Garbled /\ {Absent, Garbled} \intersect Content = {}

VARIABLES
    tree,        \* docs/: file -> content, Absent or Garbled
    disk,        \* the other paths that exist
    edits,       \* edits so far
    phase,       \* where the process is
    mode,        \* "assemble" or "check"
    repository,  \* context.repository
    section,     \* collections globbed so far
    queue,       \* files globbed and not yet read
    listed,      \* bundle.pages, in order
    pages,       \* file -> the content read
    ids,         \* bundle.ids: ID -> file
    at,          \* position of the loop over listed, or over collections
    current,     \* validateReferences: the page the walk has reached
    seen,        \* validateReferences: the IDs the walk has visited
    rendered,    \* file -> the page's output
    why,         \* why the run failed
    site,        \* pages/docs
    torn         \* a replacement of pages/docs was cut short and not redone

world  == <<tree, disk, edits>>
loaded == <<mode, repository, listed, pages>>
output == <<site, torn>>
vars   == <<tree, disk, edits, phase, mode, repository, section, queue, listed, pages, ids, at,
            current, seen, rendered, why, site, torn>>

Empty  == [f \in {} |-> None]
NoSite == [pages |-> Empty, categories |-> Empty, landings |-> {}]

\* Whether a path is on disk now.
Exists(p) == p \in disk \/ (p \in Files /\ tree[p] # Absent)

Init ==
    /\ tree \in Seeds /\ disk = Others /\ edits = 0
    /\ phase = "idle" /\ mode = "check" /\ repository = None
    /\ section = 0 /\ queue = {} /\ listed = <<>> /\ pages = Empty /\ ids = Empty
    /\ at = 1 /\ current = None /\ seen = {} /\ rendered = Empty /\ why = ""
    /\ site = NoSite /\ torn = FALSE

-----------------------------------------------------------------------------
(* The authors. *)

Write(f) ==
    /\ edits < MaxEdits
    /\ \E c \in Drafts[f] : c # tree[f] /\ tree' = [tree EXCEPT ![f] = c]
    /\ edits' = edits + 1
    /\ UNCHANGED <<disk, phase, section, queue, ids, at, current, seen, rendered, why, loaded, output>>

Touch(p) ==
    /\ edits < MaxEdits
    /\ disk' = (disk \ {p}) \union ({p} \ disk)
    /\ edits' = edits + 1
    /\ UNCHANGED <<tree, phase, section, queue, ids, at, current, seen, rendered, why, loaded, output>>

-----------------------------------------------------------------------------
(* Reading: buildContext, then loadDocumentation's first half. *)

Fail(reason) ==
    /\ phase' = "failed" /\ why' = reason
    /\ UNCHANGED <<section, queue, ids, at, current, seen, rendered>>

\* The main block; assemble evaluates its default context before it reads anything.
StartCheck ==
    /\ phase = "idle"
    /\ phase' = "overview" /\ mode' = "check"
    /\ UNCHANGED <<world, repository, listed, pages, section, queue, ids, at, current, seen, rendered, why, output>>

StartAssemble(env) ==
    /\ phase = "idle"
    /\ mode' = "assemble"
    /\ \/ RefusedURL(env) /\ Fail("repository") /\ UNCHANGED repository
       \/ /\ ~RefusedURL(env)
          /\ repository' = Candidate(env) /\ phase' = "overview"
          /\ UNCHANGED <<section, queue, ids, at, current, seen, rendered, why>>
    /\ UNCHANGED <<world, listed, pages, output>>

\* readPage: the file may be gone since it was listed.
Read(f) ==
    /\ listed' = Append(listed, f)
    /\ pages' = [g \in DOMAIN pages \union {f} |-> IF g = f THEN tree[f] ELSE pages[g]]
    /\ UNCHANGED <<mode, repository, ids, at, current, seen, rendered, why>>

Readable(f) == tree[f] \notin {Absent, Garbled}

ReadOverview ==
    /\ phase = "overview"
    /\ \/ ~Readable(Overview) /\ Fail("unreadable") /\ UNCHANGED loaded
       \/ Readable(Overview) /\ Read(Overview) /\ phase' = "glob" /\ UNCHANGED <<section, queue>>
    /\ UNCHANGED <<world, output>>

\* globSync of the next collection, or the end of reading.
Glob ==
    /\ phase = "glob" /\ queue = {}
    /\ \/ /\ section < Len(collections)
          /\ section' = section + 1
          /\ queue' = {f \in Files : Collection[f] = collections[section + 1] /\ tree[f] # Absent}
          /\ UNCHANGED phase
       \/ section = Len(collections) /\ phase' = "metadata" /\ UNCHANGED <<section, queue>>
    /\ UNCHANGED <<world, loaded, ids, at, current, seen, rendered, why, output>>

ReadPage ==
    /\ phase = "glob"
    /\ \E f \in queue :
          /\ IsFirst(f, queue)
          /\ \/ ~Readable(f) /\ Fail("unreadable") /\ UNCHANGED loaded
             \/ Readable(f) /\ Read(f) /\ queue' = queue \ {f} /\ UNCHANGED <<phase, section>>
    /\ UNCHANGED <<world, output>>

-----------------------------------------------------------------------------
(* Validating. *)

\* The loop over the pages goes on; after the last one the next phase begins.
Advance(next) ==
    IF at < Len(listed) THEN at' = at + 1 /\ UNCHANGED phase
                        ELSE at' = 1 /\ phase' = next

\* validateMetadata of one page, then its links.
CheckPage ==
    /\ phase = "metadata"
    /\ LET f == listed[at]
           c == pages[f]
       IN  \/ ~MetadataOK(f, c, DOMAIN ids) /\ Fail("content")
           \/ MetadataOK(f, c, DOMAIN ids) /\ Outside \in Mentioned(c) /\ Fail("content")
           \/ MetadataOK(f, c, DOMAIN ids) /\ (\E p \in Local(c) : ~Exists(p)) /\ Fail("files")
           \/ /\ MetadataOK(f, c, DOMAIN ids)
              /\ Outside \notin Mentioned(c)
              /\ \A p \in Local(c) : Exists(p)
              /\ ids' = [i \in DOMAIN ids \union {c.id} |-> IF i = c.id THEN f ELSE ids[i]]
              /\ Advance("related")
              /\ UNCHANGED <<section, queue, current, seen, rendered, why>>
    /\ UNCHANGED <<world, loaded, output>>

\* validateReferences, the head of its loop: the related IDs; then the walk starts here.
CheckRelated ==
    /\ phase = "related"
    /\ LET f == listed[at]
       IN  \/ ~(pages[f].related \subseteq DOMAIN ids) /\ Fail("content")
           \/ /\ pages[f].related \subseteq DOMAIN ids
              /\ current' = f /\ seen' = {pages[f].id} /\ phase' = "replaced"
              /\ UNCHANGED <<section, queue, ids, at, rendered, why>>
    /\ UNCHANGED <<world, loaded, output>>

\* An ID superseded_by may name.
MayReplace(id) == id \in DOMAIN ids /\ Replaces(ids[id], pages[ids[id]])

\* Mutant: the walk does not remember where it has been.
FollowReplacementForgetful ==
    /\ phase = "replaced"
    /\ LET id == pages[current].supersededBy
       IN  \/ /\ id = None
              /\ IF at < Len(listed) THEN at' = at + 1 /\ phase' = "related"
                                     ELSE at' = 1 /\ phase' = "index"
              /\ UNCHANGED <<section, queue, ids, current, seen, rendered, why>>
           \/ /\ id # None
              /\ ~MayReplace(id)
              /\ Fail("content")
           \/ /\ id # None /\ MayReplace(id)
              /\ current' = ids[id]
              /\ UNCHANGED <<phase, section, queue, ids, at, seen, rendered, why>>
    /\ UNCHANGED <<world, loaded, output>>

\* The walk along superseded_by.
FollowReplacement ==
    /\ phase = "replaced"
    /\ LET id == pages[current].supersededBy
       IN  \/ /\ id = None
              /\ IF at < Len(listed) THEN at' = at + 1 /\ phase' = "related"
                                     ELSE at' = 1 /\ phase' = "index"
              /\ UNCHANGED <<section, queue, ids, current, seen, rendered, why>>
           \/ /\ id # None
              /\ ~MayReplace(id) \/ id \in seen
              /\ Fail("content")
           \/ /\ id # None /\ MayReplace(id) /\ id \notin seen
              /\ current' = ids[id] /\ seen' = seen \union {id}
              /\ UNCHANGED <<phase, section, queue, ids, at, rendered, why>>
    /\ UNCHANGED <<world, loaded, output>>

\* validateIndex; each row's link is looked up on disk again, and the first error of
\* either kind ends it.  With --check this is the end.
CheckIndex ==
    /\ phase = "index"
    /\ LET rows   == pages[Overview].index
           linked == UNION {{rows[k].links[n] : n \in DOMAIN rows[k].links} : k \in DOMAIN rows}
           gone   == \E p \in linked \ {External} : ~Exists(p)
       IN  \/ gone /\ Fail("files")
           \/ ~IndexOK(pages) /\ Fail("content")
           \/ /\ ~gone /\ IndexOK(pages)
              /\ phase' = IF mode = "check" THEN "done" ELSE "render"
              /\ UNCHANGED <<section, queue, ids, at, current, seen, rendered, why>>
    /\ UNCHANGED <<world, loaded, output>>

-----------------------------------------------------------------------------
(* Rendering and replacing pages/docs. *)

\* renderPage: links are resolved once more, and the footer needs a repository.
RenderPage ==
    /\ phase = "render"
    /\ LET f == listed[at]
           c == pages[f]
           gone == \E p \in Local(c) : ~Exists(p)
       IN  \/ gone /\ Fail("files")
           \/ BadImage(pages, c) /\ Fail("image")
           \/ repository = None /\ Fail("repository")
           \/ /\ ~gone /\ ~BadImage(pages, c) /\ repository # None
              /\ rendered' = [g \in DOMAIN rendered \union {f} |->
                                IF g = f THEN [content |-> c, leads |-> Leads(pages, ids, f), repository |-> repository]
                                         ELSE rendered[g]]
              /\ Advance("remove")
              /\ UNCHANGED <<section, queue, ids, current, seen, why>>
    /\ UNCHANGED <<world, loaded, output>>

\* Mutant: the output directory is written over, not removed.
RemoveOutputKeeping ==
    /\ phase = "remove"
    /\ phase' = "write" /\ UNCHANGED <<site, torn>>
    /\ UNCHANGED <<world, loaded, section, queue, ids, at, current, seen, rendered, why>>

\* fs.rmSync of pages/docs.
RemoveOutput ==
    /\ phase = "remove"
    /\ phase' = "write" /\ site' = NoSite
    /\ UNCHANGED <<world, loaded, section, queue, ids, at, current, seen, rendered, why, torn>>

WritePage ==
    /\ phase = "write"
    /\ LET f == listed[at]
       IN  site' = [site EXCEPT !.pages = [g \in DOMAIN @ \union {f} |-> IF g = f THEN rendered[f] ELSE @[g]]]
    /\ Advance("categories")
    /\ UNCHANGED <<world, loaded, section, queue, ids, current, seen, rendered, why, torn>>

\* One collection: the landing page of an empty recorded collection, then its category
\* file.  After the last one the replacement is complete.
WriteCategory ==
    /\ phase = "categories"
    /\ LET c     == collections[at]
           empty == c \in Recorded /\ \A f \in DOMAIN pages : Collection[f] # c
       IN  site' = [site EXCEPT !.landings = IF empty THEN @ \union {c} ELSE @,
                                !.categories = [d \in DOMAIN @ \union {c} |->
                                    IF d # c THEN @[d] ELSE IF empty THEN "doc" ELSE "generated-index"]]
    /\ IF at < Len(collections) THEN at' = at + 1 /\ UNCHANGED <<phase, torn>>
                                ELSE at' = 1 /\ phase' = "done" /\ torn' = FALSE
    /\ UNCHANGED <<world, loaded, section, queue, ids, current, seen, rendered, why>>

Replacing == phase \in {"remove", "write", "categories"}

\* The process ends: at its end, or because it was stopped or could not write.  The
\* next one starts from nothing.
Reset ==
    /\ phase' = "idle" /\ mode' = "check" /\ repository' = None
    /\ section' = 0 /\ queue' = {} /\ listed' = <<>> /\ pages' = Empty /\ ids' = Empty
    /\ at' = 1 /\ current' = None /\ seen' = {} /\ rendered' = Empty /\ why' = ""
    /\ UNCHANGED world

Exit ==
    /\ phase \in {"done", "failed"}
    /\ Reset /\ UNCHANGED output

\* Stopped before anything was replaced, or between two writes.
Die ==
    /\ phase \notin {"idle", "done", "failed"}
    /\ torn' = (torn \/ phase \in {"write", "categories"})
    /\ Reset /\ UNCHANGED site

\* Stopped, or refused by the file system, with some of the directories of the old output
\* removed: those of a collection and all before it.
DieRemoving ==
    /\ phase = "remove"
    /\ \E k \in DOMAIN collections :
          LET gone == {collections[n] : n \in 1..k}
          IN  site' = [pages      |-> [f \in {g \in DOMAIN site.pages : Collection[g] \notin gone} |-> site.pages[f]],
                       categories |-> [c \in DOMAIN site.categories \ gone |-> site.categories[c]],
                       landings   |-> site.landings \ gone]
    /\ torn' = TRUE
    /\ Reset

-----------------------------------------------------------------------------

Run ==
    \/ ReadOverview \/ Glob \/ ReadPage
    \/ CheckPage \/ CheckRelated \/ FollowReplacement \/ CheckIndex
    \/ RenderPage \/ RemoveOutput \/ WritePage \/ WriteCategory
    \/ Exit

Next ==
    \/ \E f \in Files : Write(f)
    \/ \E p \in Others : Touch(p)
    \/ StartCheck
    \/ \E env \in Envs : StartAssemble(env)
    \/ Run
    \/ Die \/ DieRemoving

Spec == Init /\ [][Next]_vars

\* A started process keeps running until it ends.
FairSpec == Spec /\ WF_vars(Run)
-----------------------------------------------------------------------------
(* Properties. *)

Output == [content: Content, leads: SUBSET Files, repository: URL]

\* A function from part of D to R.
Partial(h, D, R) == DOMAIN h \subseteq D /\ \A d \in DOMAIN h : h[d] \in R

TypeOK ==
    /\ tree \in [Files -> Content \union {Absent, Garbled}] /\ disk \subseteq Others /\ edits \in 0..MaxEdits
    /\ phase \in {"idle", "overview", "glob", "metadata", "related", "replaced", "index", "render",
                  "remove", "write", "categories", "done", "failed"}
    /\ mode \in {"check", "assemble"} /\ repository \in URL \union {None}
    /\ section \in 0..Len(collections) /\ queue \subseteq Files /\ listed \in Seq(Files)
    /\ Partial(pages, Files, Content) /\ Partial(ids, Ids, Files)
    /\ at \in Nat \ {0} /\ current \in Files \union {None} /\ seen \subseteq Ids
    /\ Partial(rendered, Files, Output)
    /\ why \in {"", "unreadable", "content", "files", "image", "repository"}
    /\ site = [pages |-> site.pages, categories |-> site.categories, landings |-> site.landings]
    /\ Partial(site.pages, Files, Output) /\ Partial(site.categories, Names, {"doc", "generated-index"})
    /\ site.landings \subseteq Recorded
    /\ torn \in BOOLEAN

\* Validation is exact.  A run goes on to render, or reports success to --check, only if
\* the pages it read are sound; and a run that blames the content is right: the pages it
\* read are not sound.
ValidationExact ==
    /\ phase \in {"render", "remove", "write", "categories", "done"} => Sound(pages)
    /\ phase = "failed" /\ why = "content" => ~Sound(pages)

\* A whole site: it has an overview, every link between documents leads to a page it has,
\* its pages are coherent with one another, none of its URLs carries credentials, every
\* collection has its category file, and exactly the recorded collections without a page
\* have a landing page.
Whole(s) ==
    /\ Overview \in DOMAIN s.pages
    /\ \A f \in DOMAIN s.pages : s.pages[f].leads \subseteq DOMAIN s.pages
    /\ Coherent([f \in DOMAIN s.pages |-> s.pages[f].content])
    /\ \A f \in DOMAIN s.pages : s.pages[f].repository.kind = "web" /\ ~s.pages[f].repository.credentials
    /\ DOMAIN s.categories = Names
    /\ s.landings = {c \in Recorded : \A f \in DOMAIN s.pages : Collection[f] # c}
    /\ \A c \in Names : s.categories[c] = "doc" <=> c \in s.landings

\* "Validate all sources before replacing the generated directory": whatever authors
\* change while the assembler runs and whichever check refuses, pages/docs is whole
\* except while it is being replaced or after a replacement was cut short; nothing of an
\* earlier site is left in it.
SiteWhole == Replacing \/ torn \/ site = NoSite \/ Whole(site)

\* A started run ends, also when decisions replace one another in a circle.
RunsEnd == phase # "idle" ~> phase = "idle"

\* The documentation guide and the error text of validateMetadata: superseded_by is
\* used on superseded decisions only.
ReplacedOnlySuperseded ==
    phase = "done" => \A f \in DOMAIN pages :
        pages[f].supersededBy # None => Collection[f] = "decisions" /\ pages[f].status = "superseded"
=============================================================================
