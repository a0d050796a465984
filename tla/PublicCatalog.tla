--------------------------- MODULE PublicCatalog ---------------------------
(***************************************************************************)
(* Software entries, categories and tags as their services change them,    *)
(* and the queries behind the public pages.                                *)
(*                                                                         *)
(* Creating, editing and deleting run on the event loop, one at a time.    *)
(* Transitions run beside them and write other columns; how they overlap   *)
(* is the subject of Catalog.  A form may be older than the rows whose ids *)
(* it names: every id is submitted in every state.                         *)
(***************************************************************************)
EXTENDS CatalogPolicies, FilePolicies, Naturals, FiniteSetsExt, Functions

CONSTANTS
    Slugs, LabelSlugs,                  \* normalised slugs, of entries and of labels
    MaxSoftware, MaxCategory, MaxTag,   \* bounds: row ids
    MaxRows,                            \* bound: the rows of the four tables together
    SoftwareTargets, FileTargets,       \* the statuses that administrators ask for
    Visibilities,                       \* and the visibilities
    WithRelease,                        \* bound: the entries that get a release
    HomeLimit, FacetLimit,              \* labels at most on the home page (12), beside the catalog (100)
    SitemapLimit, EntryLimit            \* in the sitemap: categories (1000) and entries (24000)

NoCategory == 0

ASSUME PublicAssumption ==
    /\ {MaxSoftware, MaxCategory, MaxTag, MaxRows} \subseteq Nat \ {0}
    /\ SoftwareTargets \subseteq SoftwareStatus /\ FileTargets \subseteq FileStatus
    /\ Visibilities \subseteq Visibility
    /\ WithRelease \subseteq 1..MaxSoftware
    /\ {HomeLimit, FacetLimit, SitemapLimit, EntryLimit} \subseteq Nat \ {0}

VARIABLES
    software,     \* row id -> entry, for the rows there are
    categories,   \* row id -> category
    tags,         \* row id -> tag
    releases      \* entry id -> its release with its one file

vars == <<software, categories, tags, releases>>

Entry == [slug : Slugs, status : SoftwareStatus, visibility : Visibility,
          category : 1..MaxCategory \cup {NoCategory}, tags : SUBSET (1..MaxTag)]
Category == [slug : LabelSlugs, visible : BOOLEAN]
Tag == [slug : LabelSlugs]
Release == [status : ReleaseStatus, file : FileStatus \cup {"none"}, visibility : Visibility]

NoRows == [i \in {} |-> {}]
Init == software = NoRows /\ categories = NoRows /\ tags = NoRows /\ releases = NoRows

Put(rows, i, row) == [j \in DOMAIN rows \cup {i} |-> IF j = i THEN row ELSE rows[j]]
NextId(rows) == IF DOMAIN rows = {} THEN 1 ELSE Max(DOMAIN rows) + 1

RowLeft == Cardinality(DOMAIN software) + Cardinality(DOMAIN categories)
             + Cardinality(DOMAIN tags) + Cardinality(DOMAIN releases) < MaxRows

\* No row but i itself has the slug.
SlugFree(rows, slug, i) == \A j \in DOMAIN rows \ {i} : rows[j].slug # slug

-----------------------------------------------------------------------------
(* CategoryService and TagService *)

CreateCategory(slug, visible) ==
    /\ SlugFree(categories, slug, 0)
    /\ NextId(categories) <= MaxCategory /\ RowLeft
    /\ categories' = Put(categories, NextId(categories), [slug |-> slug, visible |-> visible])
    /\ UNCHANGED <<software, tags, releases>>

UpdateCategory(i, slug, visible) ==
    /\ i \in DOMAIN categories
    /\ SlugFree(categories, slug, i)
    /\ categories' = Put(categories, i, [slug |-> slug, visible |-> visible])
    /\ UNCHANGED <<software, tags, releases>>

\* Mutant: the foreign key is not set to NULL.
KeepCategory(i) == software

\* ON DELETE SET NULL
WithoutCategory(i) == [s \in DOMAIN software |->
    IF software[s].category = i THEN [software[s] EXCEPT !.category = NoCategory]
    ELSE software[s]]

DeleteCategory(i) ==
    /\ i \in DOMAIN categories
    /\ categories' = Restrict(categories, DOMAIN categories \ {i})
    /\ software' = WithoutCategory(i)
    /\ UNCHANGED <<tags, releases>>

CreateTag(slug) ==
    /\ SlugFree(tags, slug, 0)
    /\ NextId(tags) <= MaxTag /\ RowLeft
    /\ tags' = Put(tags, NextId(tags), [slug |-> slug])
    /\ UNCHANGED <<software, categories, releases>>

UpdateTag(i, slug) ==
    /\ i \in DOMAIN tags
    /\ SlugFree(tags, slug, i)
    /\ tags' = Put(tags, i, [slug |-> slug])
    /\ UNCHANGED <<software, categories, releases>>

\* ON DELETE CASCADE in software_tags
DeleteTag(i) ==
    /\ i \in DOMAIN tags
    /\ tags' = Restrict(tags, DOMAIN tags \ {i})
    /\ software' = [s \in DOMAIN software |-> [software[s] EXCEPT !.tags = @ \ {i}]]
    /\ UNCHANGED <<categories, releases>>

-----------------------------------------------------------------------------
(* SoftwareService *)

ResolveCategoryAndTags(category, labels) ==
    category \in DOMAIN categories \cup {NoCategory} /\ labels \subseteq DOMAIN tags

CreateSoftware(slug, visibility, category, labels) ==
    /\ SlugFree(software, slug, 0)
    /\ ResolveCategoryAndTags(category, labels)
    /\ NextId(software) <= MaxSoftware /\ RowLeft
    /\ software' = Put(software, NextId(software),
         [slug |-> slug, status |-> "draft", visibility |-> visibility,
          category |-> category, tags |-> labels])
    /\ UNCHANGED <<categories, tags, releases>>

UpdateSoftware(s, slug, visibility, category, labels) ==
    /\ s \in DOMAIN software
    /\ SlugFree(software, slug, s)
    /\ ResolveCategoryAndTags(category, labels)
    /\ software' = [software EXCEPT ![s] =
         [slug |-> slug, status |-> @.status, visibility |-> visibility,
          category |-> category, tags |-> labels]]
    /\ UNCHANGED <<categories, tags, releases>>

TransitionSoftware(s, target) ==
    /\ s \in DOMAIN software
    /\ target \in SOFTWARE_TRANSITIONS[software[s].status]
    /\ software' = [software EXCEPT ![s].status = target]
    /\ UNCHANGED <<categories, tags, releases>>

-----------------------------------------------------------------------------
(* ReleaseService and FileService, as far as the pages see them *)

CreateRelease(s) ==
    /\ s \in DOMAIN software \ DOMAIN releases
    /\ RowLeft
    /\ releases' = Put(releases, s, [status |-> "draft", file |-> "none", visibility |-> "private"])
    /\ UNCHANGED <<software, categories, tags>>

TransitionRelease(s, target) ==
    /\ s \in DOMAIN releases
    /\ ReleaseTransitionAllowed(releases[s], target, software[s])
    /\ releases' = [releases EXCEPT ![s].status = target]
    /\ UNCHANGED <<software, categories, tags>>

UploadFile(s, visibility) ==
    /\ s \in DOMAIN releases
    /\ releases[s].file = "none"
    /\ releases' = [releases EXCEPT ![s].file = "ready", ![s].visibility = visibility]
    /\ UNCHANGED <<software, categories, tags>>

TransitionFile(s, target) ==
    /\ s \in DOMAIN releases
    /\ releases[s].file # "none"
    /\ target \in FILE_TRANSITIONS[releases[s].file]
    /\ target = "published" => releases[s].status = "published" /\ Live(software[s])
    /\ releases' = [releases EXCEPT ![s].file = target]
    /\ UNCHANGED <<software, categories, tags>>

Next ==
    \/ \E slug \in LabelSlugs :
         \/ CreateTag(slug)
         \/ \E i \in 1..MaxTag : UpdateTag(i, slug)
         \/ \E visible \in BOOLEAN :
              \/ CreateCategory(slug, visible)
              \/ \E i \in 1..MaxCategory : UpdateCategory(i, slug, visible)
    \/ \E i \in 1..MaxCategory : DeleteCategory(i)
    \/ \E i \in 1..MaxTag : DeleteTag(i)
    \/ \E slug \in Slugs, v \in Visibilities, labels \in SUBSET (1..MaxTag),
          c \in 1..MaxCategory \cup {NoCategory} :
         \/ CreateSoftware(slug, v, c, labels)
         \/ \E s \in 1..MaxSoftware : UpdateSoftware(s, slug, v, c, labels)
    \/ \E s \in 1..MaxSoftware, target \in SoftwareTargets : TransitionSoftware(s, target)
    \/ \E s \in WithRelease :
         \/ CreateRelease(s)
         \/ \E target \in ReleaseStatus : TransitionRelease(s, target)
         \/ \E v \in Visibilities : UploadFile(s, v)
         \/ \E target \in FileTargets : TransitionFile(s, target)

Spec == Init /\ [][Next]_vars

-----------------------------------------------------------------------------
(* The policies and queries behind the pages; a query returns row ids. *)

IsPubliclyListed(s) == software[s].status = "published" /\ software[s].visibility = "public"

CanViewSoftware(s, isAdmin) ==
    IF isAdmin THEN software[s].status # "disabled"
    ELSE /\ software[s].status \in {"published", "archived"}
         /\ software[s].visibility \in {"public", "unlisted"}

CanDownloadFile(s, isAdmin) ==
    /\ releases[s].file = "published"
    /\ releases[s].status \in {"published", "archived"}
    /\ software[s].status \in {"published", "archived"}
    /\ isAdmin \/ {software[s].visibility, releases[s].visibility} \subseteq {"public", "unlisted"}

Listed == {s \in DOMAIN software : IsPubliclyListed(s)}

\* LIMIT: a query may answer with any of these sets of rows, as the columns that order them
\* (a label's sort order and name, an entry's slug) are not modelled.
FirstRows(rows, limit) ==
    {answer \in SUBSET rows :
        Cardinality(answer) = limit \/ (answer = rows /\ Cardinality(rows) < limit)}

InCategory(i) == {s \in Listed : software[s].category = i}
WithTag(i) == {s \in Listed : i \in software[s].tags}

PublicCategories == {i \in DOMAIN categories : categories[i].visible /\ InCategory(i) # {}}
PublicTags == {i \in DOMAIN tags : WithTag(i) # {}}

\* Mutant: entries that are not public are counted.
CountPublished(limit) ==
    {[i \in answer |-> Cardinality({s \in DOMAIN software :
                                      software[s].status = "published" /\ software[s].category = i})] :
        answer \in FirstRows(PublicCategories, limit)}

\* The labels with the count beside each: one function for every answer there may be.
ListCategories(limit) ==
    {[i \in answer |-> Cardinality(InCategory(i))] : answer \in FirstRows(PublicCategories, limit)}

\* The tags with the most entries come first.
MostUsed(answer) ==
    \A i \in answer, j \in PublicTags \ answer : Cardinality(WithTag(i)) >= Cardinality(WithTag(j))

ListTags(limit) ==
    {[i \in answer |-> Cardinality(WithTag(i))] :
        answer \in {rows \in FirstRows(PublicTags, limit) : MostUsed(rows)}}

\* A label's own page asks for its slug, without a limit.
GetCategory(slug) == {i \in DOMAIN categories : categories[i].slug = slug /\ categories[i].visible}
GetTag(slug) == {i \in DOMAIN tags : tags[i].slug = slug /\ WithTag(i) # {}}

\* The entries on a catalog page with filters that may be empty; the text of a search,
\* which narrows it further, is left out.
CatalogPage(category, tag) ==
    {s \in Listed :
        /\ category # {} => software[s].category \in {i \in category : categories[i].visible}
        /\ tag # {} => tag \cap software[s].tags # {}}

CategoryFacet(s, isAdmin) ==
    {i \in {software[s].category} \ {NoCategory} : categories[i].visible \/ isAdmin}

\* Mutant: only the draft releases are left out.
NotDraft == {s \in DOMAIN releases : releases[s].status # "draft"}

ReleaseViews == {s \in DOMAIN releases : releases[s].status \in {"published", "archived"}}

IsListableFile(s, isAdmin) ==
    releases[s].file = "published" /\ (isAdmin \/ releases[s].visibility = "public")

\* The entries whose page, opened by its slug, offers their file for download.
Offers(isAdmin) == {s \in ReleaseViews : CanViewSoftware(s, isAdmin) /\ IsListableFile(s, isAdmin)}

Indexed(s) == software[s].visibility = "public" /\ software[s].status = "published"

\* Mutant: the sitemap lists what can be viewed.
SitemapOfViewable == FirstRows({s \in DOMAIN software : CanViewSoftware(s, FALSE)}, EntryLimit)

SitemapSoftware == FirstRows(Listed, EntryLimit)
SitemapCategories == {DOMAIN facets : facets \in ListCategories(SitemapLimit)}

-----------------------------------------------------------------------------
(* Properties *)

\* Every variable has its type, and the keys of an entry name labels that there are:
\* a label created later under the id of a deleted one is on no entry.
TypeOK ==
    /\ DOMAIN software \subseteq 1..MaxSoftware /\ Range(software) \subseteq Entry
    /\ DOMAIN categories \subseteq 1..MaxCategory /\ Range(categories) \subseteq Category
    /\ DOMAIN tags \subseteq 1..MaxTag /\ Range(tags) \subseteq Tag
    /\ DOMAIN releases \subseteq DOMAIN software /\ Range(releases) \subseteq Release
    /\ \A s \in DOMAIN software :
         ResolveCategoryAndTags(software[s].category, software[s].tags)

\* Beside a facet stands the number of entries that its own page lists, and that page exists.
FacetsCount ==
    /\ \A limit \in {HomeLimit, FacetLimit} : \A facets \in ListCategories(limit) :
         \A i \in DOMAIN facets : /\ GetCategory(categories[i].slug) = {i}
                                 /\ facets[i] = Cardinality(CatalogPage({i}, {}))
    /\ \A facets \in ListTags(FacetLimit) : \A i \in DOMAIN facets :
         /\ GetTag(tags[i].slug) = {i}
         /\ facets[i] = Cardinality(CatalogPage({}, {i}))

\* A label on a card leads to a page, which lists the entry of the card.
LabelsLead ==
    \A s \in CatalogPage({}, {}) :
        /\ \A i \in CategoryFacet(s, FALSE) :
             GetCategory(categories[i].slug) = {i} /\ s \in CatalogPage({i}, {})
        /\ \A i \in software[s].tags : GetTag(tags[i].slug) = {i} /\ s \in CatalogPage({}, {i})

\* A label on a card is missing among the facets only when they are full, a tag only when
\* each of theirs has at least as many entries.
FacetsMiss ==
    \A s \in CatalogPage({}, {}) :
        /\ \A facets \in ListCategories(FacetLimit) :
             CategoryFacet(s, FALSE) \subseteq DOMAIN facets \/ Cardinality(DOMAIN facets) = FacetLimit
        /\ \A facets \in ListTags(FacetLimit), i \in software[s].tags :
             \/ i \in DOMAIN facets
             \/ /\ Cardinality(DOMAIN facets) = FacetLimit
                /\ \A j \in DOMAIN facets : facets[j] >= Cardinality(CatalogPage({}, {i}))

\* The queries behind the pages agree although each states the rule of the public entries
\* again, and all of them but those of a label's own page end after a number of rows.
FacetsAgree == FacetsCount /\ LabelsLead /\ FacetsMiss

\* A file that a page offers can be downloaded by whoever sees the page, except by an
\* administrator who looks at a draft or hidden entry.
OffersAreDownloadable ==
    /\ \A s \in Offers(FALSE) : CanDownloadFile(s, FALSE)
    /\ \A s \in Offers(TRUE) :
         CanDownloadFile(s, TRUE) \/ software[s].status \in {"draft", "hidden"}

\* Every address in the sitemap leads a visitor to a page, to one only, that may be indexed,
\* and an entry that is listed is left out only when the sitemap is full.
SitemapServed ==
    /\ \A sitemap \in SitemapSoftware :
         /\ \A s \in sitemap :
              /\ {t \in DOMAIN software : software[t].slug = software[s].slug} = {s}
              /\ CanViewSoftware(s, FALSE) /\ Indexed(s)
         /\ CatalogPage({}, {}) \subseteq sitemap \/ Cardinality(sitemap) = EntryLimit
    /\ \A sitemap \in SitemapCategories : \A i \in sitemap :
         GetCategory(categories[i].slug) = {i}
=============================================================================
