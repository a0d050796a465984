\* Two entries, one with a release, and two labels of either kind, one more than a
\* list holds.
CONSTANTS
    Slugs = {a, b}
    LabelSlugs = {c, d}
    MaxSoftware = 2
    MaxCategory = 2
    MaxTag = 2
    MaxRows = 4
    SoftwareTargets <- AnyStatus
    FileTargets <- FewFileStatuses
    Visibilities <- AnyVisibility
    WithRelease = {1}
    HomeLimit = 1
    FacetLimit = 1
    SitemapLimit = 1
    EntryLimit = 1
SPECIFICATION Spec
SYMMETRY Symmetry
INVARIANTS
    TypeOK
    FacetsAgree
    OffersAreDownloadable
    SitemapServed
CHECK_DEADLOCK FALSE
