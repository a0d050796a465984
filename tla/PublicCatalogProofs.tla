------------------------ MODULE PublicCatalogProofs ------------------------
(***************************************************************************)
(* Proofs about PublicCatalog for every number of entries, categories and  *)
(* tags, every set of slugs and every choice of statuses and visibilities. *)
(***************************************************************************)
EXTENDS PublicCatalog, WellFoundedInduction, TLAPS

USE PublicAssumption

-----------------------------------------------------------------------------
(* Facts about operators *)

\* A set of row ids that is not empty has a largest one: its least upper bound.
LEMMA MaxOfIds ==
  ASSUME NEW n \in Nat, NEW S \in SUBSET (1..n), S # {}
  PROVE  Max(S) \in S /\ \A i \in S : i <= Max(S)
<1> DEFINE R == {ss \in Nat \X Nat : ss[1] < ss[2]}
           T == {k \in Nat : \A i \in S : i <= k}
<1>1. IsWellFoundedOn(R, Nat)
  BY NatLessThanWellFounded DEF OpToRel
<1>2. n \in T /\ T \subseteq Nat
  OBVIOUS
<1> HIDE DEF R
<1>3. \E k \in T : \A m \in T : ~ (<<m, k>> \in R)
  BY <1>1, <1>2, WFMin
<1>4. PICK k \in T : \A m \in T : ~ (<<m, k>> \in R)
  BY <1>3
<1>5. \A m \in T : ~ (m < k)
  BY <1>4 DEF R
<1>6. k \in S
  <2>1. SUFFICES ASSUME k \notin S PROVE FALSE
    OBVIOUS
  <2>2. \A i \in S : i <= k - 1 /\ i >= 1
    BY <2>1
  <2>3. k - 1 \in T
    <3>1. PICK i \in S : TRUE
      OBVIOUS
    <3>2. k - 1 \in Nat
      BY <2>2, <3>1
    <3>3. QED
      BY <2>2, <3>2
  <2>4. QED
    BY <1>5, <2>3
<1>7. \A i \in S : k >= i
  OBVIOUS
<1>8. QED
  BY <1>6, <1>7 DEF Max

\* The id of a new row is that of no other one.
LEMMA NextIdIsFree ==
  ASSUME NEW n \in Nat, NEW rows, DOMAIN rows \subseteq 1..n, NextId(rows) <= n
  PROVE  NextId(rows) \in 1..n /\ NextId(rows) \notin DOMAIN rows
<1>1. CASE DOMAIN rows = {}
  BY <1>1 DEF NextId
<1>2. CASE DOMAIN rows # {}
  <2>1. Max(DOMAIN rows) \in DOMAIN rows /\ \A i \in DOMAIN rows : i <= Max(DOMAIN rows)
    BY <1>2, MaxOfIds
  <2>2. QED
    BY <1>2, <2>1 DEF NextId
<1>3. QED
  BY <1>1, <1>2

\* Put writes one row.
LEMMA PutRow ==
  ASSUME NEW rows, NEW i, NEW row
  PROVE  /\ DOMAIN Put(rows, i, row) = DOMAIN rows \cup {i}
         /\ Put(rows, i, row)[i] = row
         /\ \A j \in DOMAIN rows \ {i} : Put(rows, i, row)[j] = rows[j]
  BY DEF Put

-----------------------------------------------------------------------------
(* The inductive invariant *)

\* The unique index on a slug.
UniqueSlugs(rows) == \A i, j \in DOMAIN rows : rows[i].slug = rows[j].slug => i = j

\* The rows of a table: their ids, their type and the index.
TableOK(rows, ids, Row) ==
    /\ DOMAIN rows \subseteq ids
    /\ \A i \in DOMAIN rows : rows[i] \in Row
    /\ UniqueSlugs(rows)

\* The foreign keys.
LabelsExist ==
    \A s \in DOMAIN software :
        ResolveCategoryAndTags(software[s].category, software[s].tags)

IInv ==
    /\ TableOK(software, 1..MaxSoftware, Entry)
    /\ TableOK(categories, 1..MaxCategory, Category)
    /\ TableOK(tags, 1..MaxTag, Tag)
    /\ DOMAIN releases \subseteq DOMAIN software
    /\ \A s \in DOMAIN releases : releases[s] \in Release
    /\ LabelsExist

\* Writing a row whose slug is free keeps a table in order.
LEMMA PutKeepsTable ==
  ASSUME NEW rows, NEW ids, NEW Row, TableOK(rows, ids, Row),
         NEW i \in ids, NEW row \in Row, SlugFree(rows, row.slug, i)
  PROVE  TableOK(Put(rows, i, row), ids, Row) /\ DOMAIN rows \subseteq DOMAIN Put(rows, i, row)
<1> DEFINE new == Put(rows, i, row)
<1>1. /\ DOMAIN new = DOMAIN rows \cup {i} /\ new[i] = row
      /\ \A j \in DOMAIN rows \ {i} : new[j] = rows[j]
  BY DEF Put
<1> HIDE DEF new
<1>2. \A j \in DOMAIN new : j # i => j \in DOMAIN rows \ {i} /\ new[j] = rows[j]
  BY <1>1
<1>3. \A j \in DOMAIN new : j \in ids /\ new[j] \in Row
  BY <1>1, <1>2 DEF TableOK
<1>4. ASSUME NEW j \in DOMAIN new, NEW k \in DOMAIN new, new[j].slug = new[k].slug
      PROVE  j = k
  <2>1. CASE j # i /\ k # i
    BY <1>2, <1>4, <2>1 DEF TableOK, UniqueSlugs
  <2>2. CASE j = i /\ k # i
    BY <1>1, <1>2, <1>4, <2>2 DEF SlugFree
  <2>3. CASE j # i /\ k = i
    BY <1>1, <1>2, <1>4, <2>3 DEF SlugFree
  <2>4. QED
    BY <2>1, <2>2, <2>3
<1>5. UniqueSlugs(new)
  BY <1>4 DEF UniqueSlugs
<1>6. TableOK(new, ids, Row)
  BY <1>3, <1>5 DEF TableOK
<1>7. QED
  BY <1>1, <1>6 DEF new

\* Deleting a row keeps it in order too.
LEMMA RestrictKeepsTable ==
  ASSUME NEW rows, NEW ids, NEW Row, TableOK(rows, ids, Row), NEW i
  PROVE  /\ TableOK(Restrict(rows, DOMAIN rows \ {i}), ids, Row)
         /\ DOMAIN Restrict(rows, DOMAIN rows \ {i}) = DOMAIN rows \ {i}
  BY DEF TableOK, UniqueSlugs, Restrict

\* A new row has an id that no row has.
LEMMA NewRowKeepsTable ==
  ASSUME NEW rows, NEW n \in Nat, NEW Row, TableOK(rows, 1..n, Row), NextId(rows) <= n,
         NEW row \in Row, SlugFree(rows, row.slug, 0)
  PROVE  /\ TableOK(Put(rows, NextId(rows), row), 1..n, Row)
         /\ DOMAIN rows \subseteq DOMAIN Put(rows, NextId(rows), row)
<1>1. NextId(rows) \in 1..n /\ NextId(rows) \notin DOMAIN rows
  BY NextIdIsFree DEF TableOK
<1>2. SlugFree(rows, row.slug, NextId(rows))
  BY <1>1 DEF SlugFree, TableOK
<1>3. QED
  BY <1>1, <1>2, PutKeepsTable

-----------------------------------------------------------------------------
(* Labels *)

\* Categories and tags are created and edited: every label stays.
LEMMA LabelWriteStep ==
  ASSUME IInv,
         \/ \E slug \in LabelSlugs :
              \/ CreateTag(slug)
              \/ \E i \in 1..MaxTag : UpdateTag(i, slug)
              \/ \E visible \in BOOLEAN :
                   \/ CreateCategory(slug, visible)
                   \/ \E i \in 1..MaxCategory : UpdateCategory(i, slug, visible)
  PROVE  IInv'
<1>1. ASSUME NEW slug \in LabelSlugs, CreateTag(slug)
      PROVE  IInv'
  <2> DEFINE row == [slug |-> slug]
  <2>1. row \in Tag /\ row.slug = slug
    BY DEF Tag
  <2>2. TableOK(tags', 1..MaxTag, Tag) /\ DOMAIN tags \subseteq DOMAIN tags'
    <3>1. tags' = Put(tags, NextId(tags), row)
      BY <1>1 DEF CreateTag
    <3> HIDE DEF row
    <3>2. /\ TableOK(tags, 1..MaxTag, Tag) /\ NextId(tags) <= MaxTag /\ MaxTag \in Nat
          /\ SlugFree(tags, row.slug, 0)
      BY <1>1, <2>1 DEF IInv, CreateTag
    <3>3. QED
      BY <2>1, <3>1, <3>2, NewRowKeepsTable
  <2>3. UNCHANGED <<software, categories, releases>>
    BY <1>1 DEF CreateTag
  <2>4. QED
    BY <2>2, <2>3 DEF IInv, LabelsExist, ResolveCategoryAndTags
<1>2. ASSUME NEW slug \in LabelSlugs, NEW i \in 1..MaxTag, UpdateTag(i, slug)
      PROVE  IInv'
  <2> DEFINE row == [slug |-> slug]
  <2>1. row \in Tag /\ row.slug = slug
    BY DEF Tag
  <2>2. TableOK(tags', 1..MaxTag, Tag) /\ DOMAIN tags \subseteq DOMAIN tags'
    <3>1. tags' = Put(tags, i, row)
      BY <1>2 DEF UpdateTag
    <3> HIDE DEF row
    <3>2. TableOK(tags, 1..MaxTag, Tag) /\ SlugFree(tags, row.slug, i)
      BY <1>2, <2>1 DEF IInv, UpdateTag
    <3>3. QED
      BY <2>1, <3>1, <3>2, PutKeepsTable
  <2>3. UNCHANGED <<software, categories, releases>>
    BY <1>2 DEF UpdateTag
  <2>4. QED
    BY <2>2, <2>3 DEF IInv, LabelsExist, ResolveCategoryAndTags
<1>3. ASSUME NEW slug \in LabelSlugs, NEW visible \in BOOLEAN, CreateCategory(slug, visible)
      PROVE  IInv'
  <2> DEFINE row == [slug |-> slug, visible |-> visible]
  <2>1. row \in Category /\ row.slug = slug
    BY DEF Category
  <2>2. TableOK(categories', 1..MaxCategory, Category)
        /\ DOMAIN categories \subseteq DOMAIN categories'
    <3>1. categories' = Put(categories, NextId(categories), row)
      BY <1>3 DEF CreateCategory
    <3> HIDE DEF row
    <3>2. /\ TableOK(categories, 1..MaxCategory, Category) /\ NextId(categories) <= MaxCategory /\ MaxCategory \in Nat
          /\ SlugFree(categories, row.slug, 0)
      BY <1>3, <2>1 DEF IInv, CreateCategory
    <3>3. QED
      BY <2>1, <3>1, <3>2, NewRowKeepsTable
  <2>3. UNCHANGED <<software, tags, releases>>
    BY <1>3 DEF CreateCategory
  <2>4. QED
    BY <2>2, <2>3 DEF IInv, LabelsExist, ResolveCategoryAndTags
<1>4. ASSUME NEW slug \in LabelSlugs, NEW visible \in BOOLEAN, NEW i \in 1..MaxCategory,
             UpdateCategory(i, slug, visible)
      PROVE  IInv'
  <2> DEFINE row == [slug |-> slug, visible |-> visible]
  <2>1. row \in Category /\ row.slug = slug
    BY DEF Category
  <2>2. TableOK(categories', 1..MaxCategory, Category)
        /\ DOMAIN categories \subseteq DOMAIN categories'
    <3>1. categories' = Put(categories, i, row)
      BY <1>4 DEF UpdateCategory
    <3> HIDE DEF row
    <3>2. TableOK(categories, 1..MaxCategory, Category) /\ SlugFree(categories, row.slug, i)
      BY <1>4, <2>1 DEF IInv, UpdateCategory
    <3>3. QED
      BY <2>1, <3>1, <3>2, PutKeepsTable
  <2>3. UNCHANGED <<software, tags, releases>>
    BY <1>4 DEF UpdateCategory
  <2>4. QED
    BY <2>2, <2>3 DEF IInv, LabelsExist, ResolveCategoryAndTags
<1>5. QED
  BY <1>1, <1>2, <1>3, <1>4

\* A category that goes is taken off the entries that have it.
LEMMA DeleteCategoryStep ==
  ASSUME IInv, NEW i \in 1..MaxCategory, DeleteCategory(i)
  PROVE  IInv'
<1>1. /\ categories' = Restrict(categories, DOMAIN categories \ {i})
      /\ software' = WithoutCategory(i) /\ UNCHANGED <<tags, releases>>
  BY DEF DeleteCategory
<1>2. TableOK(categories', 1..MaxCategory, Category) /\ DOMAIN categories' = DOMAIN categories \ {i}
  BY <1>1, RestrictKeepsTable DEF IInv
<1>3. ASSUME NEW s \in DOMAIN software
      PROVE  /\ software'[s] \in Entry /\ software'[s].slug = software[s].slug
             /\ software'[s].tags = software[s].tags
             /\ software'[s].category =
                  IF software[s].category = i THEN NoCategory ELSE software[s].category
  <2> DEFINE e == [software[s] EXCEPT !.category = NoCategory]
  <2>1. software[s] \in Entry
    BY DEF IInv, TableOK
  <2>2. /\ e \in Entry /\ e.slug = software[s].slug /\ e.tags = software[s].tags
        /\ e.category = NoCategory
    BY <2>1 DEF Entry
  <2>3. software'[s] = IF software[s].category = i THEN e ELSE software[s]
    BY <1>1 DEF WithoutCategory
  <2>4. QED
    BY <2>1, <2>2, <2>3
<1>4. DOMAIN software' = DOMAIN software
  BY <1>1 DEF WithoutCategory
<1>5. TableOK(software', 1..MaxSoftware, Entry)
  BY <1>3, <1>4 DEF IInv, TableOK, UniqueSlugs
<1>6. LabelsExist'
  BY <1>1, <1>2, <1>3, <1>4 DEF IInv, LabelsExist, ResolveCategoryAndTags
<1>7. QED
  BY <1>1, <1>2, <1>4, <1>5, <1>6 DEF IInv

\* A tag that goes is taken off the entries that have it.
LEMMA DeleteTagStep ==
  ASSUME IInv, NEW i \in 1..MaxTag, DeleteTag(i)
  PROVE  IInv'
<1>1. /\ tags' = Restrict(tags, DOMAIN tags \ {i})
      /\ software' = [s \in DOMAIN software |-> [software[s] EXCEPT !.tags = @ \ {i}]]
      /\ UNCHANGED <<categories, releases>>
  BY DEF DeleteTag
<1>2. TableOK(tags', 1..MaxTag, Tag) /\ DOMAIN tags' = DOMAIN tags \ {i}
  BY <1>1, RestrictKeepsTable DEF IInv
<1>3. ASSUME NEW s \in DOMAIN software
      PROVE  /\ software'[s] \in Entry /\ software'[s].slug = software[s].slug
             /\ software'[s].tags = software[s].tags \ {i}
             /\ software'[s].category = software[s].category
  <2>1. software[s] \in Entry
    BY DEF IInv, TableOK
  <2>2. software'[s] = [software[s] EXCEPT !.tags = @ \ {i}]
    BY <1>1
  <2>3. QED
    BY <2>1, <2>2 DEF Entry
<1>4. DOMAIN software' = DOMAIN software
  BY <1>1
<1>5. TableOK(software', 1..MaxSoftware, Entry)
  BY <1>3, <1>4 DEF IInv, TableOK, UniqueSlugs
<1>6. LabelsExist'
  BY <1>1, <1>2, <1>3, <1>4 DEF IInv, LabelsExist, ResolveCategoryAndTags
<1>7. QED
  BY <1>1, <1>2, <1>4, <1>5, <1>6 DEF IInv

-----------------------------------------------------------------------------
(* Entries *)

\* A new entry is a draft whose labels there are.
LEMMA CreateSoftwareStep ==
  ASSUME IInv, NEW slug \in Slugs, NEW v \in Visibilities, NEW labels \in SUBSET (1..MaxTag),
         NEW c \in 1..MaxCategory \cup {NoCategory}, CreateSoftware(slug, v, c, labels)
  PROVE  IInv'
<1> DEFINE row == [slug |-> slug, status |-> "draft", visibility |-> v,
                   category |-> c, tags |-> labels]
           i == NextId(software)
<1>1. /\ row \in Entry /\ row.slug = slug /\ row.category = c /\ row.tags = labels
  BY DEF Entry, SoftwareStatus
<1>2. software' = Put(software, i, row)
  BY DEF CreateSoftware
<1>3. /\ ResolveCategoryAndTags(c, labels) /\ i <= MaxSoftware
      /\ SlugFree(software, slug, 0) /\ UNCHANGED <<categories, tags, releases>>
  BY DEF CreateSoftware
<1> HIDE DEF row
<1>4. TableOK(software, 1..MaxSoftware, Entry) /\ MaxSoftware \in Nat
  BY DEF IInv
<1>5. TableOK(software', 1..MaxSoftware, Entry) /\ DOMAIN software \subseteq DOMAIN software'
  BY <1>1, <1>2, <1>3, <1>4, NewRowKeepsTable
<1>6. /\ DOMAIN software' = DOMAIN software \cup {i} /\ software'[i] = row
      /\ \A j \in DOMAIN software \ {i} : software'[j] = software[j]
  BY <1>2 DEF Put
<1> HIDE DEF i
<1>7. LabelsExist'
  <2>1. SUFFICES ASSUME NEW s \in DOMAIN software'
        PROVE  ResolveCategoryAndTags(software'[s].category, software'[s].tags)
    BY <1>3 DEF LabelsExist, ResolveCategoryAndTags
  <2>2. CASE s = i
    BY <1>1, <1>3, <1>6, <2>2
  <2>3. CASE s # i
    BY <1>6, <2>3 DEF IInv, LabelsExist
  <2>4. QED
    BY <2>2, <2>3
<1>8. QED
  BY <1>3, <1>5, <1>7 DEF IInv

\* Editing an entry keeps its status and leaves it with labels there are.
LEMMA UpdateSoftwareStep ==
  ASSUME IInv, NEW slug \in Slugs, NEW v \in Visibilities, NEW labels \in SUBSET (1..MaxTag),
         NEW c \in 1..MaxCategory \cup {NoCategory}, NEW s \in 1..MaxSoftware,
         UpdateSoftware(s, slug, v, c, labels)
  PROVE  IInv'
<1> DEFINE row == [slug |-> slug, status |-> software[s].status, visibility |-> v,
                   category |-> c, tags |-> labels]
<1>1. /\ s \in DOMAIN software /\ ResolveCategoryAndTags(c, labels)
      /\ SlugFree(software, slug, s) /\ UNCHANGED <<categories, tags, releases>>
  BY DEF UpdateSoftware
<1>2. software[s] \in Entry
  BY <1>1 DEF IInv, TableOK
<1>3. row \in Entry /\ row.slug = slug /\ row.category = c /\ row.tags = labels
  BY <1>2 DEF Entry
<1>4. software' = [software EXCEPT ![s] = row]
  BY DEF UpdateSoftware
<1> HIDE DEF row
<1>5. /\ DOMAIN software' = DOMAIN software /\ software'[s] = row
      /\ \A j \in DOMAIN software \ {s} : software'[j] = software[j]
  BY <1>1, <1>4
<1>6. TableOK(software', 1..MaxSoftware, Entry)
  <2>1. \A j \in DOMAIN software' : software'[j] \in Entry
    BY <1>3, <1>5 DEF IInv, TableOK
  <2>2. \A j \in DOMAIN software \ {s} : software'[j].slug # slug
    BY <1>1, <1>5 DEF SlugFree
  <2>3. \A j, k \in DOMAIN software \ {s} : software'[j].slug = software'[k].slug => j = k
    BY <1>5 DEF IInv, TableOK, UniqueSlugs
  <2>4. UniqueSlugs(software')
    BY <1>3, <1>5, <2>2, <2>3 DEF UniqueSlugs
  <2>5. QED
    BY <1>5, <2>1, <2>4 DEF IInv, TableOK
<1>7. LabelsExist'
  <2>1. SUFFICES ASSUME NEW t \in DOMAIN software'
        PROVE  ResolveCategoryAndTags(software'[t].category, software'[t].tags)
    BY <1>1 DEF LabelsExist, ResolveCategoryAndTags
  <2>2. CASE t = s
    BY <1>1, <1>3, <1>5, <2>2
  <2>3. CASE t # s
    BY <1>5, <2>3 DEF IInv, LabelsExist
  <2>4. QED
    BY <2>2, <2>3
<1>8. QED
  BY <1>1, <1>5, <1>6, <1>7 DEF IInv

\* A transition of an entry changes its status only.
LEMMA TransitionSoftwareStep ==
  ASSUME IInv, NEW s \in 1..MaxSoftware, NEW target \in SoftwareTargets,
         TransitionSoftware(s, target)
  PROVE  IInv'
<1> DEFINE row == [software[s] EXCEPT !.status = target]
<1>1. s \in DOMAIN software /\ UNCHANGED <<categories, tags, releases>>
  BY DEF TransitionSoftware
<1>2. software[s] \in Entry /\ target \in SoftwareStatus
  BY <1>1 DEF IInv, TableOK
<1>3. /\ row \in Entry /\ row.slug = software[s].slug
      /\ row.category = software[s].category /\ row.tags = software[s].tags
  BY <1>2 DEF Entry
<1>4. software' = [software EXCEPT ![s] = row]
  BY DEF TransitionSoftware
<1> HIDE DEF row
<1>5. DOMAIN software' = DOMAIN software
  BY <1>4
<1>6. ASSUME NEW j \in DOMAIN software
      PROVE  /\ software'[j] \in Entry /\ software'[j].slug = software[j].slug
             /\ software'[j].category = software[j].category
             /\ software'[j].tags = software[j].tags
  <2>1. CASE j = s
    BY <1>3, <1>4, <2>1
  <2>2. CASE j # s
    BY <1>4, <2>2 DEF IInv, TableOK
  <2>3. QED
    BY <2>1, <2>2
<1>7. TableOK(software', 1..MaxSoftware, Entry)
  BY <1>5, <1>6 DEF IInv, TableOK, UniqueSlugs
<1>8. LabelsExist'
  BY <1>1, <1>5, <1>6 DEF IInv, LabelsExist, ResolveCategoryAndTags
<1>9. QED
  BY <1>1, <1>5, <1>7, <1>8 DEF IInv

\* Releases and their files keep their types, and belong to entries there are.
LEMMA ReleaseStep ==
  ASSUME IInv, NEW s \in WithRelease,
         \/ CreateRelease(s)
         \/ \E target \in ReleaseStatus : TransitionRelease(s, target)
         \/ \E v \in Visibilities : UploadFile(s, v)
         \/ \E target \in FileTargets : TransitionFile(s, target)
  PROVE  IInv'
<1> SUFFICES ASSUME TRUE
             PROVE  /\ DOMAIN releases' \subseteq DOMAIN software
                    /\ \A t \in DOMAIN releases' : releases'[t] \in Release
                    /\ UNCHANGED <<software, categories, tags>>
  BY DEF IInv, LabelsExist, ResolveCategoryAndTags
<1>1. CASE CreateRelease(s)
  <2> DEFINE row == [status |-> "draft", file |-> "none", visibility |-> "private"]
  <2>1. row \in Release
    BY DEF Release, ReleaseStatus, Visibility
  <2>2. releases' = Put(releases, s, row) /\ s \in DOMAIN software
    BY <1>1 DEF CreateRelease
  <2> HIDE DEF row
  <2>3. QED
    BY <1>1, <2>1, <2>2 DEF Put, IInv, CreateRelease
<1>2. ASSUME NEW target \in ReleaseStatus, TransitionRelease(s, target)
      PROVE  /\ DOMAIN releases' \subseteq DOMAIN software
             /\ \A t \in DOMAIN releases' : releases'[t] \in Release
             /\ UNCHANGED <<software, categories, tags>>
  BY <1>2 DEF TransitionRelease, IInv, Release
<1>3. ASSUME NEW v \in Visibilities, UploadFile(s, v)
      PROVE  /\ DOMAIN releases' \subseteq DOMAIN software
             /\ \A t \in DOMAIN releases' : releases'[t] \in Release
             /\ UNCHANGED <<software, categories, tags>>
  BY <1>3 DEF UploadFile, IInv, Release, FileStatus
<1>4. ASSUME NEW target \in FileTargets, TransitionFile(s, target)
      PROVE  /\ DOMAIN releases' \subseteq DOMAIN software
             /\ \A t \in DOMAIN releases' : releases'[t] \in Release
             /\ UNCHANGED <<software, categories, tags>>
  BY <1>4 DEF TransitionFile, IInv, Release, FileStatus
<1>5. QED
  BY <1>1, <1>2, <1>3, <1>4

-----------------------------------------------------------------------------
(* Theorems *)

\* An empty database keeps the invariant.
LEMMA InitIInv == Init => IInv
<1> SUFFICES ASSUME Init PROVE IInv
  OBVIOUS
<1>1. DOMAIN NoRows = {}
  BY DEF NoRows
<1>2. QED
  BY <1>1 DEF Init, IInv, TableOK, UniqueSlugs, LabelsExist

\* Every request keeps it.
LEMMA NextIInv == IInv /\ [Next]_vars => IInv'
<1> SUFFICES ASSUME IInv, [Next]_vars PROVE IInv'
  OBVIOUS
<1>1. CASE \E i \in 1..MaxCategory : DeleteCategory(i)
  BY <1>1, DeleteCategoryStep
<1>2. CASE \E i \in 1..MaxTag : DeleteTag(i)
  BY <1>2, DeleteTagStep
<1>3. CASE \E slug \in Slugs, v \in Visibilities, labels \in SUBSET (1..MaxTag),
              c \in 1..MaxCategory \cup {NoCategory} :
             \/ CreateSoftware(slug, v, c, labels)
             \/ \E s \in 1..MaxSoftware : UpdateSoftware(s, slug, v, c, labels)
  BY <1>3, CreateSoftwareStep, UpdateSoftwareStep
<1>4. CASE \E s \in 1..MaxSoftware, target \in SoftwareTargets : TransitionSoftware(s, target)
  BY <1>4, TransitionSoftwareStep
<1>5. CASE \E s \in WithRelease :
             \/ CreateRelease(s)
             \/ \E target \in ReleaseStatus : TransitionRelease(s, target)
             \/ \E v \in Visibilities : UploadFile(s, v)
             \/ \E target \in FileTargets : TransitionFile(s, target)
  BY <1>5, ReleaseStep
<1>6. CASE UNCHANGED vars
  BY <1>6 DEF vars, IInv, TableOK, UniqueSlugs, LabelsExist, ResolveCategoryAndTags
<1>7. QED
  BY <1>1, <1>2, <1>3, <1>4, <1>5, <1>6, LabelWriteStep DEF Next

\* In every reachable state the tables are in order: row types, unique slugs, foreign keys.
THEOREM Invariance == Spec => []IInv
  BY InitIInv, NextIInv, PTL DEF Spec

\* The type invariant: an entry has only labels that there are, whatever ids the forms
\* submitted named and in whatever order labels came and went.
THEOREM TypeCorrect == Spec => []TypeOK
<1>1. IInv => TypeOK
  BY DEF IInv, TypeOK, TableOK, LabelsExist, Range
<1>2. QED
  BY <1>1, Invariance, PTL

\* The page of a public label is that of its slug, whatever labels have come and gone.
LEMMA LabelPages ==
  ASSUME IInv
  PROVE  /\ \A i \in PublicCategories :
              /\ i \in DOMAIN categories /\ GetCategory(categories[i].slug) = {i}
              /\ CatalogPage({i}, {}) = InCategory(i)
         /\ \A i \in PublicTags :
              /\ i \in DOMAIN tags /\ GetTag(tags[i].slug) = {i}
              /\ CatalogPage({}, {i}) = WithTag(i)
<1>1. ASSUME NEW i \in PublicCategories
      PROVE  /\ i \in DOMAIN categories /\ GetCategory(categories[i].slug) = {i}
             /\ CatalogPage({i}, {}) = InCategory(i)
  <2>1. i \in DOMAIN categories /\ categories[i].visible
    BY <1>1 DEF PublicCategories
  <2>2. GetCategory(categories[i].slug) = {i}
    BY <2>1 DEF GetCategory, IInv, TableOK, UniqueSlugs
  <2>3. CatalogPage({i}, {}) = InCategory(i)
    BY <2>1 DEF CatalogPage, InCategory
  <2>4. QED
    BY <2>1, <2>2, <2>3
<1>2. ASSUME NEW i \in PublicTags
      PROVE  /\ i \in DOMAIN tags /\ GetTag(tags[i].slug) = {i}
             /\ CatalogPage({}, {i}) = WithTag(i)
  <2>1. i \in DOMAIN tags /\ WithTag(i) # {}
    BY <1>2 DEF PublicTags
  <2>2. GetTag(tags[i].slug) = {i}
    BY <2>1 DEF GetTag, IInv, TableOK, UniqueSlugs
  <2>3. CatalogPage({}, {i}) = WithTag(i)
    BY DEF CatalogPage, WithTag
  <2>4. QED
    BY <2>1, <2>2, <2>3
<1>3. QED
  BY <1>1, <1>2

\* The labels of a listed entry are public ones, and it is among their entries.
LEMMA CardLabels ==
  ASSUME IInv, NEW s \in CatalogPage({}, {})
  PROVE  /\ \A i \in CategoryFacet(s, FALSE) : i \in PublicCategories /\ s \in InCategory(i)
         /\ \A i \in software[s].tags : i \in PublicTags /\ s \in WithTag(i)
<1>1. s \in Listed /\ s \in DOMAIN software
  BY DEF CatalogPage, Listed
<1>2. /\ software[s].category \in DOMAIN categories \cup {NoCategory}
      /\ software[s].tags \subseteq DOMAIN tags
  BY <1>1 DEF IInv, LabelsExist, ResolveCategoryAndTags
<1>3. ASSUME NEW i \in CategoryFacet(s, FALSE)
      PROVE  i \in PublicCategories /\ s \in InCategory(i)
  <2>1. i \in DOMAIN categories /\ categories[i].visible /\ software[s].category = i
    BY <1>2, <1>3 DEF CategoryFacet
  <2>2. QED
    BY <1>1, <2>1 DEF InCategory, PublicCategories
<1>4. ASSUME NEW i \in software[s].tags
      PROVE  i \in PublicTags /\ s \in WithTag(i)
  <2>1. s \in WithTag(i)
    BY <1>1, <1>4 DEF WithTag
  <2>2. QED
    BY <1>2, <1>4, <2>1 DEF PublicTags
<1>5. QED
  BY <1>3, <1>4

\* An answer of a query for labels: some public ones with the numbers of their entries, and
\* all of them unless it is full.
LEMMA CategoryAnswers ==
  ASSUME NEW limit, NEW facets \in ListCategories(limit)
  PROVE  /\ DOMAIN facets \subseteq PublicCategories
         /\ \A i \in DOMAIN facets : facets[i] = Cardinality(InCategory(i))
         /\ DOMAIN facets = PublicCategories \/ Cardinality(DOMAIN facets) = limit
<1>1. PICK answer \in FirstRows(PublicCategories, limit) :
        facets = [i \in answer |-> Cardinality(InCategory(i))]
  BY DEF ListCategories
<1>2. QED
  BY <1>1 DEF FirstRows

LEMMA TagAnswers ==
  ASSUME NEW limit, NEW facets \in ListTags(limit)
  PROVE  /\ DOMAIN facets \subseteq PublicTags
         /\ \A i \in DOMAIN facets : facets[i] = Cardinality(WithTag(i))
         /\ DOMAIN facets = PublicTags \/ Cardinality(DOMAIN facets) = limit
         /\ \A i \in PublicTags \ DOMAIN facets, j \in DOMAIN facets :
              facets[j] >= Cardinality(WithTag(i))
<1>1. PICK answer \in FirstRows(PublicTags, limit) :
        MostUsed(answer) /\ facets = [i \in answer |-> Cardinality(WithTag(i))]
  BY DEF ListTags
<1>2. QED
  BY <1>1 DEF FirstRows, MostUsed

\* What the queries of a page say of each other.
LEMMA PagesAgree == IInv => FacetsAgree
<1> SUFFICES ASSUME IInv PROVE FacetsAgree
  OBVIOUS
<1>1. FacetsCount
  <2>1. ASSUME NEW limit, NEW facets \in ListCategories(limit), NEW i \in DOMAIN facets
        PROVE  /\ GetCategory(categories[i].slug) = {i}
               /\ facets[i] = Cardinality(CatalogPage({i}, {}))
    <3>1. i \in PublicCategories /\ facets[i] = Cardinality(InCategory(i))
      BY CategoryAnswers
    <3>2. QED
      BY <3>1, LabelPages
  <2>2. ASSUME NEW facets \in ListTags(FacetLimit), NEW i \in DOMAIN facets
        PROVE  /\ GetTag(tags[i].slug) = {i}
               /\ facets[i] = Cardinality(CatalogPage({}, {i}))
    <3>1. i \in PublicTags /\ facets[i] = Cardinality(WithTag(i))
      BY TagAnswers
    <3>2. QED
      BY <3>1, LabelPages
  <2>3. QED
    BY <2>1, <2>2 DEF FacetsCount
<1>2. LabelsLead
  <2>1. ASSUME NEW s \in CatalogPage({}, {}), NEW i \in CategoryFacet(s, FALSE)
        PROVE  GetCategory(categories[i].slug) = {i} /\ s \in CatalogPage({i}, {})
    <3>1. i \in PublicCategories /\ s \in InCategory(i)
      BY CardLabels
    <3>2. QED
      BY <3>1, LabelPages
  <2>2. ASSUME NEW s \in CatalogPage({}, {}), NEW i \in software[s].tags
        PROVE  GetTag(tags[i].slug) = {i} /\ s \in CatalogPage({}, {i})
    <3>1. i \in PublicTags /\ s \in WithTag(i)
      BY CardLabels
    <3>2. QED
      BY <3>1, LabelPages
  <2>3. QED
    BY <2>1, <2>2 DEF LabelsLead
<1>3. FacetsMiss
  <2>1. SUFFICES ASSUME NEW s \in CatalogPage({}, {})
        PROVE  /\ \A facets \in ListCategories(FacetLimit) :
                    \/ CategoryFacet(s, FALSE) \subseteq DOMAIN facets
                    \/ Cardinality(DOMAIN facets) = FacetLimit
               /\ \A facets \in ListTags(FacetLimit), i \in software[s].tags :
                    \/ i \in DOMAIN facets
                    \/ /\ Cardinality(DOMAIN facets) = FacetLimit
                       /\ \A j \in DOMAIN facets : facets[j] >= Cardinality(CatalogPage({}, {i}))
    BY DEF FacetsMiss
  <2>2. \A facets \in ListCategories(FacetLimit) :
           \/ CategoryFacet(s, FALSE) \subseteq DOMAIN facets
           \/ Cardinality(DOMAIN facets) = FacetLimit
    BY CardLabels, CategoryAnswers
  <2>3. ASSUME NEW facets \in ListTags(FacetLimit), NEW i \in software[s].tags,
               i \notin DOMAIN facets
        PROVE  /\ Cardinality(DOMAIN facets) = FacetLimit
               /\ \A j \in DOMAIN facets : facets[j] >= Cardinality(CatalogPage({}, {i}))
    <3>1. i \in PublicTags
      BY CardLabels
    <3>2. CatalogPage({}, {i}) = WithTag(i)
      BY <3>1, LabelPages
    <3>3. QED
      BY <2>3, <3>1, <3>2, TagAnswers
  <2>4. QED
    BY <2>2, <2>3
<1>4. QED
  BY <1>1, <1>2, <1>3 DEF FacetsAgree

\* The number beside a category or a tag is that of the entries its own page lists; a label
\* on a card leads to a page that lists the entry, and is among the facets unless they are
\* full; whatever was created, edited and deleted before, and whatever the limits.
THEOREM CountsAgree == Spec => []FacetsAgree
  BY PagesAgree, Invariance, PTL

\* A download that a page offers is not refused: the checks of the page and those of the
\* download agree for every status and visibility, except for an administrator who looks
\* at a draft or hidden entry.
THEOREM OffersHold == Spec => []OffersAreDownloadable
<1>1. IInv => OffersAreDownloadable
  <2> SUFFICES ASSUME IInv PROVE OffersAreDownloadable
    OBVIOUS
  <2>1. ASSUME NEW s \in Offers(FALSE)
        PROVE  CanDownloadFile(s, FALSE)
    BY <2>1 DEF Offers, ReleaseViews, CanViewSoftware, IsListableFile, CanDownloadFile
  <2>2. ASSUME NEW s \in Offers(TRUE)
        PROVE  CanDownloadFile(s, TRUE) \/ software[s].status \in {"draft", "hidden"}
    <3>1. s \in DOMAIN releases /\ releases[s].status \in {"published", "archived"}
          /\ releases[s].file = "published" /\ software[s].status # "disabled"
      BY <2>2 DEF Offers, ReleaseViews, CanViewSoftware, IsListableFile
    <3>2. software[s].status \in SoftwareStatus
      BY <3>1 DEF IInv, TableOK, Entry
    <3>3. QED
      BY <3>1, <3>2 DEF CanDownloadFile, SoftwareStatus
  <2>3. QED
    BY <2>1, <2>2 DEF OffersAreDownloadable
<1>2. QED
  BY <1>1, Invariance, PTL

\* Every address of the sitemap leads a visitor to the one page of its slug, which may be
\* indexed, and an entry that is listed is missing only when the sitemap is full.
THEOREM SitemapHolds == Spec => []SitemapServed
<1>1. IInv => SitemapServed
  <2> SUFFICES ASSUME IInv PROVE SitemapServed
    OBVIOUS
  <2>1. ASSUME NEW s \in Listed
        PROVE  /\ s \in DOMAIN software
               /\ {t \in DOMAIN software : software[t].slug = software[s].slug} = {s}
               /\ CanViewSoftware(s, FALSE) /\ Indexed(s)
    BY <2>1 DEF Listed, IsPubliclyListed, CanViewSoftware, Indexed, IInv, TableOK, UniqueSlugs
  <2>2. ASSUME NEW sitemap \in SitemapSoftware
        PROVE  /\ sitemap \subseteq Listed
               /\ CatalogPage({}, {}) \subseteq sitemap \/ Cardinality(sitemap) = EntryLimit
    <3>1. CatalogPage({}, {}) \subseteq Listed
      BY DEF CatalogPage
    <3>2. QED
      BY <3>1 DEF SitemapSoftware, FirstRows
  <2>3. ASSUME NEW sitemap \in SitemapCategories
        PROVE  sitemap \subseteq PublicCategories
    BY CategoryAnswers DEF SitemapCategories
  <2>4. QED
    BY <2>1, <2>2, <2>3, LabelPages DEF SitemapServed
<1>2. QED
  BY <1>1, Invariance, PTL
=============================================================================
