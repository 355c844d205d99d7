----------------------------- MODULE Catalogue ------------------------------
(***************************************************************************)
(* The data pipelines that fill the tables the planner reads: load_pois    *)
(* (map extract to places), parse_hours, wikidata_enrich (photos of        *)
(* places) and category_photos (photos of categories, as files). Somebody  *)
(* runs them one at a time, in any order and as often as they like, while  *)
(* the extract, the mapping of tags and Wikidata change between the runs.  *)
(* The first three write in one transaction; the last one deletes and      *)
(* writes files and may be cut short.                                      *)
(*                                                                         *)
(* A place is its source_ref. Positions are metres along a line.           *)
(***************************************************************************)
EXTENDS Hours, FiniteSetsExt, Functions

CONSTANTS
  Category,    \* poi_categories
  Extracts,    \* contents pois_staging.jsonl may have: sequences of records
  Mappings,    \* contents osm_categories.yaml may have
  Answers,     \* what Wikidata (or Wikipedia instead) answers: sequences of items
  Normal,      \* [name -> its normalised form]
  WordsOf,     \* [normalised name -> its identifying words]
  PlaceTypes, AreaWords,  \* words for kinds of places, and for areas
  CategoryRank,  \* [category -> its place in the alphabet]
  MaxChanges,  \* how often the outside world changes (a bound)
  None

NEAR_M == 150
NEAR_SIM == 45
FAR_M == 600
FAR_SIM == 60
DUPLICATE_M == 120

\* "name", else "name:en".
FullName(rec) == IF rec.name # None THEN rec.name ELSE rec.nameEn

Refs(records) == {records[i].ref : i \in DOMAIN records}

\* What category_photos does between its deletions and its manifest: the
\* categories to download, those downloaded, and the places categories chose.
Job == [todo : SUBSET Category, done : SUBSET Category,
        chosen : [Category -> SUBSET UNION {Refs(x) : x \in Extracts}]]

\* Rules are indexed by tags ("leisure=park"); named is requires_name. A
\* source_ref is in an extract once. Similarities are in percent.
ASSUME CatalogueAssumption ==
  /\ MaxChanges \in Nat /\ IsFiniteSet(Category) /\ Category \subseteq DOMAIN CategoryDefault
  /\ CategoryRank \in [Category -> Nat]
  /\ \A a, b \in Category : CategoryRank[a] = CategoryRank[b] => a = b
  /\ \A x \in Extracts :
       /\ Len(x) \in Nat /\ DOMAIN x = 1..Len(x)
       /\ \A i, j \in DOMAIN x : x[i].ref = x[j].ref => i = j
       /\ \A i \in DOMAIN x :
            /\ DOMAIN x[i].tags \subseteq Nat
            /\ x[i].hours \in {NoTag, Always} \cup Seq(TagRule)
            /\ FullName(x[i]) # None => Normal[FullName(x[i])] \in DOMAIN WordsOf
  /\ \A m \in Mappings : \A t \in DOMAIN m.rules :
       {m.rules[t].primary} \cup m.rules[t].secondary \subseteq Category
  /\ \A x \in Answers :
       /\ Len(x) \in Nat /\ DOMAIN x = 1..Len(x)
       /\ \A i \in DOMAIN x :
            /\ x[i].sitelinks \in Nat
            /\ \A l \in x[i].labels, n \in DOMAIN WordsOf : l.sim[n] \in 0..100
  /\ None \notin Job

VARIABLES
  staging, mapping,  \* the files load_pois reads
  pois,      \* [ref -> row], the active places
  hours,     \* [ref -> rows], poi_opening_hours
  cache,     \* the cached answer of Wikidata, or None
  files,     \* the categories with a photo on disk
  manifest,  \* the categories categories.json gives a photo
  job,       \* the run of category_photos under way, or None
  cut,       \* the last run of category_photos was cut short
  changes,   \* how often the world has changed
  loaded,    \* the last load read what is in the files now (history)
  enriched   \* neither the answer nor a place has changed since the last
             \* enrichment, but by it (history)

world == <<staging, mapping, changes>>
tables == <<pois, hours>>
photos == <<files, manifest, job, cut>>
vars == <<world, tables, cache, photos, loaded, enriched>>

Gap(x, y) == IF x > y THEN x - y ELSE y - x
NothingYet == [r \in {} |-> None]

Init ==
  /\ staging \in Extracts /\ mapping \in Mappings
  /\ pois = NothingYet /\ hours = NothingYet
  /\ cache = None
  /\ files = {} /\ manifest = {} /\ job = None /\ cut = FALSE
  /\ changes = 0
  /\ loaded = FALSE /\ enriched = FALSE

\* A new extract, or an edit of the mapping.
Change ==
  /\ job = None /\ changes < MaxChanges
  /\ \/ staging' \in Extracts \ {staging} /\ UNCHANGED mapping
     \/ mapping' \in Mappings \ {mapping} /\ UNCHANGED staging
  /\ changes' = changes + 1 /\ loaded' = FALSE
  /\ UNCHANGED <<tables, cache, photos, enriched>>

-----------------------------------------------------------------------------
(* load_pois.                                                              *)

\* Mapping.resolve: the first tag that is dropped or has a rule decides.
Rule(rec) ==
  LET telling == {i \in DOMAIN rec.tags : rec.tags[i] \in mapping.drop \cup DOMAIN mapping.rules}
  IN IF telling = {} THEN None
     ELSE LET t == rec.tags[Min(telling)]
          IN IF t \in mapping.drop THEN None
             ELSE IF mapping.rules[t].named /\ rec.name = None THEN None
             ELSE mapping.rules[t]

Candidates ==
  {i \in DOMAIN staging : FullName(staging[i]) # None /\ Rule(staging[i]) # None}

\* Of the records with one identifier the first stays.
ByWikidata ==
  LET all == Candidates
  IN {i \in all : staging[i].qid # None =>
        \A j \in all : staging[j].qid = staging[i].qid => i <= j}

SameSpot(a, b) ==
  Normal[FullName(a)] = Normal[FullName(b)] /\ Gap(a.spot, b.spot) < DUPLICATE_M

\* Of these, a record stays if none stays before it at the same spot.
Final ==
  LET some == ByWikidata
      stays[i \in some] ==
        \A j \in some : j < i /\ SameSpot(staging[j], staging[i]) => ~ stays[j]
  IN {i \in some : stays[i]}

\* The row of an INSERT. Of its id only the rank among the ids is kept, in whose
\* order equals are told apart; ids have gaps, as a conflicting INSERT takes one.
Fresh(rec, rank) ==
  [rank |-> rank, norm |-> Normal[FullName(rec)], spot |-> rec.spot,
   primary |-> Rule(rec).primary, links |-> {Rule(rec).primary} \cup Rule(rec).secondary,
   hours |-> rec.hours, qid |-> rec.qid, photo |-> None, hash |-> rec]

\* Mutant: an update sets every column again.
MutUpdateResets(row, rec) == Fresh(rec, row.rank)

\* ON CONFLICT DO UPDATE.
Update(row, rec) ==
  [Fresh(rec, row.rank) EXCEPT !.qid = row.qid, !.photo = row.photo]

Unchanged(rec) == rec.ref \in DOMAIN pois /\ pois[rec.ref].hash = rec

Written == {i \in Final : ~ Unchanged(staging[i])}

\* New rows come after all others, in the order of the file.
NextRank(i, written) ==
  Cardinality(DOMAIN pois)
  + Cardinality({j \in written : staging[j].ref \notin DOMAIN pois /\ j <= i})

Load ==
  /\ job = None
  /\ loaded' = TRUE
  /\ UNCHANGED <<world, hours, cache, photos>>
  /\ LET written == Written
         rowFor(i) == IF staging[i].ref \in DOMAIN pois
                      THEN Update(pois[staging[i].ref], staging[i])
                      ELSE Fresh(staging[i], NextRank(i, written))
     IN /\ pois' = [r \in DOMAIN pois \cup {staging[i].ref : i \in written} |->
                      IF \E i \in written : staging[i].ref = r
                      THEN rowFor(CHOOSE i \in written : staging[i].ref = r)
                      ELSE pois[r]]
        /\ enriched' = (enriched /\ written = {})

-----------------------------------------------------------------------------
(* parse_hours.                                                            *)

ParseHours ==
  /\ job = None
  /\ UNCHANGED <<world, pois, cache, photos, loaded, enriched>>
  /\ hours' = [r \in DOMAIN pois |-> Stored(pois[r].hours, pois[r].primary)]

-----------------------------------------------------------------------------
(* wikidata_enrich. An item has labels (their words, the words before the  *)
(* comma, and how similar they are to the names of places, in percent).    *)

\* fetch_items: asked once, or again with --refresh.
FetchItems ==
  /\ job = None /\ changes < MaxChanges
  /\ cache' \in Answers \ {cache}
  /\ changes' = changes + 1 /\ enriched' = FALSE
  /\ UNCHANGED <<staging, mapping, tables, photos, loaded>>

NamesOnlyPart(label, words) ==
  label.words = {}
  \/ /\ label.words \subseteq words /\ label.words # words
     /\ label.words \cap PlaceTypes = {}

ConflictingKind(label, words) ==
  \/ ~ label.head \cap AreaWords \subseteq words
  \/ /\ words \cap PlaceTypes # {}
     /\ ~ label.head \cap PlaceTypes \subseteq words

Rejects(label, norm) ==
  NamesOnlyPart(label, WordsOf[norm]) \/ ConflictingKind(label, WordsOf[norm])

Accept(sim, dist) ==
  \/ dist <= NEAR_M /\ sim >= NEAR_SIM
  \/ dist <= FAR_M /\ sim >= FAR_SIM

\* The similarity of the label that names the place best; none counts as 0.
Sim(item, norm) ==
  Max({0} \cup {l.sim[norm] : l \in {x \in item.labels : ~ Rejects(x, norm)}})
Distance(item, row) == Gap(item.spot, row.spot)

\* Mutant: places that have a photo are left out.
MutFits(item) ==
  {r \in DOMAIN pois : pois[r].photo = None
                       /\ Accept(Sim(item, pois[r].norm), Distance(item, pois[r]))}

Fits(item) == {r \in DOMAIN pois : Accept(Sim(item, pois[r].norm), Distance(item, pois[r]))}

\* best_match; between equals it is the order of the query, which has none.
BestMatches(item) ==
  {r \in Fits(item) : \A x \in Fits(item) :
     \/ Sim(item, pois[x].norm) < Sim(item, pois[r].norm)
     \/ /\ Sim(item, pois[x].norm) = Sim(item, pois[r].norm)
        /\ Distance(item, pois[x]) >= Distance(item, pois[r])}

Matches ==
  LET best == [i \in DOMAIN cache |-> BestMatches(cache[i])]
  IN {m \in [DOMAIN cache -> {None} \cup UNION Range(best)] :
        \A i \in DOMAIN cache : IF best[i] = {} THEN m[i] = None ELSE m[i] \in best[i]}

\* assign: of several items, the most notable one, then the most similar one,
\* then the first.
Notability(i, r) == <<cache[i].sitelinks, Sim(cache[i], pois[r].norm)>>
Above(a, b) == a[1] > b[1] \/ (a[1] = b[1] /\ a[2] > b[2])
Chosen(m, r) ==
  CHOOSE i \in DOMAIN m :
    /\ m[i] = r
    /\ \A j \in DOMAIN m : m[j] = r =>
         \/ Above(Notability(i, r), Notability(j, r))
         \/ ~ Above(Notability(j, r), Notability(i, r)) /\ i <= j

Photographed(row, item) ==
  IF item.found THEN [row EXCEPT !.qid = item.qid,
                                 !.photo = [item |-> item.qid, links |-> item.sitelinks]]
  ELSE row

\* A failed fetch of the credits ends the run with nothing written.
Enrich ==
  /\ job = None /\ cache # None
  /\ enriched' = TRUE
  /\ UNCHANGED <<world, hours, cache, photos, loaded>>
  /\ \E m \in Matches :
       pois' = [r \in DOMAIN pois |->
                  IF \E i \in DOMAIN m : m[i] = r
                  THEN Photographed(pois[r], cache[Chosen(m, r)]) ELSE pois[r]]

-----------------------------------------------------------------------------
(* category_photos.                                                        *)

WithPhoto == {r \in DOMAIN pois : pois[r].photo # None}
Of(c) == {r \in WithPhoto : c \in pois[r].links}

\* Mutant: the categories choose in alphabetical order.
MutByName(a, b) == CategoryRank[a] < CategoryRank[b]

\* The categories with the fewest candidates choose first.
ChoosesBefore(a, b) ==
  \/ Cardinality(Of(a)) < Cardinality(Of(b))
  \/ Cardinality(Of(a)) = Cardinality(Of(b)) /\ CategoryRank[a] < CategoryRank[b]

MostNotable(s) ==
  CHOOSE r \in s : \A x \in s \ {r} :
    \/ pois[x].photo.links < pois[r].photo.links
    \/ pois[x].photo.links = pois[r].photo.links /\ pois[x].rank > pois[r].rank

\* choose: of each category, the place it takes, if one is left by those that
\* choose before it.
Choice[c \in Category] ==
  LET free == Of(c) \ UNION {Choice[k] : k \in {x \in Category : ChoosesBefore(x, c)}}
  IN IF free = {} THEN {} ELSE {MostNotable(free)}

\* A search of Commons finds photos for some of the categories left over; then
\* the old files are deleted.
BeginPhotos ==
  /\ job = None /\ WithPhoto # {}
  /\ UNCHANGED <<world, tables, cache, manifest, loaded, enriched>>
  /\ files' = {}
  /\ cut' = FALSE
  /\ \E found \in SUBSET {c \in Category : Choice[c] = {}} :
       job' = [todo |-> {c \in Category : Choice[c] # {}} \cup found, done |-> {},
               chosen |-> Choice]

Underway == job # None /\ job.todo # {}

\* The places chosen come first, in the order they were, then what was found.
SavedBefore(a, b) ==
  \/ job.chosen[a] # {} /\ job.chosen[b] = {}
  \/ job.chosen[a] # {} /\ job.chosen[b] # {} /\ ChoosesBefore(a, b)
  \/ job.chosen[a] = {} /\ job.chosen[b] = {} /\ CategoryRank[a] < CategoryRank[b]
NextDownload == CHOOSE c \in job.todo : \A k \in job.todo \ {c} : SavedBefore(c, k)

\* Mutant: what could not be downloaded is credited all the same.
MutSkipDownload ==
  /\ Underway
  /\ job' = [job EXCEPT !.todo = @ \ {NextDownload}, !.done = @ \cup {NextDownload}]
  /\ UNCHANGED <<world, tables, cache, files, manifest, cut, loaded, enriched>>

\* One photo is refused and skipped, or downloaded.
SkipDownload ==
  /\ Underway
  /\ job' = [job EXCEPT !.todo = @ \ {NextDownload}]
  /\ UNCHANGED <<world, tables, cache, files, manifest, cut, loaded, enriched>>

Download ==
  /\ Underway
  /\ job' = [job EXCEPT !.todo = @ \ {NextDownload}, !.done = @ \cup {NextDownload}]
  /\ files' = files \cup {NextDownload}
  /\ UNCHANGED <<world, tables, cache, manifest, cut, loaded, enriched>>

EndPhotos ==
  /\ job # None /\ job.todo = {}
  /\ manifest' = job.done
  /\ job' = None
  /\ UNCHANGED <<world, tables, cache, files, cut, loaded, enriched>>

\* The connection breaks, or somebody stops the run.
CutPhotos ==
  /\ job # None
  /\ job' = None /\ cut' = TRUE
  /\ UNCHANGED <<world, tables, cache, files, manifest, loaded, enriched>>

-----------------------------------------------------------------------------

Next ==
  \/ Change \/ Load \/ ParseHours \/ FetchItems \/ Enrich
  \/ BeginPhotos \/ SkipDownload \/ Download \/ EndPhotos \/ CutPhotos

Spec == Init /\ [][Next]_vars

-----------------------------------------------------------------------------

PoiRow(row) ==
  /\ row.rank \in Nat
  /\ row.primary \in row.links /\ row.links \subseteq Category
  /\ row.norm \in DOMAIN WordsOf
  /\ row.photo # None => row.qid = row.photo.item

TypeOK ==
  /\ staging \in Extracts /\ mapping \in Mappings /\ changes \in 0..MaxChanges
  /\ loaded \in BOOLEAN /\ enriched \in BOOLEAN
  /\ \A r \in DOMAIN pois : PoiRow(pois[r])
  /\ \A r, x \in DOMAIN pois : pois[r].rank = pois[x].rank => r = x
  /\ DOMAIN hours \subseteq DOMAIN pois
  /\ \A r \in DOMAIN hours : hours[r] \subseteq Row /\ hours[r] # {}
  /\ files \subseteq Category /\ manifest \subseteq Category
  /\ job # None => job \in Job /\ job.done = files

\* Rerunning the load on unchanged input writes no row (load_pois.py:11),
\* whatever has been done to the tables in between; and no load takes a photo
\* from a place.
LoadWritesOnce ==
  [][Load => /\ loaded => pois' = pois
             /\ \A r \in DOMAIN pois : pois'[r].photo = pois[r].photo]_vars

\* Parsed hours say what the tag says, minute by minute, but on a day an "off"
\* was read for, at times past 24:00, when rows clash, under rules a later rule
\* has replaced or that are not about weekdays, and for rules read in part
\* (parse_hours.py:77; the cases are named in Hours).
HoursSayTheTag ==
  [][ParseHours =>
       \A r \in DOMAIN pois :
         pois[r].hours \notin {NoTag, Always} => SaysTheSame(pois[r].hours, hours'[r])]_vars

\* Running the enrichment again overwrites the same columns with the same values
\* (wikidata_enrich.py:14), unless two places fit an item equally well.
Decided == \A i \in DOMAIN cache : Cardinality(BestMatches(cache[i])) <= 1
EnrichWritesOnce ==
  [][pois' # pois /\ Enrich => ~ Decided \/ ~ enriched]_vars

\* A category shows a place of its own, no place is shown twice, and a category
\* is left without one only when each it could show was taken by a category that
\* had no more to choose from (category_photos.py:53).
ScarceFirst ==
  [][BeginPhotos =>
       LET picked == job'.chosen IN
       \A c \in Category :
         /\ picked[c] \subseteq Of(c)
         /\ \A k \in Category : c # k => picked[c] \cap picked[k] = {}
         /\ picked[c] = {} => \A r \in Of(c) : \E k \in Category :
              r \in picked[k] /\ Cardinality(Of(k)) <= Cardinality(Of(c))]_vars

\* The photos on disk are those categories.json credits, but while
\* category_photos runs or after it was cut short (category_photos.py:284).
PhotosAreCredited == job = None /\ ~ cut => manifest = files

\* A place has one row, its main category among its links, the identifier of the
\* item its photo is from, and, once parsed, hours on some day; the photos on
\* disk are the credited ones.
Inv == TypeOK /\ PhotosAreCredited

\* What the page of a place says of a day without hours, "Closed"
\* (PlacePage.tsx:21): the planner takes nobody there on such a day.
ClosedDaysAreKept ==
  \A r \in DOMAIN hours, d \in Weekday :
    ShownClosed(hours[r], d) =>
      \A w \in Windows(hours[r], d), m \in Moments : ~ Offered(w, m)
=============================================================================
