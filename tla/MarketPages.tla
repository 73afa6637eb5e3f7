----------------------------- MODULE MarketPages -----------------------------
(***************************************************************************)
(* The listings of the markets.  A page that a client asks for is put       *)
(* together from pages of the upstream, whose size is another, or reached   *)
(* by walking from page to page; the upstream listing may change from one   *)
(* of its pages to the next.  The client goes on to the next page as long   *)
(* as it is told that there is more.                                        *)
(***************************************************************************)
EXTENDS Integers, FiniteSets, Sequences, SequencesExt

CONSTANTS
    HfPage,      \* items in a page of HuggingFace (30)
    KagglePage,  \* datasets in a page of Kaggle (20)
    FilesPage,   \* files in a page of Kaggle, if the page is asked for with its size (100)
    FirstFiles,  \* files in a first page of Kaggle, asked for without
    Cap,         \* KAGGLE_TOTAL_CAP
    Sizes,       \* page sizes a client may ask for
    Spaces,      \* items of a listing of models that are not models
    MaxItems,    \* bound on the items of a listing
    MaxPage,     \* bound on the pages a client asks for
    MaxChanges   \* bound on changes of the listing and on repeated tokens

ASSUME PagesAssumption ==
    /\ HfPage \in Nat \ {0} /\ KagglePage \in Nat \ {0} /\ FilesPage \in Nat \ {0}
    /\ FirstFiles \in Nat \ {0}
    /\ Sizes \subseteq Nat \ {0} /\ Cap \in Nat
    /\ MaxItems \in Nat /\ MaxPage \in Nat \ {0}

VARIABLES
    catalog,   \* the listing of the upstream
    changes,   \* changes and repeated tokens so far
    lowlevel,  \* the Kaggle SDK has its low-level client
    walk       \* the client: what it asks for, and what it was shown

pagesVars == <<catalog, changes, lowlevel, walk>>

-----------------------------------------------------------------------------

\* The files of a model or a dataset, which a client asks for as a whole.
FileListings == {"hf_model_files", "hf_dataset_files", "kaggle_model_files", "kaggle_dataset_files"}

Listings == {"hf_models", "hf_datasets", "kaggle_models", "kaggle_datasets"} \cup FileListings

NoCount == -1

\* from, to and tokens: the upstream pages that are left to fetch, and the tokens
\* seen; count: what the upstream counts; internal: the internal count was told, on
\* this page or before; changed: the listing was, since the client began; exact, more,
\* total: the answer; shown: on the pages before and on this one.
NoWalk == [of |-> "none", page |-> 1, size |-> 1, at |-> "idle", from |-> 0, to |-> 0,
           tokens |-> {}, items |-> << >>, count |-> NoCount, internal |-> FALSE,
           exact |-> FALSE, more |-> FALSE, total |-> 0, shown |-> << >>, entire |-> FALSE,
           changed |-> FALSE]

PagesInit ==
    /\ \E n \in 0..MaxItems : catalog = [i \in 1..n |-> i]
    /\ changes = 0 /\ lowlevel \in BOOLEAN
    /\ walk = NoWalk

\* An item disappears, or a new one comes.
Change ==
    /\ walk.at # "idle" /\ changes < MaxChanges /\ changes' = changes + 1
    /\ \/ \E i \in DOMAIN catalog : catalog' = RemoveAt(catalog, i)
       \/ Len(catalog) < MaxItems /\ catalog' = <<MaxItems + changes + 1>> \o catalog
    /\ walk' = [walk EXCEPT !.changed = TRUE]
    /\ UNCHANGED lowlevel

Becomes(w) == walk' = w /\ UNCHANGED <<catalog, changes, lowlevel>>

\* The items of a slice, as far as there are any.
Slice(s, first, n) == SubSeq(s, first + 1, IF first + n < Len(s) THEN first + n ELSE Len(s))

Start(w) == (w.page - 1) * w.size

\* Which upstream pages of size n cover the page that the client asks for.
FirstOf(w, n) == Start(w) \div n

\* Mutant of LastOf: one page, whatever the sizes.
LastOfOne(w, n) == FirstOf(w, n)

LastOf(w, n) == (Start(w) + w.size - 1) \div n

\* Upstream pages start at 0 here; a walk by tokens starts at the first item.
Fetching(w) ==
    LET u == [w EXCEPT !.at = "fetching", !.items = << >>, !.tokens = {}, !.count = NoCount]
    IN CASE w.of \in {"hf_models", "hf_datasets"} ->
              [u EXCEPT !.from = FirstOf(w, HfPage), !.to = LastOf(w, HfPage)]
         [] w.of = "kaggle_datasets" ->
              [u EXCEPT !.from = FirstOf(w, KagglePage), !.to = LastOf(w, KagglePage)]
         [] OTHER -> [u EXCEPT !.from = 0, !.to = w.page]

\* A client asks for a first page, or for any other.
Ask ==
    /\ walk.at = "idle"
    /\ \E of \in Listings, page \in 1..MaxPage, size \in Sizes :
         /\ of \in FileListings => page = 1 /\ size = FilesPage
         /\ Becomes(Fetching([NoWalk EXCEPT !.of = of, !.page = page, !.size = size,
                                            !.entire = (page = 1)]))

\* It asks for the next one.
AskNext ==
    /\ walk.at = "answered" /\ walk.more /\ walk.page < MaxPage
    /\ Becomes(Fetching([walk EXCEPT !.page = @ + 1]))

-----------------------------------------------------------------------------
(* The answers.                                                            *)

\* Mutant of Full: a full page is taken for the last.
FullAbove(w) == Len(w.items) > w.size

Full(w) == Len(w.items) >= w.size

\* _paginated_total.
_paginated_total(w, count) ==
    LET seen == Start(w) + Len(w.items)
    IN CASE count = NoCount -> [total |-> seen, exact |-> ~Full(w), more |-> Full(w)]
         [] count # NoCount /\ count < seen -> [total |-> seen, exact |-> FALSE, more |-> Full(w)]
         [] count >= seen /\ count >= Cap -> [total |-> count, exact |-> FALSE, more |-> TRUE]
         [] OTHER -> [total |-> count, exact |-> TRUE, more |-> seen < count]

\* What HuggingFace counts is told as it is.  Of models there is no has_more: a
\* client goes by the total.
Counted(w) ==
    [total |-> w.count, exact |-> TRUE,
     more  |-> Start(w) + (IF w.of = "hf_models" THEN w.size ELSE Len(w.items)) < w.count]

Answer(w, a) ==
    [w EXCEPT !.at = "answered", !.shown = @ \o w.items, !.from = 0, !.to = 0, !.tokens = {},
              !.total = a.total, !.exact = a.exact, !.more = a.more]

IsModel(i) == i \notin Spaces

\* The items that are models, in their order.
Models(s) ==
    LET kept   == {i \in DOMAIN s : IsModel(s[i])}
        nth(n) == CHOOSE i \in kept : Cardinality({j \in kept : j <= i}) = n
    IN  [n \in 1..Cardinality(kept) |-> s[nth(n)]]

-----------------------------------------------------------------------------
(* Fetching.                                                               *)

\* The part of what was fetched that the client asked for.
Window(w, n) == Slice(w.items, Start(w) - FirstOf(w, n) * n, w.size)

\* search_models and search_datasets of HuggingFace.
HfFetch ==
    /\ walk.at = "fetching" /\ walk.of \in {"hf_models", "hf_datasets"}
    /\ LET w == [walk EXCEPT !.items = @ \o Slice(catalog, walk.from * HfPage, HfPage),
                             !.count = Len(catalog), !.from = @ + 1]
           page == [w EXCEPT !.items = IF w.of = "hf_models"
                                       THEN Models(Window(w, HfPage))
                                       ELSE Window(w, HfPage)]
       IN Becomes(IF w.from <= w.to THEN w ELSE Answer(page, Counted(page)))

\* _datasets_list_sync and search_datasets of Kaggle.
DatasetsFetch ==
    /\ walk.at = "fetching" /\ walk.of = "kaggle_datasets"
    /\ LET w == [walk EXCEPT !.items = @ \o Slice(catalog, walk.from * KagglePage, KagglePage),
                             !.from = @ + 1]
           page == [w EXCEPT !.items = Window(w, KagglePage)]
       IN Becomes(IF w.from <= w.to THEN w ELSE Answer(page, _paginated_total(page, NoCount)))

\* Kaggle counts no further than the cap.
Capped(n) == IF n > Cap THEN Cap ELSE n

\* _model_list_lowlevel: each page has the token of the next, and the last none.
ModelsFetch ==
    /\ walk.at = "fetching" /\ walk.of = "kaggle_models" /\ lowlevel
    /\ LET reached == walk.from + 1
           items   == Slice(catalog, walk.from * walk.size, walk.size)
           token   == reached * walk.size < Len(catalog)
           w == [walk EXCEPT !.from = reached, !.count = Capped(Len(catalog))]
       IN Becomes(CASE reached = walk.to -> [w EXCEPT !.at = "counting", !.items = items]
                    [] reached < walk.to /\ token -> w
                    [] OTHER -> [w EXCEPT !.at = "counting"])

\* _model_list_sync without a low-level client: it asks for all items up to the
\* page's last, and takes the first ones if they would fill no more than a page.
ModelsFallback ==
    /\ walk.at = "fetching" /\ walk.of = "kaggle_models" /\ ~lowlevel
    /\ LET all == Slice(catalog, 0, walk.size * walk.page)
       IN Becomes([walk EXCEPT !.at = "counting",
                     !.items = IF Len(all) > walk.size THEN Slice(all, Start(walk), walk.size)
                                                       ELSE all])

\* _list_models: the internal count, of models that organisations own, if there
\* is one, or else the one of the listing.
Count ==
    /\ walk.at = "counting"
    /\ \/ Becomes(Answer(walk, _paginated_total(walk, walk.count)))
       \/ \E owned \in 0..Len(catalog) :
            Becomes(Answer([walk EXCEPT !.internal = TRUE],
                           _paginated_total(walk, Capped(owned))))

\* Mutant of Known: the tokens that were seen are forgotten.
KnownNone(token) == FALSE

Known(token) == token \in walk.tokens

Whole(w) == Answer(w, [total |-> Len(w.items), exact |-> TRUE, more |-> FALSE])

\* A walk over the pages of a listing of files, by tokens that stand for the files
\* before them: a token that Kaggle repeats ends the walk.  What is found is followed
\* only until then.
WalksOn(first) ==
    /\ walk.at = "fetching"
    /\ \E repeated \in {0} \cup walk.tokens :
         LET size  == IF walk.tokens = {} THEN first ELSE FilesPage
             next  == IF repeated = 0 THEN walk.from + size ELSE repeated
             found == Slice(catalog, walk.from, size)
             w == [walk EXCEPT !.items = IF Len(@) > MaxItems + FilesPage THEN @ ELSE @ \o found,
                               !.changed = @ \/ repeated # 0]
             more == repeated # 0 \/ next < Len(catalog)
         IN  Becomes(IF more /\ ~Known(next)
                     THEN [w EXCEPT !.from = next, !.tokens = @ \cup {next}]
                     ELSE Whole(w))

\* _dataset_list_files_sync.
DatasetFilesFetch == walk.of = "kaggle_dataset_files" /\ WalksOn(FirstFiles)

\* _model_instance_files_sync: of the latest version, if the low-level client tells
\* its number, or else by the SDK.
ModelFilesFetch ==
    /\ walk.of = "kaggle_model_files"
    /\ (lowlevel /\ WalksOn(FilesPage)) \/ WalksOn(FirstFiles)

AllAtOnce == walk.at = "fetching" /\ Becomes(Whole([walk EXCEPT !.items = catalog]))

\* get_model_files of HuggingFace: the siblings that repo_info lists, if any.
HfModelFilesFetch == walk.of = "hf_model_files" /\ AllAtOnce

\* get_dataset_files of HuggingFace.
HfDatasetFilesFetch == walk.of = "hf_dataset_files" /\ AllAtOnce

\* An upstream call fails, or does not answer in time: so does the request.
FetchFails ==
    /\ walk.at = "fetching"
    /\ Becomes([NoWalk EXCEPT !.at = "failed"])

Fetch ==
    \/ HfFetch \/ DatasetsFetch \/ ModelsFetch \/ ModelsFallback
    \/ DatasetFilesFetch \/ ModelFilesFetch \/ HfModelFilesFetch \/ HfDatasetFilesFetch
    \/ FetchFails

PagesNext == Change \/ Ask \/ AskNext \/ Fetch \/ Count

PagesSpec == PagesInit /\ [][PagesNext]_pagesVars

-----------------------------------------------------------------------------

\* Every variable has its type.
PagesTypeOK ==
    /\ Len(catalog) <= MaxItems /\ IsInjective(catalog)
    /\ walk.at \in {"idle", "fetching", "counting", "answered", "failed"}
    /\ walk.of \in Listings \cup {"none"} /\ walk.page \in 1..MaxPage
    /\ walk.from \in Nat /\ walk.count \in {NoCount} \cup 0..MaxItems

\* The fallback shows the first page again, where there is no other.
ShowsFirstAgain ==
    walk.of = "kaggle_models" /\ ~lowlevel /\ walk.page > 1 /\ Len(catalog) <= walk.size

Wanted(s) == IF walk.of = "hf_models" THEN Models(s) ELSE s

\* Of a listing that does not change, every page is the slice that it should be,
\* whatever the sizes of pages here and upstream.
PageExact ==
    walk.at = "answered" /\ ~walk.changed /\ ~ShowsFirstAgain =>
      walk.items = IF walk.of \in FileListings THEN catalog
                   ELSE Wanted(Slice(catalog, Start(walk), walk.size))

\* A client that began at the first page was shown the first items of the listing,
\* each once, none left out from a page to the next, whatever it was told of their
\* number.  Once it is told that there is no more, it was shown all, and an exact
\* number is the number of items: unless it was told of Kaggle's internal count,
\* which is of fewer models than are listed, and may end its walk before the end.
WalkComplete ==
    walk.at = "answered" /\ walk.entire /\ ~walk.changed =>
      /\ walk.of \notin FileListings /\ ~ShowsFirstAgain =>
           walk.shown = Wanted(Slice(catalog, 0, Start(walk) + walk.size))
      /\ ~walk.more /\ ~walk.internal =>
           walk.shown = Wanted(catalog) /\ (walk.exact => walk.total = Len(catalog))

\* Every listing ends, though Kaggle should repeat its tokens.
ListingsEnd == (walk.at = "fetching") ~> (walk.at # "fetching")
=============================================================================
