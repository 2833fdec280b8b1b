---------------------------- MODULE NewsSources -----------------------------
(***************************************************************************)
(* What the fetchers make of the answers of their sources.  An answer is a *)
(* sequence of entries, no longer than the fetcher's sample; an entry is a *)
(* story and the one thing that is wrong with it, if anything is.          *)
(*                                                                         *)
(* A story stands for its URL, by which it is stored once; a fetcher that  *)
(* has no link makes one up or passes the entry on without.                *)
(***************************************************************************)
EXTENDS Naturals, Sequences, FiniteSets

Kind == {"rss", "hackernews", "github"}

\* What can be wrong: no title, no link or no date that can be read, a null
\* where the entry should be, an answer of 400 or above for it alone, or a
\* story in which no keyword is found.
Flaw(kind) ==
  {"none", "title", "link", "date"} \cup
    CASE kind = "rss"        -> {}
      [] kind = "hackernews" -> {"null", "gone", "offTopic"}
      [] kind = "github"     -> {"null"}

Answers(stories, kind, sample) ==
  UNION {[1 .. n -> [story : stories, flaw : Flaw(kind)]] : n \in 0 .. sample}

\* The entries that have none of the flaws, in the order of the answer: the
\* n-th of them is the one with n of them up to it.
Without(entries, flaws) ==
  LET kept == {i \in 1 .. Len(entries) : entries[i].flaw \notin flaws}
      Rank(i) == Cardinality({k \in kept : k <= i})
  IN  [n \in 1 .. Cardinality(kept) |-> entries[CHOOSE i \in kept : Rank(i) = n]]

\* The date an entry bears, ahead of the clock or not; one that is missing or
\* cannot be read is the time of the fetch.
ParseDate(entry, published, now) ==
  IF entry.flaw = "date" THEN now ELSE published[entry.story]

\* NewsItem refuses an item whose title or URL is blank.
FetchedItem(entry, blank, published, now) ==
  [story |-> entry.story, fit |-> entry.flaw \notin blank,
   date |-> ParseDate(entry, published, now)]

FetchedItems(entries, blank, published, now) ==
  [i \in 1 .. Len(entries) |-> FetchedItem(entries[i], blank, published, now)]

-----------------------------------------------------------------------------

\* Four of the sources: an entry without a title or a link is left out.
RssItems(entries, published, now) ==
  FetchedItems(Without(entries, {"title", "link"}), {}, published, now)

\* Hacker News: a null entry raises inside the try block around the whole
\* sample, which then comes to nothing.  A story without a link gets the link
\* of its discussion; one without a title passes if its link has a keyword.
HackerNewsItems(entries, published, now) ==
  IF \E i \in 1 .. Len(entries) : entries[i].flaw = "null" THEN <<>>
  ELSE FetchedItems(Without(entries, {"gone", "offTopic"}), {"title"}, published, now)

\* GitHub: the title holds a dash whatever is missing, and the link is passed
\* on as it is.
GitHubItems(entries, published, now) ==
  FetchedItems(Without(entries, {"null"}), {"link"}, published, now)

ItemsOf(kind, entries, published, now) ==
  CASE kind = "rss"        -> RssItems(entries, published, now)
    [] kind = "hackernews" -> HackerNewsItems(entries, published, now)
    [] kind = "github"     -> GitHubItems(entries, published, now)

=============================================================================
