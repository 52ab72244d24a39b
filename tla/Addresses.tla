------------------------------ MODULE Addresses ------------------------------
(***************************************************************************)
(* How the services name pages and domains.  Four pieces of code do it on  *)
(* their own: the mapper for seeds and links, the parser for the URLs the  *)
(* mapper stored and for the PDFs it finds itself, and the monitor and the *)
(* mapper's command line for what an operator types to replay a domain.    *)
(* Rows and documents are keyed by domain and URL, so wherever two of them *)
(* disagree a page is stored twice or not found.                           *)
(*                                                                         *)
(* A path is the sequence of what stands between its slashes: <<"a", "">>  *)
(* is /a/, <<"">> is / and <<>> is no path at all.  A host is the sequence *)
(* of its labels; a trailing dot is a last, empty label.  Case, queries,   *)
(* fragments, user names and the schemes that are refused are left out.    *)
(***************************************************************************)
EXTENDS Integers, Sequences, FiniteSets, SequencesExt

CONSTANTS Seeds,        \* what operators ask to crawl,
          Links,        \* what pages link to, and
          Targets,      \* what operators ask to replay: sets of records
                        \*   [scheme, host, port, abs, path]
          Segment,      \* path segments
          Decoded,      \* the segments an escaped segment stands for
          PdfNames,     \* segments that end in .pdf
          AssetNames,   \* segments with an extension the parser skips
          Registrable,  \* publicsuffix.EffectiveTLDPlusOne, or the host itself
          Modes,        \* SAME_DOMAIN_MODE: subset of {"registrable", "host"}
          MaxStored,    \* bound: rows and documents together
          MaxSaid       \* bound: length of the paths of pages that are not alone

\* What stands at the end of host h.
Ends(domain, h) ==
    /\ Len(domain) \in 1 .. Len(h)
    /\ domain = SubSeq(h, Len(h) - Len(domain) + 1, Len(h))

Text == [scheme : {"", "http", "https"}, host : {<<>>} \cup DOMAIN Registrable,
         port : STRING, abs : BOOLEAN, path : Seq(Segment)]

\* A segment without its escapes is one or more, and what was taken off its
\* escapes stands for itself: it is escaped again when it is written.  A registrable domain has two labels, unless it is the whole host,
\* and is as long as any that the host ends with.
ASSUME AddressesAssumption ==
    /\ {"", ".", ".."} \subseteq Segment
    /\ Decoded \in [Segment -> Seq(Segment) \ {<<>>}]
    /\ \A s \in Segment : \A i \in DOMAIN Decoded[s] : Decoded[Decoded[s][i]] = <<Decoded[s][i]>>
    /\ \A s \in {"", ".", ".."} : Decoded[s] = <<s>>
    /\ DOMAIN Registrable \subseteq Seq(STRING)
    /\ \A h \in DOMAIN Registrable :
          /\ Ends(Registrable[h], h)
          /\ Registrable[h] = h \/ Len(Registrable[h]) >= 2
          /\ \A g \in DOMAIN Registrable :
                Ends(Registrable[g], h) => Len(Registrable[g]) <= Len(Registrable[h])
    /\ Seeds \cup Links \cup Targets \subseteq Text
    /\ MaxStored \in Nat /\ MaxSaid \in Nat

VARIABLES
    mode,   \* SAME_DOMAIN_MODE of the mapper
    crawl,  \* the domain of the crawl that is running, <<>> before the first
    rows,   \* urls with their domains: [url, domain], the path that was said,
            \* and whether a link said it
    docs    \* page_documents: [url, hash, domain], the row of the page that
            \* was parsed, and the URL the mapper has for the document

vars == <<mode, crawl, rows, docs>>

-----------------------------------------------------------------------------
(* cleanPath, the same in the mapper and the parser.                       *)

unescape(p) ==
    LET text[i \in 0 .. Len(p)] == IF i = 0 THEN <<>> ELSE text[i - 1] \o Decoded[p[i]]
    IN  text[Len(p)]

Part(stack, part) ==
    CASE part \in {"", "."} -> stack
      [] part = ".."        -> IF stack = <<>> THEN <<>> ELSE Front(stack)
      [] OTHER              -> Append(stack, part)

Parts(u) ==
    LET stack[i \in 0 .. Len(u)] == IF i = 0 THEN <<>> ELSE Part(stack[i - 1], u[i])
    IN  stack[Len(u)]

\* The parts of a path, with a slash at the end if the text has one there.
Closed(stack, slash) ==
    IF stack = <<>> THEN <<"">> ELSE IF slash THEN Append(stack, "") ELSE stack

\* Fault: the last part decides about the slash, dots included.
cleanPath_dotSlash(p) ==
    IF p = <<>> THEN <<"">>
    ELSE LET u == unescape(p) IN Closed(Parts(u), Last(u) \in {"", ".", ".."})

cleanPath(p) ==
    IF p = <<>> THEN <<"">>
    ELSE LET u == unescape(p) IN Closed(Parts(u), Last(u) = "")

-----------------------------------------------------------------------------
(* url.URL.ResolveReference, which works on the escaped path.              *)

Merged(stack, part) ==
    CASE part = "."  -> stack
      [] part = ".." -> IF stack = <<>> THEN <<>> ELSE Front(stack)
      [] OTHER       -> Append(stack, part)

Merge(full) ==
    LET stack[i \in 0 .. Len(full)] == IF i = 0 THEN <<>> ELSE Merged(stack[i - 1], full[i])
    IN  stack[Len(full)]

resolvePath(full) ==
    LET parts == Merge(full)
    IN  IF full = <<>> THEN <<>>
        ELSE IF Last(full) \in {".", ".."} THEN Append(parts, "") ELSE parts

\* The path a reference means on a page, before it is resolved.
Full(ref, base) ==
    IF ref.host # <<>> \/ ref.abs THEN ref.path
    ELSE IF ref.path = <<>> THEN base.path
    ELSE Front(base.path) \o ref.path

ResolveReference(base, ref) ==
    [scheme |-> IF ref.scheme = "" THEN base.scheme ELSE ref.scheme,
     host   |-> IF ref.host = <<>> THEN base.host ELSE ref.host,
     port   |-> IF ref.host = <<>> THEN base.port ELSE ref.port,
     path   |-> resolvePath(Full(ref, base))]

-----------------------------------------------------------------------------
(* normalizeURL                                                            *)

NoURL == [scheme |-> "", host |-> <<>>, port |-> "", path |-> <<>>]

DefaultPort == [http |-> "80", https |-> "443"]

\* What normalizeURL makes of an address that parsed; NoURL is an error.
Normal(u) ==
    LET scheme == IF u.scheme = "" THEN "https" ELSE u.scheme
    IN  IF u.host = <<>> THEN NoURL
        ELSE [scheme |-> scheme, host |-> u.host,
              port   |-> IF u.port = DefaultPort[scheme] THEN "" ELSE u.port,
              path   |-> cleanPath(u.path)]

\* The mapper: seeds have no base, links have the page they were found on.
normalizeSeed(text) == Normal(text)
normalizeLink(ref, page) == Normal(ResolveReference(page, ref))

\* The parser: URLs the mapper stored, and links to PDFs.  An href that is a
\* URL by itself is not resolved against the page.
normalizeTarget(url) == Normal(url)

\* Fault: relative links are resolved from the root of the site.
pdfLink_root(ref, page) ==
    LET alone == Normal(ref)
    IN  IF alone # NoURL THEN alone
        ELSE Normal(ResolveReference([page EXCEPT !.path = <<"">>], ref))

pdfLink(ref, page) ==
    LET alone == Normal(ref)
    IN  IF alone # NoURL THEN alone ELSE Normal(ResolveReference(page, ref))

\* simple_url of the monitor: what it enqueues has a scheme.
simple_url(text) == IF text.scheme = "" THEN [text EXCEPT !.scheme = "https"] ELSE text

-----------------------------------------------------------------------------
(* Domains.                                                                *)

domainForURL(u) == IF mode = "host" THEN u.host ELSE Registrable[u.host]
sameDomain(domain, u) == domainForURL(u) = domain

\* The parser knows no modes.
domainForPdf(u) == Registrable[u.host]

\* path.Ext of the last part.
isPDFURL(u) == Last(u.path) \in PdfNames
isSkippedAssetURL(u) == Last(u.path) \in AssetNames

\* Fault: the address is taken for a host as it is.
replayDomainKey_host(text) == text.host

\* mapper replay <domain-or-url>
replayDomainKey(text) == domainForURL(Normal(text))

\* What the monitor looks for first, the labels and what it left at the end.
normalize_domain_key(text) ==
    LET labels == IF Last(text.host) = "" THEN Front(text.host) ELSE text.host
    IN  IF text.scheme # "" \/ (text.port = "" /\ \A i \in DOMAIN text.path : text.path[i] = "")
          THEN [labels |-> labels, rest |-> <<>>]
          ELSE [labels |-> text.host, rest |-> <<text.port, text.path>>]

\* Fault: only what was asked for and the shortest candidate.
domain_candidates_ends(text) ==
    LET key == normalize_domain_key(text)
    IN  [i \in 1 .. 2 |-> IF i = 1 THEN key ELSE [key EXCEPT !.labels = <<Last(key.labels)>>]]

\* Then without leading labels, as long as two are left.
domain_candidates(text) ==
    LET key == normalize_domain_key(text)  n == Len(key.labels)
    IN  [i \in 1 .. (IF n > 2 THEN n - 1 ELSE 1) |->
            [key EXCEPT !.labels = SubSeq(key.labels, i, n)]]

\* The domain the monitor replays: the first candidate that has a row.
resolve_domain(text) ==
    LET known == [labels : {r.domain : r \in rows}, rest : {<<>>}]
        candidates == domain_candidates(text)
        found == {i \in DOMAIN candidates : candidates[i] \in known}
    IN  IF found = {} THEN <<>> ELSE candidates[Min(found)].labels

-----------------------------------------------------------------------------
(* Crawling and parsing.                                                   *)

Init == mode \in Modes /\ crawl = <<>> /\ rows = {} /\ docs = {}

HasRoom == Cardinality(rows) + Cardinality(docs) < MaxStored

\* Bound: what is stored next to another page has a short path.
Short(path) == Len(path) <= MaxSaid

Stored(url, said, linked) ==
    rows' = rows \cup {[url |-> url, domain |-> crawl', said |-> said, linked |-> linked]}

\* A crawl request from the monitor, or put on mapper:in by other means; the
\* seed is stored under the domain of its crawl.
Crawl(text, monitor) ==
    LET url == normalizeSeed(IF monitor THEN simple_url(text) ELSE text)
    IN  /\ \A r \in rows : Short(r.said) /\ Short(text.path)
        /\ url # NoURL
        /\ crawl' = domainForURL(url)
        /\ Stored(url, text.path, FALSE)
        /\ UNCHANGED <<mode, docs>>

\* A link on a page of the crawl.
Follow(r, ref) ==
    LET url == normalizeLink(ref, r.url)
    IN  /\ r.domain = crawl /\ Short(r.said)
        /\ sameDomain(crawl, url)
        /\ crawl' = crawl
        /\ Stored(url, Full(ref, r.url), TRUE)
        /\ UNCHANGED <<mode, docs>>

Document(url, hash, domain, from, other) ==
    /\ docs' = docs \cup {[url |-> url, hash |-> hash, domain |-> domain,
                           from |-> from, other |-> other]}
    /\ UNCHANGED <<mode, crawl, rows>>

\* Fault: the parser works the domain of a page out again.
Parse_ownDomain(r) ==
    LET url == normalizeTarget(r.url)
    IN  ~isSkippedAssetURL(url) /\ Document(url, url, domainForPdf(url), r, r.url)

\* processJob: a page is stored under the hash and the domain of its row, a PDF
\* under those of its URL.
Parse(r) ==
    LET url == normalizeTarget(r.url)
    IN  /\ ~isSkippedAssetURL(url)
        /\ IF isPDFURL(url)
             THEN Document(url, url, domainForPdf(url), r, r.url)
             ELSE Document(url, r.url, r.domain, r, r.url)

\* A path that ResolveReference leaves to cleanPath: it does not end in dots,
\* which would be closed with a slash, and what ".." takes back is neither empty
\* nor escaped.
ReadAlike(p) ==
    /\ p # <<>> => Last(p) \notin {".", ".."}
    /\ \A j \in DOMAIN p : p[j] = ".." => \A i \in 1 .. j - 1 : p[i] # "" /\ Decoded[p[i]] = <<p[i]>>

\* A PDF that is linked on a page.  (What the mapper makes of the link is kept
\* when the two of them can agree: see OneDocument.)
ParsePdf(r, ref) ==
    LET url   == pdfLink(ref, r.url)
        alike == \/ ref.host = <<>>
                 \/ ReadAlike(ref.path) /\ (ref.scheme # "" \/ r.url.scheme = "https")
    IN  /\ Short(r.said) /\ ~isSkippedAssetURL(r.url) /\ ~isPDFURL(r.url)
        /\ isPDFURL(url)
        /\ Document(url, url, domainForPdf(url), r, IF alike THEN normalizeLink(ref, r.url) ELSE url)

Next ==
    /\ HasRoom
    /\ \/ \E text \in Seeds, monitor \in BOOLEAN : Crawl(text, monitor)
       \/ \E r \in rows : Parse(r) \/ \E ref \in Links : Follow(r, ref) \/ ParsePdf(r, ref)

Spec == Init /\ [][Next]_vars

-----------------------------------------------------------------------------
(* Properties.                                                             *)

Dots(p, i, j)  == Cardinality({k \in i .. j : p[k] = ".."})
Names(p, i, j) == Cardinality({k \in i .. j : p[k] \notin {"", ".", ".."}})

\* The reference: a part counts unless a later ".." takes it back, as brackets
\* match.
Meant(p) ==
    LET u == unescape(p)
        kept == {i \in DOMAIN u : /\ u[i] \notin {"", ".", ".."}
                                  /\ \A j \in i + 1 .. Len(u) : Dots(u, i + 1, j) <= Names(u, i + 1, j)}
        parts == [k \in 1 .. Cardinality(kept) |->
                    u[CHOOSE i \in kept : Cardinality({j \in kept : j <= i}) = k]]
    IN  IF parts = <<>> THEN <<"">> ELSE IF Last(u) = "" THEN Append(parts, "") ELSE parts

\* One page has one URL: seeds and links that say the same path, in whatever
\* detours, are stored under the path that is meant.  Not so the links that
\* ResolveReference, which a seed does not go through (main.go:566), reads in
\* another way before cleanPath sees them: from /a//../b it takes the empty part
\* back and not the name, /a/%2E%2E/../b it leaves with the name, and /a/. gets a
\* slash at its end.  Such a page has a second URL when a seed says it.
PathsMeant == \A r \in rows : (r.linked => ReadAlike(r.said)) => r.url.path = Meant(r.said)

\* The parser normalizes what the mapper normalized, and finds it as it is: a
\* document has the URL of its row and the hash of that URL (parser main.go:146,
\* 153, 205), also after escapes were taken off.  A PDF that a page links to has
\* the URL the mapper has stored it under.  (The mapper resolves every link, the
\* parser those without a host, main.go:354: a link with a host has one URL for
\* both if its path is read alike, and if it has a scheme, which is https for the
\* parser and that of the page for the mapper.)
OneDocument == \A d \in docs : d.url = d.other /\ d.hash = d.url

\* lookupURLID finds the row of every document that was parsed from one, except
\* for PDFs when the mapper keeps hosts apart and the parser does not (parser
\* main.go:404).
DocumentHasRow ==
    \A d \in docs :
        d.url = d.from.url /\ ~(isPDFURL(d.url) /\ mode = "host") => d.domain = d.from.domain

\* However an operator writes the host of a stored page, with a port or a path
\* or without a scheme, `mapper replay` finds its domain.
CommandFinds ==
    \A r \in rows, text \in Targets : text.host = r.url.host => replayDomainKey(text) = r.domain

\* The monitor finds it, too, from a URL and from a bare host, unless the host
\* ends in a dot, which it strips (services.py:125).
MonitorFinds ==
    \A r \in rows, text \in Targets :
        (/\ text.host = r.url.host /\ Last(text.host) # ""
         /\ text.scheme # "" \/ normalize_domain_key(text).rest = <<>>)
        => resolve_domain(text) = r.domain
=============================================================================
