---- MODULE ScripMaster ----
(***************************************************************************)
(* The instrument list of core/feeds/dhan_instruments.py: how it is        *)
(* loaded, searched, and turned into one contract per configured symbol.   *)
(*                                                                         *)
(* A row of the list is a record: its id, the underlying its symbol is     *)
(* made of, its type and its expiry day (NoExpiry for shares).  What text  *)
(* matching decides is kept as relations: an underlying equals the query,  *)
(* or starts with it (Longer: a "GOLD" query also meets "GOLDM"), or has   *)
(* it further inside (Within).                                             *)
(* The exchange segment is left out: a query names its segment, and the    *)
(* rows of the model are those of that segment.  A stale cached copy holds *)
(* the published list: nothing here depends on when a list was published.  *)
(***************************************************************************)
EXTENDS Naturals, Sequences, FiniteSets, ListFilter

CONSTANTS
    Equities,       \* the configured shares
    Futures,        \* the configured currency pairs and commodities
    Static,         \* the shares EQUITY_INSTRUMENTS has an id for
    Longer,         \* query -> the other underlyings that start with it
    Within,         \* query -> the underlyings that have it further inside
    Listings,       \* the lists the broker may publish, as sequences of rows
    Today,          \* the day the list is parsed
    SearchLimit     \* the hits a search returns at most

VARIABLES
    master,         \* the loader: "loading", then "loaded" or "failed"
    file,           \* the cached copy: "none", "stale" or "fresh"
    listing,        \* the list that is published (and cached)
    instruments     \* the parsed list, best matches first

masterVars == <<master, file, listing, instruments>>

ASSUME ListingAssumption ==
    \A rows \in Listings :
        /\ rows \in Seq({rows[i] : i \in DOMAIN rows})
        /\ \A i \in DOMAIN rows : rows[i].type \in {"EQ", "FUT", "OPT"} /\ rows[i].expiry \in Nat

NoExpiry == 0

Type == {"EQ", "FUT", "OPT"}

Rank(row) == CASE row.type = "EQ" -> 0 [] row.type = "FUT" -> 1 [] row.type = "OPT" -> 2

\* The sort key of _parse: shares, then futures, then options, nearest expiry first.
Before(r1, r2) ==
    \/ Rank(r1) < Rank(r2)
    \/ Rank(r1) = Rank(r2) /\ r1.expiry < r2.expiry

Expired(row) == row.expiry # NoExpiry /\ row.expiry < Today

RowsOf(seq) == {seq[i] : i \in DOMAIN seq}

\* row goes behind the rows that are not after it, as in a stable sort.
Inserted(seq, row) ==
    Kept(seq, {r \in RowsOf(seq) : ~Before(row, r)})
        \o <<row>> \o Kept(seq, {r \in RowsOf(seq) : Before(row, r)})

\* A fault: the list is left in the order it was published in.
Parse_Unsorted(rows) == Kept(rows, {r \in RowsOf(rows) : ~Expired(r)})

\* Without what has expired, and sorted.
Parse(rows) ==
    LET parsed[k \in 0 .. Len(rows)] ==
            IF k = 0 THEN <<>>
            ELSE IF Expired(rows[k]) THEN parsed[k - 1] ELSE Inserted(parsed[k - 1], rows[k])
    IN  parsed[Len(rows)]

\* seq[:n]
Cut(seq, n) == SubSeq(seq, 1, IF Len(seq) < n THEN Len(seq) ELSE n)

\* The scan stops once it met more than three times the limit; then exact matches first, those
\* that start with the query, those that contain it, cut at the limit.
Search(query) ==
    LET Of(names) == {r \in RowsOf(instruments) : r.underlying \in names}
        met == Cut(Kept(instruments, Of({query} \cup Longer[query] \cup Within[query])),
                   3 * SearchLimit + 1)
    IN  Cut(Kept(met, Of({query})) \o Kept(met, Of(Longer[query])) \o Kept(met, Of(Within[query])),
            SearchLimit)

Nearest(rows) == CHOOSE r \in rows : \A o \in rows : r.expiry <= o.expiry

\* The futures of a search: any with an expiry, even one of another underlying.
FutureHits(sym) == {r \in RowsOf(Search(sym)) : r.type = "FUT" /\ r.expiry # NoExpiry}

ShareHits(sym) == {r \in RowsOf(Search(sym)) : r.type = "EQ" /\ r.underlying = sym}

StaticRow(sym) == [id |-> sym, underlying |-> sym, type |-> "EQ", expiry |-> NoExpiry]

\* _raw_currency_search and _raw_commodity_search: the published list is downloaded
\* again and scanned; no search limit, longer underlyings match as well.
RawHits(sym) ==
    {r \in RowsOf(listing) :
        /\ r.underlying \in {sym} \cup Longer[sym]
        /\ r.type = "FUT" /\ r.expiry # NoExpiry
        /\ ~Expired(r)}

\* build_instrument_map: symbol -> row, without the symbols nothing is found for.
\* reached says for which futures the download of the raw search succeeds.
InstrumentMap(reached) ==
    LET loaded == master = "loaded"
        shares == {s \in Equities : s \in Static \/ (loaded /\ ShareHits(s) # {})}
        hits == [s \in Futures |->
                    IF loaded THEN FutureHits(s)
                    ELSE IF s \in reached THEN RawHits(s) ELSE {}]
        futures == {s \in Futures : hits[s] # {}}
    IN [s \in shares \cup futures |->
            IF s \in futures THEN Nearest(hits[s])
            ELSE IF loaded /\ ShareHits(s) # {} THEN CHOOSE r \in ShareHits(s) : TRUE
            ELSE StaticRow(s)]

----------------------------------------------------------------------------
\* ScripMaster.load in a thread of the pool: the cached copy while it is fresh, else a
\* download, else the stale copy, else nothing.
Load ==
    /\ master = "loading"
    /\ \E downloaded \in BOOLEAN, parses \in BOOLEAN :
        /\ file' = IF file # "fresh" /\ downloaded THEN "fresh" ELSE file
        /\ IF parses /\ (downloaded \/ file # "none")
           THEN master' = "loaded" /\ instruments' = Parse(listing)
           ELSE master' = "failed" /\ UNCHANGED instruments
    /\ UNCHANGED listing

MasterInit ==
    /\ master = "loading"
    /\ file \in {"none", "stale", "fresh"}
    /\ listing \in Listings
    /\ instruments = <<>>

MasterTypeOK ==
    /\ master \in {"loading", "loaded", "failed"}
    /\ file \in {"none", "stale", "fresh"}
    /\ listing \in Listings
    /\ RowsOf(instruments) \subseteq RowsOf(listing)
============================================================================
