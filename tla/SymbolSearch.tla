---------------------------- MODULE SymbolSearch ----------------------------
(***************************************************************************)
(* DB.symbolSearch, src/internal/postgres/symbolsearch.go: the user's      *)
(* query is turned into an OR of its terms (strings.Split on " ",          *)
(* strings.Join with " | "), given to to_tsquery through RunQuery, whose   *)
(* collect callback appends one SearchResult per row; on an error the      *)
(* results are dropped, and the total of every result is clamped to       *)
(* maxResultCount when the first one exceeds it.                           *)
(*                                                                         *)
(* Strings are sequences of characters.  to_tsquery is modelled by what it *)
(* does to the joined string: it splits it into words and "|" operators    *)
(* (white space separates them) and accepts an empty query or words        *)
(* separated by single operators; anything else is a syntax error, which   *)
(* RunQuery returns.  The database is abstracted to the number Total of    *)
(* rows the inner query matches: the outer query returns the ones LIMIT    *)
(* and OFFSET select, each with total = the window count Total.         *)
(***************************************************************************)
EXTENDS Naturals, Sequences

CONSTANTS
  Letters,       \* the characters of a term (no space, no "|")
  MaxQueryLen,   \* the longest query
  MaxTotal,      \* the most rows a query may match
  Limits,        \* the limit arguments
  Offsets,       \* the offset arguments
  MaxCounts      \* the maxResultCount arguments

ASSUME LettersAssumption == " " \notin Letters /\ "|" \notin Letters

ASSUME SymbolSearchAssumption ==
  /\ MaxQueryLen \in Nat /\ MaxTotal \in Nat
  /\ Limits \subseteq Nat /\ Offsets \subseteq Nat /\ MaxCounts \subseteq Nat

Queries == UNION {[1 .. n -> Letters \cup {" "}] : n \in 0 .. MaxQueryLen}

\* strings.Split(q, " "): the pieces between the spaces, empty ones included.
Split(q) ==
  LET f[i \in 0 .. Len(q)] ==
        IF i = 0 THEN <<<<>>>>
        ELSE IF q[i] = " " THEN Append(f[i - 1], <<>>)
        ELSE [f[i - 1] EXCEPT ![Len(f[i - 1])] = Append(@, q[i])]
  IN f[Len(q)]

\* strings.Join(parts, " | ").
Join(parts) ==
  LET f[i \in 1 .. Len(parts)] ==
        IF i = 1 THEN parts[1] ELSE f[i - 1] \o <<" ", "|", " ">> \o parts[i]
  IN f[Len(parts)]

\* The tsquery lexer: the words and operators of a string, in order.
Tokens(s) ==
  LET f[i \in 0 .. Len(s)] ==
        IF i = 0 THEN <<>>
        ELSE IF s[i] = " " THEN f[i - 1]
        ELSE IF s[i] = "|" THEN Append(f[i - 1], "|")
        ELSE IF i > 1 /\ s[i - 1] \in Letters
             THEN [f[i - 1] EXCEPT ![Len(f[i - 1])] = Append(@, s[i])]
        ELSE Append(f[i - 1], <<s[i]>>)
  IN f[Len(s)]

\* to_tsquery accepts "" or word (| word)*.
WellFormed(toks) ==
  \/ toks = <<>>
  \/ /\ Len(toks) % 2 = 1
     /\ \A i \in 1 .. Len(toks) : (toks[i] = "|") <=> (i % 2 = 0)

\* The words of a string.
Words(s) == {t \in {Tokens(s)[i] : i \in 1 .. Len(Tokens(s))} : t # "|"}

VARIABLES
  q, limit, offset, maxResultCount,   \* the arguments
  total,     \* the rows the inner query matches (the database)
  phase,     \* where symbolSearch is
  tsquery,   \* the string handed to RunQuery as $1
  rows,      \* the rows RunQuery has still to hand to collect
  results,   \* the results slice
  err        \* the error RunQuery returned, or "none"

vars == <<q, limit, offset, maxResultCount, total, phase, tsquery, rows,
          results, err>>

\* A SearchResult, abstracted to its place in the result set and NumResults.
Row == [id : Nat, NumResults : Nat]

\* The rows of the outer query after LIMIT $2 OFFSET $3.
Page(n, l, o) == [i \in 1 .. (IF n > o THEN IF n - o < l THEN n - o ELSE l ELSE 0) |->
                   [id |-> o + i, NumResults |-> n]]

Init ==
  /\ q \in Queries /\ limit \in Limits /\ offset \in Offsets
  /\ maxResultCount \in MaxCounts /\ total \in 0 .. MaxTotal
  /\ phase = "join" /\ tsquery = <<>> /\ rows = <<>> /\ results = <<>>
  /\ err = "none"

\* q = strings.Join(strings.Split(q, " "), " | ")
JoinTerms ==
  /\ phase = "join"
  /\ tsquery' = Join(Split(q))
  /\ phase' = "run"
  /\ UNCHANGED <<q, limit, offset, maxResultCount, total, rows, results, err>>

\* db.db.RunQuery(ctx, query, collect, q, limit, offset): the query fails
\* when to_tsquery rejects $1 or the database does; otherwise its rows are
\* handed to collect one by one.
RunQuery ==
  /\ phase = "run"
  /\ \/ /\ WellFormed(Tokens(tsquery))
        /\ rows' = Page(total, limit, offset)
        /\ phase' = "collect"
        /\ UNCHANGED err
     \/ /\ ~WellFormed(Tokens(tsquery))
        /\ err' = "syntax"
        /\ phase' = "check"
        /\ UNCHANGED rows
     \/ /\ err' = "db"
        /\ phase' = "check"
        /\ UNCHANGED rows
  /\ UNCHANGED <<q, limit, offset, maxResultCount, total, tsquery, results>>

\* collect: rows.Scan into a fresh SearchResult and append it; a failing
\* Scan stops the iteration and RunQuery returns its error.
Collect ==
  /\ phase = "collect"
  /\ \/ /\ rows # <<>>
        /\ results' = Append(results, Head(rows))
        /\ rows' = Tail(rows)
        /\ UNCHANGED <<phase, err>>
     \/ /\ rows # <<>>
        /\ err' = "scan"
        /\ phase' = "check"
        /\ UNCHANGED <<rows, results>>
     \/ /\ rows = <<>>
        /\ phase' = "check"
        /\ UNCHANGED <<rows, results, err>>
  /\ UNCHANGED <<q, limit, offset, maxResultCount, total, tsquery>>

\* if len(results) > 0 && results[0].NumResults > uint64(maxResultCount):
\* every NumResults becomes maxResultCount.
Clamp(rs, m) ==
  IF Len(rs) > 0 /\ rs[1].NumResults > m
  THEN [i \in 1 .. Len(rs) |-> [rs[i] EXCEPT !.NumResults = m]] ELSE rs

\* Mutant: the partial results are kept when RunQuery fails.
DropOnErrorKept(rs, e) == rs

\* if err != nil { results = nil }
DropOnError(rs, e) == IF e # "none" THEN <<>> ELSE rs

\* The rest of symbolSearch after RunQuery, up to the searchResponse.
Finish ==
  /\ phase = "check"
  /\ results' = Clamp(DropOnError(results, err), maxResultCount)
  /\ phase' = "done"
  /\ UNCHANGED <<q, limit, offset, maxResultCount, total, tsquery, rows, err>>

Next == JoinTerms \/ RunQuery \/ Collect \/ Finish

Spec == Init /\ [][Next]_vars

-----------------------------------------------------------------------------
(* Type invariant. *)
TypeOK ==
  /\ q \in Queries /\ limit \in Limits /\ offset \in Offsets
  /\ maxResultCount \in MaxCounts /\ total \in 0 .. MaxTotal
  /\ phase \in {"join", "run", "collect", "check", "done"}
  /\ tsquery \in Seq(Letters \cup {" ", "|"})
  /\ rows \in Seq(Row) /\ results \in Seq(Row)
  /\ err \in {"none", "syntax", "db", "scan"}

(* The searchResponse symbolSearch returns: with an error it has no       *)
(* results, not the ones collect appended before the failing row; without *)
(* one it has exactly the page LIMIT and OFFSET select, in order, each    *)
(* result reporting the matching total capped at maxResultCount.          *)
ResponseIsPage ==
  phase = "done" =>
    IF err # "none" THEN results = <<>>
    ELSE /\ Len(results) = Len(Page(total, limit, offset))
         /\ \A i \in 1 .. Len(results) :
              /\ results[i].id = Page(total, limit, offset)[i].id
              /\ results[i].NumResults =
                   IF total > maxResultCount THEN maxResultCount ELSE total

(* "Search for an OR of the terms" (the comment on the Join): the          *)
(* tsquery built from any query is accepted by to_tsquery and has exactly *)
(* the query's words as its operands.                                     *)
QueryIsOrOfTerms ==
  phase # "join" =>
    /\ WellFormed(Tokens(tsquery))
    /\ Words(tsquery) = Words(q)
=============================================================================
