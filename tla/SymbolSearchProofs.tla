------------------------- MODULE SymbolSearchProofs -------------------------
(***************************************************************************)
(* Proof that symbolSearch returns either an error with no results or      *)
(* exactly the LIMIT/OFFSET page with clamped totals, for every query,     *)
(* total, limit, offset and maxResultCount.  ResponseIsPage alone speaks  *)
(* only of the final state; the inductive invariant PageInv says what the *)
(* results and the rows still to collect are in every phase: during       *)
(* collect, results is a prefix of the page and rows the rest of it.  The *)
(* tsquery is not constrained: whether to_tsquery accepts it only chooses *)
(* between RunQuery's branches, and each branch keeps PageInv.            *)
(***************************************************************************)
EXTENDS SymbolSearch, SequenceTheorems, TLAPS

\* The page the outer query returns for the current arguments.
P == Page(total, limit, offset)

\* Its length.
PageLen(n, l, o) == IF n > o THEN IF n - o < l THEN n - o ELSE l ELSE 0

ArgsOK ==
  /\ limit \in Limits /\ offset \in Offsets
  /\ maxResultCount \in MaxCounts /\ total \in 0 .. MaxTotal
  /\ rows \in Seq(Row) /\ results \in Seq(Row)
  /\ phase \in {"join", "run", "collect", "check", "done"}
  /\ err \in {"none", "syntax", "db", "scan"}

\* results is P[1..k] and rows is P[k+1..] in the collect phase.
CollectedPrefix ==
  /\ Len(results) + Len(rows) = Len(P)
  /\ \A i \in 1 .. Len(results) : results[i] = P[i]
  /\ \A j \in 1 .. Len(rows) : rows[j] = P[Len(results) + j]

PageInv ==
  /\ ArgsOK
  /\ phase \in {"join", "run"} => results = <<>> /\ err = "none"
  /\ phase = "collect" => err = "none" /\ CollectedPrefix
  /\ phase = "check" /\ err = "none" => results = P
  /\ phase = "done" =>
       results = IF err # "none" THEN <<>> ELSE Clamp(P, maxResultCount)

\* The page is a sequence of PageLen rows, the i-th numbered offset + i,
\* each carrying the total.
LEMMA PageFacts ==
  ASSUME NEW n \in Nat, NEW l \in Nat, NEW o \in Nat
  PROVE  /\ PageLen(n, l, o) \in Nat
         /\ Page(n, l, o) \in Seq(Row)
         /\ Len(Page(n, l, o)) = PageLen(n, l, o)
         /\ \A i \in 1 .. PageLen(n, l, o) :
              Page(n, l, o)[i] = [id |-> o + i, NumResults |-> n]
<1>1. PageLen(n, l, o) \in Nat
  BY DEF PageLen
<1>2. Page(n, l, o) = [i \in 1 .. PageLen(n, l, o) |-> [id |-> o + i, NumResults |-> n]]
  BY DEF Page, PageLen
<1>3. \A i \in 1 .. PageLen(n, l, o) : [id |-> o + i, NumResults |-> n] \in Row
  BY DEF Row
<1>4. Page(n, l, o) \in Seq(Row)
  BY <1>1, <1>2, <1>3, IsASeq
<1> QED BY <1>1, <1>2, <1>4

\* The clamped page in closed form: the page's ids, each total capped at m.
ClampedPage(n, l, o, m) ==
  [i \in 1 .. PageLen(n, l, o) |-> [id |-> o + i, NumResults |-> IF n > m THEN m ELSE n]]

LEMMA ClampPage ==
  ASSUME NEW n \in Nat, NEW l \in Nat, NEW o \in Nat, NEW m \in Nat
  PROVE  Clamp(Page(n, l, o), m) = ClampedPage(n, l, o, m)
<1> DEFINE k == PageLen(n, l, o)
           pg == Page(n, l, o)
<1> SUFFICES Clamp(pg, m) = [i \in 1 .. k |-> [id |-> o + i, NumResults |-> IF n > m THEN m ELSE n]]
  BY DEF ClampedPage
<1>1. /\ k \in Nat /\ Len(pg) = k
      /\ pg = [i \in 1 .. k |-> [id |-> o + i, NumResults |-> n]]
  BY PageFacts DEF Page, PageLen
<1>2. CASE k > 0 /\ n > m
  <2>1. Clamp(pg, m) = [i \in 1 .. k |-> [pg[i] EXCEPT !.NumResults = m]]
    BY <1>1, <1>2 DEF Clamp
  <2>2. \A i \in 1 .. k : [pg[i] EXCEPT !.NumResults = m] = [id |-> o + i, NumResults |-> m]
    BY <1>1
  <2> QED BY <1>2, <2>1, <2>2
<1>3. CASE k > 0 /\ ~(n > m)
  <2>1. Clamp(pg, m) = pg
    BY <1>1, <1>3 DEF Clamp
  <2> QED BY <1>1, <1>3, <2>1
<1>4. CASE k = 0
  <2>1. Clamp(pg, m) = pg
    BY <1>1, <1>4 DEF Clamp
  <2> QED BY <1>1, <1>4, <2>1
<1> QED BY <1>1, <1>2, <1>3, <1>4

LEMMA ArgsNat ==
  ASSUME ArgsOK
  PROVE  total \in Nat /\ limit \in Nat /\ offset \in Nat /\ maxResultCount \in Nat
BY SymbolSearchAssumption DEF ArgsOK

LEMMA PageInvInit == Init => PageInv
<1> SUFFICES ASSUME Init PROVE PageInv
  OBVIOUS
<1>1. ArgsOK
  BY EmptySeq DEF Init, ArgsOK
<1> QED BY <1>1 DEF Init, PageInv

\* PageFacts for the current total, limit and offset.
LEMMA PageFactsNow ==
  ASSUME total \in Nat, limit \in Nat, offset \in Nat
  PROVE  /\ PageLen(total, limit, offset) \in Nat
         /\ Page(total, limit, offset) \in Seq(Row)
         /\ Len(Page(total, limit, offset)) = PageLen(total, limit, offset)
         /\ \A i \in 1 .. PageLen(total, limit, offset) :
              Page(total, limit, offset)[i] = [id |-> offset + i, NumResults |-> total]
<1>1. PageLen(total, limit, offset) \in Nat
  BY DEF PageLen
<1>2. Page(total, limit, offset) =
        [i \in 1 .. PageLen(total, limit, offset) |-> [id |-> offset + i, NumResults |-> total]]
  BY DEF Page, PageLen
<1>3. \A i \in 1 .. PageLen(total, limit, offset) :
        [id |-> offset + i, NumResults |-> total] \in Row
  BY DEF Row
<1>4. Page(total, limit, offset) \in Seq(Row)
  BY <1>1, <1>2, <1>3, IsASeq
<1> QED BY <1>1, <1>2, <1>4

LEMMA PageInvNext == PageInv /\ [Next]_vars => PageInv'
<1> SUFFICES ASSUME PageInv, [Next]_vars PROVE PageInv'
  OBVIOUS
<1>a. total \in Nat /\ limit \in Nat /\ offset \in Nat /\ maxResultCount \in Nat
  BY ArgsNat DEF PageInv
<1>b. /\ PageLen(total, limit, offset) \in Nat
      /\ Page(total, limit, offset) \in Seq(Row)
      /\ Len(Page(total, limit, offset)) = PageLen(total, limit, offset)
      /\ \A i \in 1 .. PageLen(total, limit, offset) :
           Page(total, limit, offset)[i] = [id |-> offset + i, NumResults |-> total]
  BY <1>a, PageFactsNow
<1>0. /\ total \in Nat /\ limit \in Nat /\ offset \in Nat /\ maxResultCount \in Nat
      /\ P \in Seq(Row) /\ Len(P) = PageLen(total, limit, offset)
      /\ \A i \in 1 .. Len(P) : P[i] = [id |-> offset + i, NumResults |-> total]
  BY <1>a, <1>b DEF P
<1>1. CASE UNCHANGED vars
  BY <1>1 DEF vars, PageInv, ArgsOK, CollectedPrefix, P
<1>2. CASE JoinTerms
  BY <1>2 DEF JoinTerms, PageInv, ArgsOK, P
<1>3. CASE RunQuery
  <2>1. phase = "run" /\ results = <<>> /\ err = "none"
    BY <1>3 DEF RunQuery, PageInv
  <2>2. P' = P
    BY <1>3 DEF RunQuery, P
  <2>3. CASE rows' = Page(total, limit, offset) /\ phase' = "collect" /\ UNCHANGED err
    <3>1. CollectedPrefix'
      BY <1>0, <2>1, <2>2, <2>3, <1>3 DEF RunQuery, CollectedPrefix, P
    <3>2. ArgsOK'
      BY <1>0, <2>3, <1>3 DEF RunQuery, PageInv, ArgsOK, P
    <3> QED BY <2>1, <2>3, <3>1, <3>2, <1>3 DEF RunQuery, PageInv
  <2>4. CASE err' \in {"syntax", "db"} /\ phase' = "check" /\ UNCHANGED rows
    BY <2>1, <2>4, <1>3 DEF RunQuery, PageInv, ArgsOK
  <2> QED BY <1>3, <2>3, <2>4 DEF RunQuery
<1>4. CASE Collect
  <2>1. phase = "collect" /\ err = "none" /\ CollectedPrefix
    BY <1>4 DEF Collect, PageInv
  <2>2. P' = P
    BY <1>4 DEF Collect, P
  <2>3. CASE rows # <<>> /\ results' = Append(results, Head(rows)) /\ rows' = Tail(rows)
             /\ UNCHANGED <<phase, err>>
    <3>1. Head(rows) \in Row /\ Tail(rows) \in Seq(Row) /\ Len(Tail(rows)) = Len(rows) - 1
          /\ \A i \in 1 .. Len(Tail(rows)) : Tail(rows)[i] = rows[i + 1]
          /\ Head(rows) = rows[1]
      BY <2>3, HeadTailProperties DEF PageInv, ArgsOK
    <3>2. /\ Append(results, Head(rows)) \in Seq(Row)
          /\ Len(Append(results, Head(rows))) = Len(results) + 1
          /\ \A i \in 1 .. Len(results) : Append(results, Head(rows))[i] = results[i]
          /\ Append(results, Head(rows))[Len(results) + 1] = Head(rows)
      BY <3>1, AppendProperties DEF PageInv, ArgsOK
    <3>3. Len(rows) \in Nat /\ Len(results) \in Nat /\ Len(rows) # 0
      BY <2>3, LenProperties, EmptySeq DEF PageInv, ArgsOK
    <3>4. CollectedPrefix'
      <4>1. Len(results') + Len(rows') = Len(P')
        BY <2>1, <2>2, <2>3, <3>1, <3>2, <3>3 DEF CollectedPrefix
      <4>2. \A i \in 1 .. Len(results') : results'[i] = P'[i]
        BY <2>1, <2>2, <2>3, <3>1, <3>2, <3>3 DEF CollectedPrefix
      <4>3. \A j \in 1 .. Len(rows') : rows'[j] = P'[Len(results') + j]
        BY <2>1, <2>2, <2>3, <3>1, <3>2, <3>3 DEF CollectedPrefix
      <4> QED BY <4>1, <4>2, <4>3 DEF CollectedPrefix
    <3>5. ArgsOK'
      BY <1>4, <2>3, <3>1, <3>2 DEF Collect, PageInv, ArgsOK
    <3> QED BY <2>1, <2>3, <3>4, <3>5 DEF PageInv
  <2>4. CASE rows # <<>> /\ err' = "scan" /\ phase' = "check" /\ UNCHANGED <<rows, results>>
    BY <1>4, <2>4 DEF Collect, PageInv, ArgsOK
  <2>5. CASE rows = <<>> /\ phase' = "check" /\ UNCHANGED <<rows, results, err>>
    <3>1. Len(rows) = 0 /\ Len(results) = Len(P)
      BY <2>1, <2>5 DEF CollectedPrefix
    <3>2. results = P
      BY <1>0, <2>1, <3>1, SeqEqual DEF CollectedPrefix, PageInv, ArgsOK
    <3>3. ArgsOK'
      BY <1>4, <2>5 DEF Collect, PageInv, ArgsOK
    <3> QED BY <2>2, <2>5, <3>2, <3>3 DEF PageInv
  <2> QED BY <1>4, <2>3, <2>4, <2>5 DEF Collect
<1>5. CASE Finish
  <2>1. phase = "check" /\ phase' = "done" /\ UNCHANGED <<err, maxResultCount>>
    BY <1>5 DEF Finish
  <2>2. P' = P
    BY <1>5 DEF Finish, P
  <2>3. results' = IF err' # "none" THEN <<>> ELSE Clamp(P', maxResultCount')
    BY <1>5, <2>1, <2>2, SMTT(30) DEF Finish, PageInv, DropOnError, Clamp
  <2>4. results' \in Seq(Row)
    <3>1. CASE err # "none"
      BY <2>1, <2>3, <3>1, EmptySeq
    <3>2. CASE err = "none"
      <4>1. Clamp(P, maxResultCount) \in Seq(Row)
        <5>1. \A i \in 1 .. PageLen(total, limit, offset) :
                [id |-> offset + i, NumResults |-> IF total > maxResultCount THEN maxResultCount ELSE total] \in Row
          BY <1>0 DEF Row
        <5>2. PageLen(total, limit, offset) \in Nat
          BY <1>0, PageFacts
        <5>3. Clamp(P, maxResultCount) = ClampedPage(total, limit, offset, maxResultCount)
          BY <1>0, ClampPage DEF P
        <5>4. ClampedPage(total, limit, offset, maxResultCount) \in [1 .. PageLen(total, limit, offset) -> Row]
          BY <5>1 DEF ClampedPage
        <5> QED BY <5>2, <5>3, <5>4
      <4> QED BY <2>1, <2>2, <2>3, <3>2, <4>1
    <3> QED BY <3>1, <3>2
  <2>5. ArgsOK'
    BY <1>5, <2>1, <2>4 DEF Finish, PageInv, ArgsOK
  <2> QED BY <2>1, <2>3, <2>5 DEF PageInv
<1>6. QED BY <1>1, <1>2, <1>3, <1>4, <1>5 DEF Next

\* PageInv gives ResponseIsPage: the clamped page has the page's ids and
\* every total is min(total, maxResultCount).
LEMMA PageInvResponse == PageInv => ResponseIsPage
<1> SUFFICES ASSUME PageInv, phase = "done" PROVE ResponseIsPage
  BY DEF ResponseIsPage
<1>a. total \in Nat /\ limit \in Nat /\ offset \in Nat /\ maxResultCount \in Nat
  BY ArgsNat DEF PageInv
<1> DEFINE k == PageLen(total, limit, offset)
           cap == IF total > maxResultCount THEN maxResultCount ELSE total
<1>0. /\ k \in Nat /\ Len(P) = k
      /\ \A i \in 1 .. k : P[i] = [id |-> offset + i, NumResults |-> total]
  <2>1. /\ PageLen(total, limit, offset) \in Nat
        /\ Page(total, limit, offset) \in Seq(Row)
        /\ Len(Page(total, limit, offset)) = PageLen(total, limit, offset)
        /\ \A i \in 1 .. PageLen(total, limit, offset) :
             Page(total, limit, offset)[i] = [id |-> offset + i, NumResults |-> total]
    BY <1>a, PageFactsNow
  <2> QED BY <2>1, Zenon DEF P, k
<1>1. CASE err # "none"
  BY <1>1 DEF PageInv, ResponseIsPage
<1>2. CASE err = "none"
  <2>0. results = Clamp(P, maxResultCount)
    BY <1>2 DEF PageInv
  <2>a. results = ClampedPage(total, limit, offset, maxResultCount)
    BY <1>a, <2>0, ClampPage DEF P
  <2>1. results = [i \in 1 .. k |-> [id |-> offset + i, NumResults |-> cap]]
    BY <2>a DEF ClampedPage, k, cap
  <2>2. Len(results) = Len(Page(total, limit, offset))
    BY <1>0, <2>1 DEF P
  <2>3. \A i \in 1 .. Len(results) :
          /\ results[i].id = Page(total, limit, offset)[i].id
          /\ results[i].NumResults = cap
    BY <1>0, <2>1 DEF P
  <2> QED BY <1>2, <2>2, <2>3 DEF ResponseIsPage
<1> QED BY <1>1, <1>2

(* For every query, matching total, limit, offset and maxResultCount,     *)
(* and every failure of to_tsquery, the database or a Scan, the response *)
(* of symbolSearch has no results after an error and otherwise exactly   *)
(* the LIMIT/OFFSET page with clamped totals (the error drop and the     *)
(* clamp of symbolsearch.go:182-189).                                    *)
THEOREM ResponseIsPageTheorem == Spec => []ResponseIsPage
<1> QED BY PageInvInit, PageInvNext, PageInvResponse, PTL DEF Spec
=============================================================================
