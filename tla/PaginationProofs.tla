-------------------------- MODULE PaginationProofs --------------------------
(***************************************************************************)
(* What holds of Pagination for every page size and any number of rows.    *)
(***************************************************************************)
EXTENDS Pagination, SequenceTheorems, TLAPS

LEMMA OffsetTypes ==
    ASSUME NEW p \in Nat \ {0}
    PROVE  /\ Offset(p) \in Nat
           /\ Offset(p + 1) = Offset(p) + ServedSize
  BY SizeAssumption DEF Offset

LEMMA PageContents ==
    ASSUME TypeOK, NEW p \in Nat \ {0}
    PROVE  /\ PageOf(p) \in Seq(1..MaxRows)
           /\ Len(PageOf(p)) <= ServedSize
           /\ \A i \in 1..Len(PageOf(p)) :
                 /\ Offset(p) + i <= Len(rows)
                 /\ PageOf(p)[i] = rows[Offset(p) + i]
           /\ \A i \in Offset(p) + 1 .. Len(rows) :
                 IF i <= Offset(p + 1) THEN i - Offset(p) \in 1..Len(PageOf(p))
                 ELSE Len(PageOf(p)) = ServedSize
<1> DEFINE last == IF Offset(p + 1) <= Len(rows) THEN Offset(p + 1) ELSE Len(rows)
<1>1. /\ Offset(p) \in Nat
      /\ Offset(p + 1) = Offset(p) + ServedSize
      /\ rows \in Seq(1..MaxRows)
      /\ Len(rows) \in Nat
      /\ ServedSize \in Nat
  <2>1. Offset(p) \in Nat /\ Offset(p + 1) = Offset(p) + ServedSize
    BY OffsetTypes
  <2>2. rows \in Seq(1..MaxRows)
    BY DEF TypeOK
  <2>3. Len(rows) \in Nat
    BY <2>2, LenProperties
  <2> QED
    BY <2>1, <2>2, <2>3, SizeAssumption
<1>2. /\ last \in Nat
      /\ last <= Len(rows)
      /\ last <= Offset(p) + ServedSize
      /\ last = Len(rows) \/ last = Offset(p) + ServedSize
  BY <1>1
<1>3. PageOf(p) = SubSeq(rows, Offset(p) + 1, last)
  BY DEF PageOf
<1> HIDE DEF last
<1>4. \A i \in Offset(p) + 1 .. last : rows[i] \in 1..MaxRows
  <2> TAKE i \in Offset(p) + 1 .. last
  <2>1. i \in 1..Len(rows)
    BY <1>1, <1>2
  <2> QED
    BY <1>1, <2>1, ElementOfSeq
<1>5. CASE Offset(p) + 1 <= last
  <2>1. /\ PageOf(p) \in Seq(1..MaxRows)
        /\ Len(PageOf(p)) = last - Offset(p)
        /\ \A i \in 1..last - Offset(p) : PageOf(p)[i] = rows[Offset(p) + i]
    <3>1. /\ Offset(p) + 1 \in Int
          /\ last \in Int
          /\ last - (Offset(p) + 1) + 1 = last - Offset(p)
      BY <1>1, <1>2
    <3>2. /\ SubSeq(rows, Offset(p) + 1, last) \in Seq(1..MaxRows)
          /\ Len(SubSeq(rows, Offset(p) + 1, last)) = last - Offset(p)
          /\ \A i \in 1..last - Offset(p) :
                SubSeq(rows, Offset(p) + 1, last)[i] = rows[Offset(p) + 1 + i - 1]
      BY <1>4, <1>5, <3>1, SubSeqProperties
    <3>3. \A i \in 1..last - Offset(p) : Offset(p) + 1 + i - 1 = Offset(p) + i
      BY <1>1, <1>2
    <3> QED
      BY <1>3, <3>2, <3>3
  <2> QED
    BY <1>1, <1>2, <2>1
<1>6. CASE ~(Offset(p) + 1 <= last)
  <2>1. PageOf(p) = << >>
    BY <1>1, <1>2, <1>3, <1>6
  <2>2. Len(rows) < Offset(p) + 1
    BY <1>1, <1>2, <1>6, SizeAssumption
  <2> QED
    BY <1>1, <2>1, <2>2
<1> QED
  BY <1>5, <1>6

LEMMA ServerRows ==
    ASSUME TypeOK
    PROVE  /\ Len(rows) \in Nat
           /\ InsertRow => /\ rows' \in Seq(1..MaxRows)
                           /\ Len(rows') = Len(rows) + 1
                           /\ \A i \in 1..Len(rows) : rows'[i + 1] = rows[i]
           /\ AppendRow => /\ rows' \in Seq(1..MaxRows)
                           /\ Len(rows') = Len(rows) + 1
                           /\ \A i \in 1..Len(rows) : rows'[i] = rows[i]
           /\ \A j \in 1..Len(rows) : RemoveRow(j) => rows' \in Seq(1..MaxRows)
<1>1. rows \in Seq(1..MaxRows) /\ created \in 0..MaxRows /\ MaxRows \in Nat
  BY SizeAssumption DEF TypeOK
<1>2. Len(rows) \in Nat
  BY <1>1, LenProperties
<1>3. ASSUME InsertRow
      PROVE  /\ rows' \in Seq(1..MaxRows)
             /\ Len(rows') = Len(rows) + 1
             /\ \A i \in 1..Len(rows) : rows'[i + 1] = rows[i]
  <2>1. created + 1 \in 1..MaxRows /\ rows' = <<created + 1>> \o rows
    BY <1>1, <1>3 DEF InsertRow
  <2> QED
    BY <1>1, <1>2, <2>1
<1>4. ASSUME AppendRow
      PROVE  /\ rows' \in Seq(1..MaxRows)
             /\ Len(rows') = Len(rows) + 1
             /\ \A i \in 1..Len(rows) : rows'[i] = rows[i]
  <2>1. created + 1 \in 1..MaxRows /\ rows' = Append(rows, created + 1)
    BY <1>1, <1>4 DEF AppendRow
  <2> QED
    BY <1>1, <2>1, AppendProperties
<1>5. ASSUME NEW j \in 1..Len(rows), RemoveRow(j)
      PROVE  rows' \in Seq(1..MaxRows)
  <2>1. rows' = SubSeq(rows, 1, j - 1) \o SubSeq(rows, j + 1, Len(rows))
    BY <1>5 DEF RemoveRow, RemoveAt
  <2>2. \A k \in 1..Len(rows) : rows[k] \in 1..MaxRows
    BY <1>1, ElementOfSeq
  <2>3. SubSeq(rows, 1, j - 1) \in Seq(1..MaxRows)
    <3>1. \A k \in 1 .. j - 1 : rows[k] \in 1..MaxRows
      BY <1>2, <2>2
    <3> QED
      BY <1>2, <3>1, SubSeqProperties
  <2>4. SubSeq(rows, j + 1, Len(rows)) \in Seq(1..MaxRows)
    <3>1. \A k \in j + 1 .. Len(rows) : rows[k] \in 1..MaxRows
      BY <1>2, <2>2
    <3> QED
      BY <1>2, <3>1, SubSeqProperties
  <2> QED
    BY <2>1, <2>3, <2>4, ConcatProperties
<1> QED
  BY <1>2, <1>3, <1>4, <1>5
-----------------------------------------------------------------------------
(* The generator's state keeps its types, for every page size, served page *)
(* size and number of rows.                                                *)
THEOREM TypeCorrect == Spec => []TypeOK
<1>1. Init => TypeOK
  <2> SUFFICES ASSUME Init PROVE TypeOK
    OBVIOUS
  <2>1. created \in 0..MaxRows /\ rows = [i \in 1..created |-> i]
    BY DEF Init
  <2>2. rows \in Seq(1..MaxRows)
    <3>1. created \in Nat /\ \A i \in 1..created : i \in 1..MaxRows
      BY <2>1, SizeAssumption
    <3> QED
      BY <2>1, <3>1
  <2>3. /\ results \in Seq(1..MaxRows) /\ taken \in 0..Len(results)
        /\ yielded \in Seq(1..MaxRows)
    BY EmptySeq DEF Init
  <2>4. /\ pc \in {"start", "fetch", "yield", "done", "error"}
        /\ page \in Nat \ {0}
        /\ stable \subseteq 1..MaxRows
        /\ shifted \in BOOLEAN
        /\ left \in BOOLEAN
    BY SizeAssumption DEF Init, FirstPage
  <2> QED
    BY <2>1, <2>2, <2>3, <2>4 DEF TypeOK
<1>2. TypeOK /\ [Next]_vars => TypeOK'
  <2> SUFFICES ASSUME TypeOK, [Next]_vars PROVE TypeOK'
    OBVIOUS
  <2>1. CASE Begin
    <3>1. stable' \subseteq 1..MaxRows
      <4>1. \A i \in Offset(StartPage) + 1 .. Len(rows) : i \in 1..Len(rows)
        BY OffsetTypes, ServerRows, SizeAssumption
      <4>2. \A i \in 1..Len(rows) : rows[i] \in 1..MaxRows
        BY ElementOfSeq DEF TypeOK
      <4> QED
        BY <2>1, <4>1, <4>2 DEF Begin
    <3> QED
      BY <2>1, <3>1 DEF Begin, TypeOK
  <2>2. CASE Fetch
    <3>1. results' \in Seq(1..MaxRows) /\ taken' \in 0..Len(results')
      BY <2>2, PageContents, LenProperties DEF Fetch, TypeOK
    <3> QED
      BY <2>2, <3>1 DEF Fetch, TypeOK
  <2>3. CASE FetchFails
    BY <2>3 DEF FetchFails, TypeOK
  <2>4. CASE Yield
    <3>1. Len(results) \in Nat /\ taken + 1 \in 1..Len(results)
      BY <2>4, LenProperties DEF Yield, TypeOK
    <3>2. results[taken + 1] \in 1..MaxRows
      BY <3>1, ElementOfSeq DEF TypeOK
    <3>3. yielded' \in Seq(1..MaxRows)
      BY <2>4, <3>2, AppendProperties DEF Yield, TypeOK
    <3> QED
      BY <2>4, <3>1, <3>3 DEF Yield, TypeOK
  <2>5. CASE Turn
    BY <2>5 DEF Turn, TypeOK, NextPage
  <2>6. CASE Server
    <3>1. rows' \in Seq(1..MaxRows)
      BY <2>6, ServerRows DEF Server
    <3>2. created' \in 0..MaxRows
      BY <2>6, SizeAssumption
         DEF Server, InsertRow, AppendRow, RemoveRow, TypeOK, iterVars
    <3>3. stable' \subseteq 1..MaxRows
      BY <2>6 DEF Server, InsertRow, AppendRow, RemoveRow, TypeOK
    <3>5. shifted' \in BOOLEAN /\ left' \in BOOLEAN
      BY <2>6 DEF Server, InsertRow, AppendRow, RemoveRow, TypeOK
    <3>4. UNCHANGED iterVars
      BY <2>6 DEF Server, InsertRow, AppendRow, RemoveRow
    <3> QED
      BY <3>1, <3>2, <3>3, <3>4, <3>5 DEF TypeOK, iterVars
  <2>7. CASE UNCHANGED vars
    BY <2>7 DEF vars, iterVars, TypeOK
  <2> QED
    BY <2>1, <2>2, <2>3, <2>4, <2>5, <2>6, <2>7 DEF Next
<1> QED
  BY <1>1, <1>2, PTL DEF Spec
-----------------------------------------------------------------------------
(* Where the generator stands among the rows while nothing has shifted.    *)
Aligned ==
    ~shifted =>
        /\ page >= StartPage
        /\ pc = "start" => page = StartPage /\ yielded = << >>
        /\ pc \in {"start", "fetch"} =>
              Offset(page) = Offset(StartPage) + Len(yielded)
        /\ pc = "yield" =>
              /\ Offset(page) + taken = Offset(StartPage) + Len(yielded)
              /\ Len(results) <= ServedSize
              /\ \A i \in 1..Len(results) :
                    /\ Offset(page) + i <= Len(rows)
                    /\ results[i] = rows[Offset(page) + i]
        /\ page > StartPage => Offset(page) <= Len(rows)
        /\ \A i \in 1..Len(yielded) :
              /\ Offset(StartPage) + i <= Len(rows)
              /\ yielded[i] = rows[Offset(StartPage) + i]

LEMMA AlignedStep ==
    ASSUME TypeOK, TypeOK', Aligned, [Next]_vars
    PROVE  Aligned'
<1> SUFFICES ASSUME ~shifted'
             PROVE  Aligned'
  BY DEF Aligned
<1> USE DEF Offset
<1>t. /\ page \in Nat \ {0} /\ taken \in Nat /\ taken <= Len(results)
      /\ Len(results) \in Nat /\ Len(rows) \in Nat /\ Len(yielded) \in Nat
      /\ StartPage \in Nat \ {0} /\ ServedSize \in Nat \ {0}
  BY LenProperties, SizeAssumption DEF TypeOK
<1>1. CASE Begin
  BY <1>1 DEF Begin, Aligned
<1>2. CASE Fetch
  <2>1. /\ Len(results') <= ServedSize
        /\ \A i \in 1..Len(results') :
              Offset(page) + i <= Len(rows) /\ results'[i] = rows[Offset(page) + i]
    BY <1>2, PageContents DEF Fetch, TypeOK
  <2>2. Offset(page) + taken' = Offset(page)
    BY <1>2, <1>t DEF Fetch
  <2> QED
    BY <1>2, <2>1, <2>2 DEF Fetch, Aligned
<1>3. CASE FetchFails
  BY <1>3 DEF FetchFails, Aligned
<1>4. CASE Yield
  <2>1. results[taken + 1] \in 1..MaxRows /\ taken + 1 \in 1..Len(results)
    BY <1>4, <1>t, ElementOfSeq DEF Yield, TypeOK
  <2>2. /\ Len(yielded') = Len(yielded) + 1
        /\ yielded'[Len(yielded) + 1] = results[taken + 1]
        /\ \A i \in 1..Len(yielded) : yielded'[i] = yielded[i]
    BY <1>4, <2>1, AppendProperties DEF Yield, TypeOK
  <2>3. /\ Offset(page) + taken = Offset(StartPage) + Len(yielded)
        /\ Offset(page) + (taken + 1) <= Len(rows)
        /\ results[taken + 1] = rows[Offset(page) + (taken + 1)]
    BY <1>4, <2>1 DEF Yield, Aligned
  <2>4. Offset(page) + (taken + 1) = Offset(StartPage) + (Len(yielded) + 1)
    BY <1>t, <2>3
  <2>5. \A i \in 1..Len(yielded') :
            /\ Offset(StartPage) + i <= Len(rows)
            /\ yielded'[i] = rows[Offset(StartPage) + i]
    <3> TAKE i \in 1..Len(yielded')
    <3>1. i \in 1..Len(yielded) \/ i = Len(yielded) + 1
      BY <1>t, <2>2
    <3>2. CASE i \in 1..Len(yielded)
      BY <1>4, <2>2, <3>2 DEF Yield, Aligned
    <3>3. CASE i = Len(yielded) + 1
      BY <2>2, <2>3, <2>4, <3>3
    <3> QED
      BY <3>1, <3>2, <3>3
  <2> QED
    BY <1>4, <2>2, <2>4, <2>5 DEF Yield, Aligned
<1>5. CASE Turn
  <2>1. CASE HasMore
    <3>1. Len(results) = ServedSize /\ taken = ServedSize
      BY <1>5, <1>t, <2>1 DEF Turn, HasMore, Aligned
    <3>2. page' = page + 1 /\ pc' = "fetch"
      BY <1>5, <2>1 DEF Turn, NextPage
    <3>3. Offset(page + 1) = Offset(page) + ServedSize
      BY OffsetTypes, <1>t
    <3>4. Offset(page + 1) = Offset(StartPage) + Len(yielded)
      BY <1>5, <3>1, <3>3 DEF Turn, Aligned
    <3>5. Offset(page + 1) <= Len(rows)
      <4>1. ServedSize \in 1..Len(results)
        BY <1>t, <3>1
      <4> QED
        BY <1>5, <3>3, <4>1 DEF Turn, Aligned
    <3>6. page + 1 >= StartPage
      BY <1>5, <1>t DEF Turn, Aligned
    <3> HIDE DEF Offset
    <3> QED
      BY <1>5, <3>2, <3>4, <3>5, <3>6 DEF Turn, Aligned
  <2>2. CASE ~HasMore
    BY <1>5, <2>2 DEF Turn, Aligned
  <2> QED
    BY <2>1, <2>2
<1>6. CASE Server
  <2>1. UNCHANGED <<pc, page, results, taken, yielded>>
    BY <1>6 DEF Server, InsertRow, AppendRow, RemoveRow, iterVars
  <2>2. CASE pc = "start"
    <3>1. ~shifted
      BY <1>6 DEF Server, InsertRow, AppendRow, RemoveRow
    <3>2. Len(yielded') = 0 /\ ~(page' > StartPage)
      BY <1>t, <2>1, <2>2, <3>1, EmptySeq DEF Aligned
    <3> QED
      BY <2>1, <2>2, <3>1, <3>2 DEF Aligned
  <2>3. CASE pc # "start"
    <3>1. AppendRow /\ ~shifted
      <4>1. ~InsertRow
        BY <2>3 DEF InsertRow
      <4>2. \A i \in 1..Len(rows) : ~RemoveRow(i)
        BY <2>3 DEF RemoveRow
      <4>3. AppendRow
        BY <1>6, <4>1, <4>2 DEF Server
      <4> QED
        BY <4>3 DEF AppendRow
    <3>2. /\ Len(rows') = Len(rows) + 1
          /\ \A i \in 1..Len(rows) : rows'[i] = rows[i]
      BY <3>1, ServerRows
    <3>3. \A i \in 1..Len(yielded) : Offset(StartPage) + i \in 1..Len(rows)
      BY <1>t, <3>1, OffsetTypes DEF Aligned
    <3>4. pc = "yield" =>
             \A i \in 1..Len(results) : Offset(page) + i \in 1..Len(rows)
      BY <1>t, <3>1, OffsetTypes DEF Aligned
    <3>5. \A n \in Int : n <= Len(rows) => n <= Len(rows')
      BY <1>t, <3>2
    <3>6. Offset(page) \in Int /\ Offset(StartPage) \in Int
      BY OffsetTypes, <1>t
    <3> HIDE DEF Offset
    <3>7. \A i \in 1..Len(yielded) :
             /\ Offset(StartPage) + i <= Len(rows')
             /\ yielded[i] = rows'[Offset(StartPage) + i]
      BY <3>1, <3>2, <3>3, <3>5 DEF Aligned
    <3>8. pc = "yield" =>
             \A i \in 1..Len(results) :
                /\ Offset(page) + i <= Len(rows')
                /\ results[i] = rows'[Offset(page) + i]
      BY <3>1, <3>2, <3>4, <3>5 DEF Aligned
    <3>9. page > StartPage => Offset(page) <= Len(rows')
      BY <3>1, <3>5, <3>6 DEF Aligned
    <3> QED
      BY <2>1, <2>3, <3>1, <3>7, <3>8, <3>9 DEF Aligned, Offset
  <2> QED
    BY <2>2, <2>3
<1>7. CASE UNCHANGED vars
  BY <1>7 DEF vars, iterVars, Aligned
<1> QED
  BY <1>1, <1>2, <1>3, <1>4, <1>5, <1>6, <1>7 DEF Next

LEMMA AlwaysAligned == Spec => []Aligned
<1>1. Init => Aligned
  <2> SUFFICES ASSUME Init PROVE Aligned
    OBVIOUS
  <2>1. page = StartPage /\ pc = "start" /\ yielded = << >> /\ Len(yielded) = 0
    BY DEF Init, FirstPage
  <2>2. Offset(StartPage) \in Nat
    BY OffsetTypes, SizeAssumption
  <2> QED
    BY <2>1, <2>2, SizeAssumption DEF Aligned
<1>2. TypeOK /\ TypeOK' /\ Aligned /\ [Next]_vars => Aligned'
  BY AlignedStep
<1> QED
  BY <1>1, <1>2, TypeCorrect, PTL DEF Spec

(* As long as no row is put before others or leaves the filters, iter_all  *)
(* yields exactly the rows from its first page on, in order, each once.    *)
THEOREM Exact == Spec => []ExactWhileUnshifted
<1>1. Aligned => ExactWhileUnshifted
  BY DEF Aligned, ExactWhileUnshifted
<1> QED
  BY <1>1, AlwaysAligned, PTL

(* ... and never asks for a page beyond the one after the last row.        *)
THEOREM StopsAtTheEnd == Spec => []NoRequestPastTheEnd
<1>1. Aligned => NoRequestPastTheEnd
  BY DEF Aligned, NoRequestPastTheEnd
<1> QED
  BY <1>1, AlwaysAligned, PTL
-----------------------------------------------------------------------------
(* What is still to come for a row that must not be missed: it was         *)
(* yielded, or it is in the rest of the page in hand, or in a later page   *)
(* -- of which there is one, as the page in hand is full.                  *)
Got(r) == \E i \in 1..Len(yielded) : yielded[i] = r

After(n, r) == \E i \in n + 1 .. Len(rows) : rows[i] = r

InHand(r) == \E i \in taken + 1 .. Len(results) : results[i] = r

Covered ==
    /\ pc = "start" => page = StartPage
    /\ ~left /\ pc = "fetch" => \A r \in stable : Got(r) \/ After(Offset(page), r)
    /\ ~left /\ pc = "yield" =>
          /\ Len(results) <= ServedSize
          /\ \A r \in stable :
                \/ Got(r)
                \/ InHand(r)
                \/ Len(results) = ServedSize /\ After(Offset(page + 1), r)
    /\ NoneMissed

LEMMA AfterStays ==
    ASSUME TypeOK, InsertRow \/ AppendRow,
           NEW n \in Nat, NEW r, After(n, r)
    PROVE  After(n, r)'
<1>1. PICK i \in n + 1 .. Len(rows) : rows[i] = r
  BY DEF After
<1>2. Len(rows) \in Nat /\ i \in 1..Len(rows)
  BY <1>1, ServerRows
<1>3. CASE InsertRow
  <2>1. Len(rows') = Len(rows) + 1 /\ rows'[i + 1] = r
    BY <1>1, <1>2, <1>3, ServerRows
  <2>2. i + 1 \in n + 1 .. Len(rows')
    BY <1>1, <1>2, <2>1
  <2> QED
    BY <2>1, <2>2 DEF After
<1>4. CASE AppendRow
  <2>1. Len(rows') = Len(rows) + 1 /\ rows'[i] = r
    BY <1>1, <1>2, <1>4, ServerRows
  <2>2. i \in n + 1 .. Len(rows')
    BY <1>1, <1>2, <2>1
  <2> QED
    BY <2>1, <2>2 DEF After
<1> QED
  BY <1>3, <1>4

LEMMA CoveredStep ==
    ASSUME TypeOK, TypeOK', Covered, [Next]_vars
    PROVE  Covered'
<1>t. /\ page \in Nat \ {0} /\ taken \in Nat /\ taken <= Len(results)
      /\ Len(results) \in Nat /\ Len(rows) \in Nat /\ Len(yielded) \in Nat
      /\ StartPage \in Nat \ {0} /\ ServedSize \in Nat \ {0}
      /\ Offset(page) \in Nat /\ Offset(page + 1) = Offset(page) + ServedSize
  <2>1. page \in Nat \ {0} /\ taken \in 0..Len(results)
    BY DEF TypeOK
  <2>2. Len(results) \in Nat /\ Len(rows) \in Nat /\ Len(yielded) \in Nat
    BY LenProperties DEF TypeOK
  <2>3. Offset(page) \in Nat /\ Offset(page + 1) = Offset(page) + ServedSize
    BY <2>1, OffsetTypes
  <2> QED
    BY <2>1, <2>2, <2>3, SizeAssumption
<1>s. pc' = "start" => page' = StartPage
  BY DEF Covered, Next, vars, iterVars, Begin, Fetch, FetchFails, Yield, Turn,
         Server, InsertRow, AppendRow, RemoveRow
<1> SUFFICES ASSUME ~left'
             PROVE  Covered'
  BY <1>s DEF Covered, NoneMissed
<1>l. ~left
  <2>1. CASE Server
    <3>1. CASE InsertRow \/ AppendRow
      BY <3>1 DEF InsertRow, AppendRow
    <3>2. CASE \E i \in 1..Len(rows) : RemoveRow(i)
      BY <3>2 DEF RemoveRow
    <3> QED
      BY <2>1, <3>1, <3>2 DEF Server
  <2>2. CASE ~Server
    BY <2>2 DEF Next, vars, Begin, Fetch, FetchFails, Yield, Turn
  <2> QED
    BY <2>1, <2>2
<1>1. CASE Begin
  <2>1. /\ pc' = "fetch" /\ page' = StartPage
        /\ rows' = rows
        /\ stable' = {rows[i] : i \in Offset(StartPage) + 1 .. Len(rows)}
    BY <1>1 DEF Begin, Covered
  <2> QED
    BY <2>1 DEF Covered, After, NoneMissed, Complete, Offset
<1>2. CASE Fetch
  <2>1. /\ pc = "fetch" /\ pc' = "yield" /\ taken' = 0
        /\ results' = PageOf(page)
        /\ UNCHANGED <<rows, page, yielded, stable>>
    BY <1>2 DEF Fetch
  <2>2. Len(results') <= ServedSize
    BY <1>t, <2>1, PageContents
  <2>3. ASSUME NEW r \in stable
        PROVE  \/ Got(r)'
               \/ InHand(r)'
               \/ Len(results') = ServedSize /\ After(Offset(page + 1), r)'
    <3>1. Got(r) \/ After(Offset(page), r)
      BY <1>l, <2>1, <2>3 DEF Covered
    <3>2. CASE Got(r)
      BY <2>1, <3>2 DEF Got
    <3>3. CASE After(Offset(page), r)
      <4>1. PICK i \in Offset(page) + 1 .. Len(rows) : rows[i] = r
        BY <3>3 DEF After
      <4>2. CASE i <= Offset(page + 1)
        <5>1. i - Offset(page) \in 1..Len(results')
          BY <1>t, <2>1, <4>1, <4>2, PageContents
        <5>2. results'[i - Offset(page)] = rows[Offset(page) + (i - Offset(page))]
          BY <1>t, <2>1, <5>1, PageContents
        <5>3. Offset(page) + (i - Offset(page)) = i
          BY <1>t, <4>1
        <5>4. i - Offset(page) \in taken' + 1 .. Len(results')
          BY <2>1, <5>1
        <5> QED
          BY <4>1, <5>2, <5>3, <5>4 DEF InHand
      <4>3. CASE ~(i <= Offset(page + 1))
        <5>1. Len(results') = ServedSize
          BY <1>t, <2>1, <4>1, <4>3, PageContents
        <5>2. i \in Offset(page + 1) + 1 .. Len(rows)
          BY <1>t, <4>1, <4>3
        <5> QED
          BY <2>1, <4>1, <5>1, <5>2 DEF After, Offset
      <4> QED
        BY <4>2, <4>3
    <3> QED
      BY <3>1, <3>2, <3>3
  <2> QED
    BY <2>1, <2>2, <2>3 DEF Covered, NoneMissed, Complete, Offset
<1>3. CASE FetchFails
  BY <1>3, <1>l DEF FetchFails, Covered, NoneMissed, Complete
<1>4. CASE Yield
  <2>1. /\ pc = "yield" /\ taken < Len(results) /\ taken' = taken + 1
        /\ yielded' = Append(yielded, results[taken + 1])
        /\ UNCHANGED <<rows, pc, page, results, stable>>
    BY <1>4 DEF Yield
  <2>2. results[taken + 1] \in 1..MaxRows
    <3>1. taken + 1 \in 1..Len(results)
      BY <1>t, <2>1
    <3> QED
      BY <3>1, ElementOfSeq DEF TypeOK
  <2>3. /\ Len(yielded') = Len(yielded) + 1
        /\ yielded'[Len(yielded) + 1] = results[taken + 1]
        /\ \A i \in 1..Len(yielded) : yielded'[i] = yielded[i]
    BY <2>1, <2>2, AppendProperties DEF TypeOK
  <2>4. \A r : Got(r) => Got(r)'
    BY <1>t, <2>3 DEF Got
  <2>5. \A r : InHand(r) => Got(r)' \/ InHand(r)'
    <3> TAKE r
    <3> SUFFICES ASSUME InHand(r) PROVE Got(r)' \/ InHand(r)'
      OBVIOUS
    <3>1. PICK i \in taken + 1 .. Len(results) : results[i] = r
      BY DEF InHand
    <3>2. CASE i = taken + 1
      BY <1>t, <2>3, <3>1, <3>2 DEF Got
    <3>3. CASE i # taken + 1
      BY <1>t, <2>1, <3>1, <3>3 DEF InHand
    <3> QED
      BY <3>2, <3>3
  <2>6. \A n, r : After(n, r) => After(n, r)'
    BY <2>1 DEF After
  <2> QED
    BY <1>l, <2>1, <2>4, <2>5, <2>6 DEF Covered, NoneMissed, Complete, Offset
<1>5. CASE Turn
  <2>1. /\ pc = "yield" /\ taken = Len(results)
        /\ UNCHANGED <<rows, results, yielded, stable>>
    BY <1>5 DEF Turn
  <2>2. \A r : ~InHand(r)
    BY <1>t, <2>1 DEF InHand
  <2>3. CASE HasMore
    <3>1. pc' = "fetch" /\ page' = page + 1
      BY <1>5, <2>3 DEF Turn, NextPage
    <3>2. \A r \in stable : Got(r) \/ After(Offset(page + 1), r)
      BY <1>l, <2>1, <2>2 DEF Covered
    <3> QED
      BY <2>1, <3>1, <3>2 DEF Covered, NoneMissed, Complete, Got, After, Offset
  <2>4. CASE ~HasMore
    <3>1. pc' = "done" /\ page' = page
      BY <1>5, <2>4 DEF Turn
    <3>2. Len(results) # ServedSize
      BY <1>t, <2>4 DEF HasMore
    <3>3. \A r \in stable : Got(r)
      BY <1>l, <2>1, <2>2, <3>2 DEF Covered
    <3> QED
      BY <2>1, <3>1, <3>3 DEF Covered, NoneMissed, Complete, Got
  <2> QED
    BY <2>3, <2>4
<1>6. CASE InsertRow \/ AppendRow
  <2>1. UNCHANGED <<pc, page, results, taken, yielded, stable>>
    BY <1>6 DEF InsertRow, AppendRow, iterVars
  <2>2. \A n \in Nat : \A r : After(n, r) => After(n, r)'
    BY <1>6, AfterStays
  <2>3. Offset(page + 1) \in Nat
    BY <1>t
  <2>4. \A r : (Got(r) => Got(r)') /\ (InHand(r) => InHand(r)')
    BY <2>1 DEF Got, InHand
  <2>5. /\ \A r : After(Offset(page), r) => After(Offset(page), r)'
        /\ \A r : After(Offset(page + 1), r) => After(Offset(page + 1), r)'
    <3>1. Offset(page)' = Offset(page) /\ Offset(page + 1)' = Offset(page + 1)
      BY <2>1 DEF Offset
    <3>2. Offset(page) \in Nat
      BY <1>t
    <3>3. \A n \in Nat : \A r :
             After(n, r) => \E i \in n + 1 .. Len(rows') : rows'[i] = r
      BY <2>2 DEF After
    <3> QED
      BY <2>3, <3>1, <3>2, <3>3 DEF After
  <2>6. pc = "fetch" => \A r \in stable : Got(r)' \/ After(Offset(page), r)'
    BY <1>l, <2>4, <2>5 DEF Covered
  <2>7. pc = "yield" => \A r \in stable :
            \/ Got(r)'
            \/ InHand(r)'
            \/ Len(results) = ServedSize /\ After(Offset(page + 1), r)'
    BY <1>l, <2>4, <2>5 DEF Covered
  <2>8. NoneMissed'
    BY <1>l, <2>1, <2>4 DEF Covered, NoneMissed, Complete, Got
  <2>9. pc = "yield" => Len(results) <= ServedSize
    BY <1>l DEF Covered
  <2> QED
    BY <1>s, <2>1, <2>6, <2>7, <2>8, <2>9 DEF Covered
<1>7. CASE \E i \in 1..Len(rows) : RemoveRow(i)
  <2>1. pc' = "start"
    BY <1>7 DEF RemoveRow, iterVars
  <2> QED
    BY <1>s, <2>1 DEF Covered, NoneMissed
<1>8. CASE UNCHANGED vars
  BY <1>8 DEF vars, iterVars, Covered, NoneMissed, Complete, Got, After, InHand,
              Offset
<1> QED
  BY <1>1, <1>2, <1>3, <1>4, <1>5, <1>6, <1>7, <1>8 DEF Next, Server

(* While no row leaves the filters, iter_all misses none of the rows that  *)
(* matched since its first call, however many come in front of them.       *)
THEOREM NoRowMissed == Spec => []NoneMissed
<1>1. Init => Covered
  BY DEF Init, FirstPage, Covered, NoneMissed, Complete
<1>2. TypeOK /\ TypeOK' /\ Covered /\ [Next]_vars => Covered'
  BY CoveredStep
<1>3. Covered => NoneMissed
  BY DEF Covered
<1> QED
  BY <1>1, <1>2, <1>3, TypeCorrect, PTL DEF Spec
=============================================================================
