----------------------------- MODULE Pagination -----------------------------
(***************************************************************************)
(* `TransactionsResource.iter_all' and its async twin                      *)
(* (resources/transactions.py): a generator that walks the numbered pages  *)
(* of GET transactions until a page is not full.  The consumer takes one   *)
(* transaction at a time and may take its time; meanwhile the rows that    *)
(* match the filters change on the server.                                 *)
(*                                                                         *)
(* The server is not part of the repository.  Page p of size s is taken to *)
(* be rows (p-1)*s+1 .. p*s of the matching rows, as `page' and            *)
(* `page_size' say; the size the server uses may differ from the size      *)
(* asked for, and is echoed in the answer.                                 *)
(***************************************************************************)
EXTENDS Integers, Sequences, SequencesExt

CONSTANTS
    PageSize,      \* filters.page_size, as asked for
    ServedSize,    \* the page size the server uses and echoes
    StartPage,     \* filters.page
    MaxRows        \* bound: the number of rows ever to exist

ASSUME SizeAssumption ==
    /\ PageSize \in 1..100
    /\ ServedSize \in Nat \ {0}
    /\ StartPage \in Nat \ {0}
    /\ MaxRows \in Nat

VARIABLES
    rows,      \* the matching rows, in the server's order; the n-th row
               \* ever created is the number n
    created,   \* how many rows were ever created
    pc,        \* where the generator is
    page,      \* its page number
    results,   \* the page in hand
    taken,     \* how many of `results' were yielded
    yielded,   \* history: what the consumer got
    stable,    \* history: the rows that have matched since the first call,
               \* from the first page asked for onwards
    shifted,   \* history: since the first call a row was inserted before
               \* others, or removed
    left       \* history: since the first call a row was removed

iterVars == <<pc, page, results, taken, yielded>>
vars == <<rows, created, iterVars, stable, shifted, left>>

Offset(p) == (p - 1) * ServedSize

(* GET transactions?page=p                                                 *)
PageOf(p) ==
    LET last == IF Offset(p + 1) <= Len(rows) THEN Offset(p + 1) ELSE Len(rows)
    IN  SubSeq(rows, Offset(p) + 1, last)

TypeOK ==
    /\ rows \in Seq(1..MaxRows)
    /\ created \in 0..MaxRows
    /\ pc \in {"start", "fetch", "yield", "done", "error"}
    /\ page \in Nat \ {0}
    /\ results \in Seq(1..MaxRows)
    /\ taken \in 0..Len(results)
    /\ yielded \in Seq(1..MaxRows)
    /\ stable \subseteq 1..MaxRows
    /\ shifted \in BOOLEAN
    /\ left \in BOOLEAN

FirstPage == StartPage

Init ==
    /\ created \in 0..MaxRows
    /\ rows = [i \in 1..created |-> i]
    /\ pc = "start"
    /\ page = FirstPage
    /\ results = << >>
    /\ taken = 0
    /\ yielded = << >>
    /\ stable = {}
    /\ shifted = FALSE
    /\ left = FALSE
-----------------------------------------------------------------------------
(* The generator.                                                          *)

(* The consumer's first next(); nothing is requested before.               *)
Begin ==
    /\ pc = "start"
    /\ pc' = "fetch"
    /\ stable' = {rows[i] : i \in Offset(StartPage) + 1 .. Len(rows)}
    /\ UNCHANGED <<rows, created, page, results, taken, yielded,
                   shifted, left>>

(* self.list(current) answers ...                                          *)
Fetch ==
    /\ pc = "fetch"
    /\ results' = PageOf(page)
    /\ taken' = 0
    /\ pc' = "yield"
    /\ UNCHANGED <<rows, created, page, yielded, stable, shifted, left>>

(* ... or raises, and the generator ends with the error.                   *)
FetchFails ==
    /\ pc = "fetch"
    /\ pc' = "error"
    /\ UNCHANGED <<rows, created, page, results, taken, yielded,
                   stable, shifted, left>>

Yield ==
    /\ pc = "yield" /\ taken < Len(results)
    /\ yielded' = Append(yielded, results[taken + 1])
    /\ taken' = taken + 1
    /\ UNCHANGED <<rows, created, pc, page, results, stable, shifted, left>>

(* Mutated forms: the size asked for, not the size served; until a page is *)
(* empty.                                                                  *)
HasMoreOfRequested == Len(results) >= PageSize

HasMoreUntilEmpty == results # << >>

(* TransactionPage.has_more                                                *)
HasMore == Len(results) >= ServedSize

(* Mutated form: the page is counted up before and after the request.      *)
SkippingPage(p) == p + 2

NextPage(p) == p + 1

Turn ==
    /\ pc = "yield" /\ taken = Len(results)
    /\ IF HasMore
       THEN page' = NextPage(page) /\ pc' = "fetch"
       ELSE pc' = "done" /\ UNCHANGED page
    /\ UNCHANGED <<rows, created, results, taken, yielded, stable, shifted, left>>
-----------------------------------------------------------------------------
(* The server (external): rows come to match the filters at the front or   *)
(* at the end of its order, and cease to match.                            *)

InsertRow ==
    /\ created < MaxRows
    /\ created' = created + 1
    /\ rows' = <<created + 1>> \o rows
    /\ shifted' = (shifted \/ pc # "start")
    /\ UNCHANGED <<iterVars, stable, left>>

AppendRow ==
    /\ created < MaxRows
    /\ created' = created + 1
    /\ rows' = Append(rows, created + 1)
    /\ UNCHANGED <<iterVars, stable, shifted, left>>

RemoveRow(i) ==
    /\ rows' = RemoveAt(rows, i)
    /\ stable' = stable \ {rows[i]}
    /\ shifted' = (shifted \/ pc # "start")
    /\ left' = (left \/ pc # "start")
    /\ UNCHANGED <<created, iterVars>>

Server == InsertRow \/ AppendRow \/ \E i \in 1..Len(rows) : RemoveRow(i)

Next == Begin \/ Fetch \/ FetchFails \/ Yield \/ Turn \/ Server

Spec == Init /\ [][Next]_vars
-----------------------------------------------------------------------------
(* Properties.                                                             *)

(* iter_all has yielded every row that matched from its first to its last  *)
(* request, as long as no row left the filters meanwhile: rows inserted in *)
(* front only push others to later pages, and appended ones lengthen them. *)
Complete == stable \subseteq {yielded[i] : i \in 1..Len(yielded)}

NoneMissed == pc = "done" /\ ~left => Complete

(* While pages do not shift under the generator it yields exactly the rows *)
(* from its first page on, in the server's order, each once.               *)
ExactWhileUnshifted ==
    ~shifted =>
        \A i \in 1..Len(yielded) :
            /\ Offset(StartPage) + i <= Len(rows)
            /\ yielded[i] = rows[Offset(StartPage) + i]

(* The generator stops at the first page that is not full, so that it asks *)
(* for at most one page more than there are.                               *)
NoRequestPastTheEnd ==
    ~shifted /\ page > StartPage => Offset(page) <= Len(rows)
=============================================================================
