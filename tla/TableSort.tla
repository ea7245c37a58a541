----------------------------- MODULE TableSort -----------------------------
\* Tables that a click on a heading sorts (tablesort.js). The same lines are in
\* several fragments that htmx puts into a page, where they look up all the
\* tables anew: one that was there before has then one more listener per heading.
EXTENDS Integers, Sequences, FiniteSets

CONSTANTS
  Row,
  Column,
  Numeric,   \* the columns with data-type="number"
  Number,    \* the number in each cell
  TextRank   \* the rank of its text in the order of strings

ASSUME TableAssumption ==
  /\ \A c \in Numeric : Number[c] \in [Row -> Int]
  /\ \A c \in Column \ Numeric : TextRank[c] \in [Row -> Int]

Perms(S) == {f \in [1..Cardinality(S) -> S] : \A r \in S : \E i \in DOMAIN f : f[i] = r}

Place(rows, r) == CHOOSE i \in DOMAIN rows : rows[i] = r

\* Whether row r may come before s when the rows are sorted by column c: by the
\* number, equal ones in the order they were in; or by the text, where the
\* comparator calls neither of two equal ones equal and any order may result.
MayPrecede(rows, c, asc, r, s) ==
  LET d == IF asc THEN 1 ELSE -1
  IN  IF c \in Numeric
      THEN \/ d * Number[c][r] < d * Number[c][s]
           \/ Number[c][r] = Number[c][s] /\ Place(rows, r) < Place(rows, s)
      ELSE d * TextRank[c][r] <= d * TextRank[c][s]

SortedRows(rows, c, asc) ==
  {p \in Perms(Row) : \A i, j \in DOMAIN p : i < j => MayPrecede(rows, c, asc, p[i], p[j])}

\* Mutant: the classes of the other headings stay.
SortTableKeepingClasses(t, c, asc) ==
  {[t EXCEPT !.rows = p, !.class[c] = IF asc THEN "asc" ELSE "desc"] : p \in SortedRows(t.rows, c, asc)}

\* sortTableByColumn: a table is its rows and, for each heading, the class that
\* tells how the table is sorted by it.
SortTableByColumn(t, c, asc) ==
  {[t EXCEPT !.rows = p, !.class = [d \in Column |-> IF d = c THEN IF asc THEN "asc" ELSE "desc" ELSE "none"]] :
     p \in SortedRows(t.rows, c, asc)}

\* The listener of heading c, and as many of them as it has, one after the other.
Listener(t, c) == SortTableByColumn(t, c, t.class[c] # "asc")
Clicked(t, c) ==
  LET after[n \in 0..t.listeners] ==
        IF n = 0 THEN {t} ELSE UNION {Listener(u, c) : u \in after[n - 1]}
  IN  after[t.listeners]

\* querySelectorAll(".table-sortable th") of a fragment that comes later.
ListenedAgain(t) == [t EXCEPT !.listeners = @ + 1]

SortableTables ==
  [rows : Perms(Row), class : [Column -> {"none", "asc", "desc"}], listeners : Nat \ {0}]
FreshTable(p) == [rows |-> p, class |-> [c \in Column |-> "none"], listeners |-> 1]

=============================================================================
