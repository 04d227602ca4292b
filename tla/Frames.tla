------------------------------- MODULE Frames -------------------------------
(***************************************************************************)
(* The steps of the ETL engine that are functions of a frame: clean,        *)
(* validate with its rules and scores, and transform.                      *)
(*                                                                         *)
(* A frame is its columns and its rows, by the number of the record each    *)
(* comes from: reset_index() numbers anew the rows that are left, but       *)
(* nothing looks at the numbers.  A cell is missing, a text or a number; a  *)
(* number in a date column is its day.  Texts that read as numbers are left *)
(* out, and scores are whole percents, rounded down.                       *)
(***************************************************************************)
EXTENDS Integers, FiniteSets, Sequences, FiniteSetsExt, Functions

CONSTANTS
  Null,      \* a missing cell
  Trimmed,   \* str.strip() of each text, Null for one that is only white space
  Lowered,   \* str.lower() of each text
  Value,     \* the value of each number
  Today

Text   == DOMAIN Trimmed
Number == DOMAIN Value
Cell   == {Null} \cup Text \cup Number

ASSUME FramesAssumption ==
  /\ Null \notin Text \cup Number /\ Text \cap Number = {}
  /\ Trimmed \in [Text -> Text \cup {Null}] /\ Lowered \in [Text -> Text]
  /\ Value \in [Number -> Int] /\ Today \in Int
  /\ \A t \in Text : Trimmed[t] # Null => Trimmed[Trimmed[t]] = Trimmed[t]
  /\ \A t \in Text : Trimmed[t] = t => Trimmed[Lowered[t]] = Lowered[t]

(* A record holds some of the columns; the frame of a list of records has   *)
(* every column one of them holds, besides those of its header.            *)
Frame(header, records) ==
  LET cols == header \cup UNION {DOMAIN r : r \in Range(records)}
      Padded(r) == [c \in cols |-> IF c \in DOMAIN r THEN r[c] ELSE Null]
  IN [cols |-> cols,
      rows |-> [i \in 1..Len(records) |-> Padded(records[i])]]

Index(f) == DOMAIN f.rows

Cells(f, c) == {f.rows[i][c] : i \in Index(f)}

(* Rows that agree with an earlier row on some columns. *)
Repeated(f, cols) ==
  {i \in Index(f) : \E j \in Index(f) :
     j < i /\ \A c \in cols : f.rows[j][c] = f.rows[i][c]}

-----------------------------------------------------------------------------
(* clean(df, spec).  A spec has the columns of "trim" and "lowercase", the  *)
(* defaults of "fill_null", the columns of "drop_rows_missing" and the      *)
(* percentage of "min_present_fraction", 0 for none.                       *)

Fill(spec, c, v) == IF v = Null /\ c \in DOMAIN spec.fill THEN spec.fill[c] ELSE v

Repair(spec, c, v) ==
  LET Trim(w) == IF c \in spec.trim /\ w \in Text THEN Trimmed[w] ELSE w
      Lower(w) == IF c \in spec.lower /\ w \in Text THEN Lowered[w] ELSE w
  IN Fill(spec, c, Lower(Trim(v)))

Present(row) == {c \in DOMAIN row : row[c] # Null}

Kept(spec, row) ==
  /\ spec.need \cap DOMAIN row \subseteq Present(row)
  /\ Cardinality(Present(row)) >= (spec.share * Cardinality(DOMAIN row)) \div 100

Repaired(f, spec) == [i \in Index(f) |-> [c \in f.cols |-> Repair(spec, c, f.rows[i][c])]]

(* The rows that are incomplete are dropped before their cells are filled. *)
CleanDropsFirst(f, spec) ==
  [cols |-> f.cols,
   rows |-> Restrict(Repaired(f, spec), {i \in Index(f) : Kept(spec, f.rows[i])})]

Clean(f, spec) ==
  [cols |-> f.cols,
   rows |-> Restrict(Repaired(f, spec), {i \in Index(f) : Kept(spec, Repaired(f, spec)[i])})]

(* A column with cells but no text.  If it has numbers, pandas offers no     *)
(* str.strip() on it: AttributeError.  If it has none, that depends on how   *)
(* it came to be.                                                          *)
Textless(f, spec) ==
  {c \in (spec.trim \cup spec.lower) \cap f.cols :
     Cells(f, c) # {} /\ Cells(f, c) \cap Text = {}}

CleanMayRaise(f, spec) == Textless(f, spec) # {}
CleanMustRaise(f, spec) == \E c \in Textless(f, spec) : Cells(f, c) \cap Number # {}

-----------------------------------------------------------------------------
(* validate(df, spec).  A rule has a type, a severity, columns (one for all *)
(* but the structural types) and, by its type, a set of values or the       *)
(* bounds lo and hi.  A check is what a rule found.                        *)

Structural == {"required_columns", "not_null", "unique", "no_duplicate_rows"}
CellTypes  == {"column_type", "range", "allowed_values"}

OneAtLeast(n) == IF n = 0 THEN 1 ELSE n

Check(rule, passed, violations, checked) ==
  [type |-> rule.type, severity |-> rule.severity, passed |-> passed,
   violations |-> violations, checked |-> checked]

Counted(rule, violations, checked) ==
  Check(rule, violations = 0, violations, OneAtLeast(checked))

InRange(rule, v) == rule.lo <= Value[v] /\ Value[v] <= rule.hi

(* An upper bound is looked at only where there is no lower one. *)
BadCellsLowerOnly(rule) ==
  CASE rule.type = "column_type" -> Text
    [] rule.type = "range" -> {v \in Number : Value[v] < rule.lo}
    [] rule.type = "allowed_values" -> Cell \ rule.values

(* Texts and missing cells are in every range, and a missing cell has every *)
(* numeric type; of a column_type that is not numeric nothing is checked.   *)
BadCells(rule) ==
  CASE rule.type = "column_type" -> Text
    [] rule.type = "range" -> {v \in Number : ~InRange(rule, v)}
    [] rule.type = "allowed_values" -> Cell \ rule.values

CheckStructure(f, rule) ==
  LET cols == rule.columns \cap f.cols
      n == Cardinality(Index(f))
  IN CASE rule.type = "required_columns" ->
            Counted(rule, Cardinality(rule.columns \ f.cols), Cardinality(rule.columns))
       [] rule.type = "not_null" ->
            Counted(rule, Cardinality({p \in Index(f) \X cols : f.rows[p[1]][p[2]] = Null}),
                    n * Cardinality(cols))
       [] rule.type = "unique" ->
            Counted(rule, Cardinality({p \in Index(f) \X cols : p[1] \in Repeated(f, {p[2]})}),
                    n * Cardinality(cols))
       [] rule.type = "no_duplicate_rows" ->
            Counted(rule, Cardinality(Repeated(f, f.cols)), n)

(* Only the newest date counts; without one, every row is a violation.     *)
CheckFreshness(f, rule, c) ==
  LET n == Cardinality(Index(f))
      dates == {Value[v] : v \in Cells(f, c) \cap Number}
      stale == \A d \in dates : Today - d > rule.hi
  IN IF dates = {} THEN Check(rule, FALSE, n, OneAtLeast(n))
     ELSE Check(rule, ~stale, IF stale THEN 1 ELSE 0, 1)

(* An expression that compares the column with numbers: missing cells do    *)
(* not satisfy it, and it cannot be evaluated on texts.                    *)
CheckExpression(f, rule, c) ==
  LET n == Cardinality(Index(f))
  IN IF c \notin f.cols \/ Cells(f, c) \cap Text # {}
     THEN Check(rule, FALSE, n, OneAtLeast(n))
     ELSE Counted(rule, Cardinality({i \in Index(f) :
            f.rows[i][c] = Null \/ ~InRange(rule, f.rows[i][c])}), n)

ColumnOf(rule) == CHOOSE c \in rule.columns : TRUE

CheckColumn(f, rule) ==
  LET c == ColumnOf(rule)
  IN CASE rule.type = "business_rule" -> CheckExpression(f, rule, c)
       [] rule.type # "business_rule" /\ c \notin f.cols -> Check(rule, FALSE, 1, 1)
       [] rule.type = "freshness" /\ c \in f.cols -> CheckFreshness(f, rule, c)
       [] rule.type \in CellTypes /\ c \in f.cols ->
            Counted(rule, Cardinality({i \in Index(f) : f.rows[i][c] \in BadCells(rule)}),
                    Cardinality(Index(f)))

(* A type that is not known fails, of nothing checked. *)
RunRule(f, rule) ==
  IF rule.type \in Structural THEN CheckStructure(f, rule)
  ELSE IF rule.type \in CellTypes \cup {"freshness", "business_rule"} THEN CheckColumn(f, rule)
  ELSE Check(rule, FALSE, 0, 0)

Score(violations, checked) ==
  IF checked = 0 THEN 100
  ELSE LET share == (100 * (checked - violations)) \div checked
       IN IF share < 0 THEN 0 ELSE share

(* The mean of the scores of the checks that are not structural: the points *)
(* they score, of 100 each.                                                *)
Accuracy(checks) ==
  LET domain == {i \in DOMAIN checks : checks[i].type \notin Structural}
      points == {p \in domain \X (1..100) :
                   p[2] <= Score(checks[p[1]].violations, checks[p[1]].checked)}
  IN IF domain = {} THEN 100 ELSE Cardinality(points) \div Cardinality(domain)

Validate(f, rules) ==
  LET checks == [i \in DOMAIN rules |-> RunRule(f, rules[i])]
      completeness == Score(Cardinality({p \in Index(f) \X f.cols : f.rows[p[1]][p[2]] = Null}),
                            Cardinality(Index(f)) * Cardinality(f.cols))
      consistency == Score(Cardinality(Repeated(f, f.cols)), Cardinality(Index(f)))
      accuracy == Accuracy(checks)
  IN [checks |-> checks,
      completeness |-> completeness, consistency |-> consistency, accuracy |-> accuracy,
      overall |-> (completeness + consistency + accuracy) \div 3,
      passed |-> \A i \in DOMAIN checks :
                   checks[i].passed \/ checks[i].severity # "blocking"]

-----------------------------------------------------------------------------
(* transform(df, spec): "rename", "cast" to numbers, "drop_duplicates" and   *)
(* "select", the empty set for none.                                       *)

Renamed(spec, c) == IF c \in DOMAIN spec.rename THEN spec.rename[c] ELSE c

RenameColumns(f, spec) ==
  LET old(c) == CHOOSE b \in f.cols : Renamed(spec, b) = c
      cols == {Renamed(spec, b) : b \in f.cols}
  IN [cols |-> cols,
      rows |-> [i \in Index(f) |-> [c \in cols |-> f.rows[i][old(c)]]]]

(* A column that is not there: KeyError, which transform() does not catch.  *)
(* drop_duplicates() of an empty frame looks at no column.                 *)
TransformRaisesKeyError(f, spec) ==
  LET g == RenameColumns(f, spec)
  IN \/ ~(spec.cast \subseteq g.cols)
     \/ Index(f) # {} /\ ~(spec.dedupe \subseteq g.cols)
        /\ \A c \in spec.cast : Cells(g, c) \subseteq Number

TransformRaisesError(f, spec) ==
  LET g == RenameColumns(f, spec)
  IN \/ \E c \in spec.cast : ~(Cells(g, c) \subseteq Number)
     \/ ~(spec.select \subseteq g.cols)

Transform(f, spec) ==
  LET g == RenameColumns(f, spec)
      repeated == IF spec.dedupe = {} THEN {} ELSE Repeated(g, spec.dedupe)
      cols == IF spec.select = {} THEN g.cols ELSE spec.select
  IN [cols |-> cols,
      rows |-> [i \in Index(g) \ repeated |-> Restrict(g.rows[i], cols)]]
=============================================================================
