------------------------------ MODULE MCEngine ------------------------------
(* Engine on small sources and a few configurations. *)
EXTENDS Engine, TLC

Words == {"  ", " A", " a", "A", "a"}
MCTrimmed == [t \in Words |-> CASE t = "  " -> Null [] t = " A" -> "A"
                               [] t = " a" -> "a" [] t \in {"A", "a"} -> t]
MCLowered == [t \in Words |-> CASE t = "A" -> "a" [] t = " A" -> " a"
                               [] t \in {"  ", " a", "a"} -> t]
(* Channels are treated alike. *)
Symmetry == Permutations(Channel)

MCValue == [n \in {"5", "9"} |-> IF n = "5" THEN 5 ELSE 9]

Rule(type, severity, columns) ==
  [type |-> type, severity |-> severity, columns |-> columns,
   lo |-> 1, hi |-> 6, values |-> {"a"}]

Plain == [kind |-> "rest_api", header |-> {}, trim |-> {}, lower |-> {}, fill |-> <<>>,
          need |-> {}, share |-> 0, rules |-> <<>>, rename |-> <<>>, cast |-> {},
          dedupe |-> {}, select |-> {}]

(* An API whose keys are cleaned and must then be present and unique. *)
Strict == [Plain EXCEPT
  !.trim = {"k"}, !.lower = {"k"}, !.need = {"k"},
  !.rules = << Rule("not_null", "blocking", {"k"}), Rule("unique", "blocking", {"k"}),
               Rule("range", "warning", {"v"}), Rule("freshness", "warning", {"v"}) >>]

(* One that fills and drops what it can, and asks little of the rest. *)
Lenient == [Plain EXCEPT
  !.trim = {"k"}, !.fill = [k |-> "a"], !.need = {"k", "v"}, !.share = 60,
  !.rules = << Rule("allowed_values", "blocking", {"k"}),
               Rule("no_duplicate_rows", "warning", {}),
               Rule("business_rule", "warning", {"v"}), Rule("regex", "warning", {"k"}) >>,
  !.dedupe = {"k"}]

(* A file with a header, cast and renamed for its table. *)
Typed == [Plain EXCEPT
  !.kind = "file", !.header = {"k", "v"},
  !.rules = << Rule("required_columns", "blocking", {"k", "v"}),
               Rule("column_type", "blocking", {"v"}), Rule("range", "blocking", {"v"}) >>,
  !.rename = [k |-> "id"], !.cast = {"v"}, !.select = {"id", "v"}]

(* Mistakes that pandas answers with errors: the columns to deduplicate by  *)
(* under their old name, a column of numbers among those to trim.          *)
OldName == [Plain EXCEPT
  !.rules = << Rule("freshness", "blocking", {"v"}) >>,
  !.rename = [k |-> "id"], !.dedupe = {"k"}]

TrimmedNumbers == [Plain EXCEPT !.trim = {"v"}]

MCConfigs == {Strict, Lenient, Typed, OldName, TrimmedNumbers}

Good    == [k |-> "a", v |-> "5"]
Padded  == [k |-> " A", v |-> "5"]
Blanked == [k |-> "  ", v |-> "9"]
Keyless == [v |-> "5"]
Bare    == [k |-> "A", v |-> Null]
Wordy   == [k |-> "a", v |-> "a"]

MCContents ==
  { <<>>, <<Good>>, <<Wordy>>, <<Keyless>>, <<Good, Padded>>, <<Blanked, Good>>,
    <<Keyless, Blanked>>, <<Padded, Bare>>, <<Good, Keyless, Good>>, <<Good, Bare, Blanked>>,
    <<Good, Blanked, Keyless, Padded>>, <<Padded, Blanked, Good, Good, Wordy>> }
=============================================================================
