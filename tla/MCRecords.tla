----------------------------- MODULE MCRecords -----------------------------
(***************************************************************************)
(* Records for TLC: structs of the kinds the repository uses.              *)
(***************************************************************************)
EXTENDS Records

CONSTANTS s1, s2, t1

MCUserOf == [s \in Session |-> IF s = s1 THEN 0 ELSE 1]

Struct(keys, nullable, filled, skipped) ==
  [keys |-> keys, nullable |-> nullable, filled |-> filled, skipped |-> skipped]

\* struct { f: T, g: Option<T>, and a `_deleted: Option<bool>` that may be skipped }
Plain == Struct({"f", "g", DELETED}, {"g", DELETED}, {}, {DELETED})

\* Options that may be skipped, with a reserved name each.
Reserving == Struct({"f", PURGE, "_x"}, {PURGE, "_x"}, {}, {PURGE, "_x"})

\* The struct before and after `#[serde(default)] g: T` was added.
Older == Struct({"f"}, {}, {}, {})
Newer == Struct({"f", "g"}, {}, {"g"}, {})

\* `#[serde(default, skip_serializing_if = "String::is_empty")] g: String`.
SkipsEmpty == Struct({"f", "g"}, {}, {"g"}, {"g"})

\* `#[serde(default, skip_serializing_if = "Option::is_none")] g: Option<T>`.
SkipsNone == Struct({"f", "g"}, {"g"}, {}, {"g"})

MCTables     == {{Plain}, {Reserving}, {SkipsNone}, {Older, Newer}}
MCSkipsEmpty == {{SkipsEmpty}}

=============================================================================
