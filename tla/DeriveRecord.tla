---------------------------- MODULE DeriveRecord ----------------------------
(***************************************************************************)
(* #[derive(Record)] (walburg-derive): which field of a struct is the id,  *)
(* under which key serde stores it, and which table the records live in.   *)
(*                                                                         *)
(* The macro cannot ask serde: it repeats serde's renaming rules.  When    *)
(* the two disagree every insert of the struct fails, since the id is not  *)
(* found under ID_FIELD (record.rs `to_fields`), but nothing fails at      *)
(* compile time.  Names are sequences of characters; the attributes of a   *)
(* struct and of its fields are what the macro sees of them.               *)
(***************************************************************************)
EXTENDS Integers, Sequences, FiniteSets, SequencesExt

CONSTANTS
  Char,         \* the characters of a name
  LowerUpper,   \* the letters: pairs of a lower case and its upper case
  FieldNames,   \* names of fields, in snake_case
  StructNames,  \* names of structs, in CamelCase
  Rules         \* values of rename_all, unknown ones too

Upper(c) == IF \E p \in LowerUpper : p[1] = c
              THEN (CHOOSE p \in LowerUpper : p[1] = c)[2] ELSE c
Lower(c) == IF \E p \in LowerUpper : p[2] = c
              THEN (CHOOSE p \in LowerUpper : p[2] = c)[1] ELSE c
IsUpper(c) == \E p \in LowerUpper : p[2] = c

Underscore == "_"
Hyphen     == "-"
Id         == <<"i", "d">>

ASSUME LettersAssumption ==
  /\ {Underscore, Hyphen} \subseteq Char /\ LowerUpper \subseteq Char \X Char
  /\ \A p, q \in LowerUpper : (p[1] = q[1] <=> p[2] = q[2]) /\ p[1] # q[2]
  /\ \A p \in LowerUpper, i \in 1 .. 2 : p[i] \notin {Underscore, Hyphen}

ASSUME NamesAssumption ==
  /\ FieldNames \cup StructNames \subseteq Seq(Char) /\ StructNames # {}
  /\ Id \in FieldNames
  /\ \A f \in FieldNames : \A i \in DOMAIN f : ~IsUpper(f[i])
  /\ \A n \in StructNames :
       /\ n # <<>> /\ IsUpper(n[1])
       /\ \A i \in DOMAIN n : n[i] # Underscore

\* The attribute is not there; it has the form rename(serialize = "..", ..).
None     == <<>>
ListForm == <<"(", ")">>
NoRule   == "no rule"
ListRule == "list form"

Known    == {"lowercase", "UPPERCASE", "PascalCase", "camelCase", "snake_case",
             "SCREAMING_SNAKE_CASE", "kebab-case", "SCREAMING-KEBAB-CASE"}

\* marked counts #[record(id)]; rename is None, ListForm or a key.
FieldDecl == [name : FieldNames, marked : 0 .. 1, rename : {None, ListForm, <<"a">>}]

IdDecl(m) == [name |-> Id, marked |-> m, rename |-> None]

\* One field, or one beside a field named id.
FieldLists ==
  {<<f>> : f \in FieldDecl}
    \cup {<<f, IdDecl(m)>> : f \in {g \in FieldDecl : g.name # Id}, m \in 0 .. 1}

\* Structs and tuple structs; neither the name nor the kind meets the fields.
Structs ==
  [name : {CHOOSE n \in StructNames : TRUE}, named : {TRUE}, fields : FieldLists,
   rename_all : Rules \cup {NoRule, ListRule}]
    \cup [name : StructNames, named : BOOLEAN, fields : {<<IdDecl(0)>>}, rename_all : {NoRule}]

VARIABLE declared   \* the struct the compiler has still to see, if any

InitDerive == \E st \in Structs : declared = {st}

Map(Op(_), s) == [i \in DOMAIN s |-> Op(s[i])]

Replace(s, old, new) == [i \in DOMAIN s |-> IF s[i] = old THEN new ELSE s[i]]

-----------------------------------------------------------------------------
(***************************************************************************)
(* The macro.                                                              *)
(***************************************************************************)
\* field.split('_')
Split(field) ==
  LET words[n \in 0 .. Len(field)] ==
        IF n = 0 THEN << <<>> >>
        ELSE IF field[n] = Underscore THEN Append(words[n - 1], <<>>)
        ELSE [words[n - 1] EXCEPT ![Len(words[n - 1])] = Append(@, field[n])]
  IN  words[Len(field)]

Capitalized(s) == [i \in DOMAIN s |-> IF i = 1 THEN Upper(s[i]) ELSE s[i]]
Uncapitalized(s) == [i \in DOMAIN s |-> IF i = 1 THEN Lower(s[i]) ELSE s[i]]

Pascal(field) == FlattenSeq(Map(Capitalized, Split(field)))

\* Mutant: camelCase keeps the first character of PascalCase.
ApplyRenameRulePascal(rule, f) ==
  IF rule = "camelCase" THEN Pascal(f)
  ELSE IF rule = "UPPERCASE" THEN Map(Upper, f) ELSE f

ApplyRenameRule(rule, f) ==
  CASE rule = "lowercase"            -> Map(Lower, f)
    [] rule = "UPPERCASE"            -> Map(Upper, f)
    [] rule = "PascalCase"           -> Pascal(f)
    [] rule = "camelCase"            -> Uncapitalized(Pascal(f))
    [] rule = "snake_case"           -> f
    [] rule = "SCREAMING_SNAKE_CASE" -> Map(Upper, f)
    [] rule = "kebab-case"           -> Replace(f, Underscore, Hyphen)
    [] rule = "SCREAMING-KEBAB-CASE" -> Map(Upper, Replace(f, Underscore, Hyphen))

\* Mutant: no underscore between words.
ToSnakeCaseFlat(name) == Map(Lower, name)

ToSnakeCase(name) ==
  FlattenSeq([i \in DOMAIN name |->
    IF IsUpper(name[i]) /\ i > 1 THEN <<Underscore, Lower(name[i])>> ELSE <<Lower(name[i])>>])

Marked(st) == {i \in DOMAIN st.fields : st.fields[i].marked = 1}

\* The field that is the id: the one marked, or else the one named id.
IdFields(st) ==
  IF Marked(st) # {} THEN Marked(st) ELSE {i \in DOMAIN st.fields : st.fields[i].name = Id}

IdField(st) == st.fields[CHOOSE i \in IdFields(st) : TRUE]

\* expand returns no compile error.
Expands(st) ==
  /\ st.named
  /\ st.rename_all # ListRule
  /\ Cardinality(IdFields(st)) = 1
  /\ IdField(st).rename # ListForm
  /\ IdField(st).rename = None => st.rename_all \in Known \cup {NoRule}

IdKey(st) ==
  LET id == IdField(st)
  IN  IF id.rename # None THEN id.rename
      ELSE IF st.rename_all = NoRule THEN id.name
      ELSE ApplyRenameRule(st.rename_all, id.name)

-----------------------------------------------------------------------------
(***************************************************************************)
(* serde: the key under which a field is stored.  Its rule for PascalCase  *)
(* walks over the name and capitalizes what follows an underscore.         *)
(***************************************************************************)
SerdePascal(f) ==
  FlattenSeq([i \in DOMAIN f |->
    IF f[i] = Underscore THEN <<>>
    ELSE IF i = 1 \/ f[i - 1] = Underscore THEN <<Upper(f[i])>> ELSE <<f[i]>>])

SerdeKey(st, field) ==
  LET f    == field.name
      rule == st.rename_all
  IN  IF field.rename # None THEN field.rename
      ELSE IF rule \in {NoRule, "lowercase", "snake_case"} THEN f
      ELSE IF rule \in {"UPPERCASE", "SCREAMING_SNAKE_CASE"} THEN Map(Upper, f)
      ELSE IF rule = "PascalCase" THEN SerdePascal(f)
      ELSE IF rule = "camelCase" THEN Uncapitalized(SerdePascal(f))
      ELSE IF rule = "kebab-case" THEN Replace(f, Underscore, Hyphen)
      ELSE Replace(Map(Upper, f), Underscore, Hyphen)

\* serde's own derive refuses a rule it does not know.
SerdeExpands(st) == st.rename_all \in Known \cup {NoRule}

-----------------------------------------------------------------------------
\* #[derive(Serialize, Deserialize, Record)] compiles.
Compiles(st) == Expands(st) /\ SerdeExpands(st)

Expand ==
  /\ \E st \in declared : Compiles(st)
  /\ declared' = {}

(***************************************************************************)
(* ID_FIELD is the key serde stores the id under, for every rule, every    *)
(* rename and every shape of snake_case name, underscores at the ends and  *)
(* in a row included; so to_fields finds the id, and get puts it back      *)
(* where the struct expects it (record.rs, on `ID_FIELD`: "after serde     *)
(* renames").                                                              *)
(***************************************************************************)
IsId(st, i) ==
  \/ st.fields[i].marked = 1
  \/ st.fields[i].name = Id /\ \A j \in DOMAIN st.fields : st.fields[j].marked = 0

IdFieldAgrees ==
  \A st \in {x \in declared : Compiles(x)} :
    \E i \in DOMAIN st.fields : IsId(st, i) /\ IdKey(st) = SerdeKey(st, st.fields[i])

(***************************************************************************)
(* Two structs with different CamelCase names do not end up in one table   *)
(* by default (walburg-derive `to_snake_case`).                            *)
(***************************************************************************)
TablesDiffer ==
  \A st \in declared, other \in StructNames :
    ToSnakeCase(st.name) = ToSnakeCase(other) => st.name = other

=============================================================================
