----------------------------- MODULE Categorizer -----------------------------
(***************************************************************************)
(* The rule engine (categorizer/): what a rule may look at (fields.py), the  *)
(* seven kinds of condition (predicate.py, interpreter.py) and the first     *)
(* match in priority order (engine.py).  It is pure: nothing here changes    *)
(* state, and RulesHistory runs it over the rows it has read.                *)
(*                                                                           *)
(* Texts are tokens; that one occurs in another, case folded, is a relation. *)
(***************************************************************************)
EXTENDS Integers

CONSTANTS
  Text,       \* descriptions, comments, IBANs, EDRPOU codes, currencies
  None,       \* NULL in a column, a key raw_payload does not have
  Junk,       \* a value int() refuses
  Occurs      \* pairs <<p, t>> such that p.casefold() is in t.casefold()

ASSUME CategorizerAssumption ==
  /\ None \notin Text \cup Int \cup {Junk}
  /\ Occurs \subseteq Text \X Text

OptText == Text \cup {None}
OptInt  == Int \cup {None}

Raw == [comment : OptText, counter_iban : OptText, counter_edrpou : OptText,
        originalMcc : Int \cup {None, Junk}]

(* RowView, without the id and with rows no user has locked.                  *)
Content == [description : OptText, mcc : OptInt, account_id : OptInt,
            currency : OptText, hold : BOOLEAN, amount_minor : Int, raw_payload : Raw]

(* The fields read from columns that insert_many freezes.                     *)
FrozenField == {"description", "mcc", "account_id", "currency"}

(* RowView.text, int_field and str_field: None for what is absent, and for an *)
(* originalMcc that is no number.                                             *)
FieldOf(f, row) ==
  LET raw == row.raw_payload
  IN CASE f = "description"    -> row.description
       [] f = "comment"        -> raw.comment
       [] f = "counter_iban"   -> raw.counter_iban
       [] f = "counter_edrpou" -> raw.counter_edrpou
       [] f = "mcc"            -> row.mcc
       [] f = "account_id"     -> row.account_id
       [] f = "currency"       -> row.currency
       [] f = "original_mcc"   -> IF raw.originalMcc = Junk THEN None ELSE raw.originalMcc

(* The conditions.                                                            *)
IContains   == [op : {"icontains"}, value : Text,
                field : {"description", "comment", "counter_iban", "counter_edrpou"}]
Equals      == [op : {"equals"}, value : Text,
                field : {"description", "comment", "counter_iban", "counter_edrpou",
                         "currency"}]
InInt       == [op : {"in_int"}, values : SUBSET Int,
                field : {"mcc", "original_mcc", "account_id"}]
InStr       == [op : {"in_str"}, values : SUBSET Text, field : {"currency"}]
AmountSign  == [op : {"amount_sign"}, sign : {"debit", "credit"}]
AmountRange == [op : {"amount_range"}, min_minor : OptInt, max_minor : OptInt]
HoldIs      == [op : {"hold_is"}, value : BOOLEAN]

FieldCondition == IContains \cup Equals \cup InInt \cup InStr
Condition == FieldCondition \cup AmountSign \cup AmountRange \cup HoldIs

(* eval_condition *)
EvalCondition(c, row) ==
  \/ /\ c.op = "icontains"
     /\ FieldOf(c.field, row) # None
     /\ <<c.value, FieldOf(c.field, row)>> \in Occurs
  \/ /\ c.op = "equals"
     /\ FieldOf(c.field, row) # None /\ FieldOf(c.field, row) = c.value
  \/ /\ c.op \in {"in_int", "in_str"}
     /\ FieldOf(c.field, row) # None /\ FieldOf(c.field, row) \in c.values
  \/ /\ c.op = "amount_sign"
     /\ IF c.sign = "debit" THEN row.amount_minor < 0 ELSE row.amount_minor > 0
  \/ /\ c.op = "amount_range"
     /\ c.min_minor = None \/ c.min_minor <= row.amount_minor
     /\ c.max_minor = None \/ row.amount_minor <= c.max_minor
  \/ c.op = "hold_is" /\ row.hold = c.value

(* A predicate is a set of conditions, all of which must hold (D-06).         *)
Matches(predicate, row) == \A c \in predicate : EvalCondition(c, row)

(* compile_rules: rs maps priorities, which are unique, to rules.             *)
Matching(rs, row) == {p \in DOMAIN rs : Matches(rs[p].predicate, row)}

(* categorize_row: the first matching rule in priority order, else NULL.      *)
NoCategory == 0
Verdict(rs, row) ==
  IF Matching(rs, row) = {} THEN NoCategory
  ELSE rs[CHOOSE p \in Matching(rs, row) : \A q \in Matching(rs, row) : p <= q].category

(* Whether a condition reads frozen columns only.                             *)
ReadsFrozen(c) == c.op \in {"icontains", "equals", "in_int", "in_str"} /\ c.field \in FrozenField
=============================================================================
