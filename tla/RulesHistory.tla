---------------------------- MODULE RulesHistory ----------------------------
(***************************************************************************)
(* Running the rules over history (services/rules_history.py, api/           *)
(* routes_rules.py): preview answers a diff and a staleness token, commit    *)
(* recomputes both under row locks and writes if the token is still the      *)
(* same.  Beside it run the tick, which upserts statements into the same     *)
(* rows (TransactionRepo.insert_many), the rule editor (RuleRepo) and the    *)
(* category editor with its delete guard (routes_categories.py).             *)
(*                                                                           *)
(* PostgreSQL runs all of them at READ COMMITTED: a statement sees what is   *)
(* committed when it starts, so a transaction of several statements is       *)
(* several steps.  Row locks are taken one by one.  The rows are those of    *)
(* the first card; none is locked by the user, as no code sets               *)
(* is_user_locked.  The process can die anywhere: that is RollBack of all.   *)
(***************************************************************************)
EXTENDS Categorizer, Sequences, FiniteSets

CONSTANTS
  Client,        \* browsers, each with one request at a time
  Saver,         \* the tick that saves a statement
  Free,          \* no transaction holds the row
  Tx,            \* source_tx_id of the statement items
  Reported,      \* bound: what the bank may say of an item
  Predicate,     \* bound: rule predicates the editor uses
  MaxPriority,   \* bound: rules.priority
  MaxCategory,   \* bound: categories.id
  MaxEdits       \* bound: edits of rules and statements saved

ASSUME RulesHistoryAssumption ==
  /\ Saver \notin Client /\ Free \notin Client \cup {Saver}
  /\ IsFiniteSet(Tx)
  /\ Reported \subseteq Content /\ Predicate \subseteq (SUBSET Condition) \ {{}}
  /\ MaxPriority \in Nat \ {0} /\ MaxCategory \in Nat \ {0} /\ MaxEdits \in Nat

VARIABLES
  categories,  \* categories: a sequence over ids, TRUE while the row exists
  rules,       \* rules: priority |-> category_id and predicate
  rows,        \* transactions: source_tx_id |-> content and category_id
  lockedBy,    \* row locks of the transactions table
  shown,       \* what each client's latest preview was computed from
  op,          \* the request each client is waiting for
  save,        \* the statement the tick is upserting
  doomed,      \* category whose references were counted as 0, before the DELETE
  edits

vars == <<categories, rules, rows, lockedBy, shown, op, save, doomed, edits>>

UnknownRule == 0
Priority   == 1..MaxPriority
Category   == 1..MaxCategory
Existing   == {k \in DOMAIN categories : categories[k]}

(* Variant: the upsert writes the description too. *)
KeptButDescription(old, new) ==
  [old EXCEPT !.hold = new.hold, !.amount_minor = new.amount_minor,
              !.raw_payload = new.raw_payload, !.description = new.description]

(* ON CONFLICT DO UPDATE sets three columns; the others are frozen (D-10).     *)
Kept(old, new) ==
  [old EXCEPT !.hold = new.hold, !.amount_minor = new.amount_minor,
              !.raw_payload = new.raw_payload]

(* What a row can say: its first report, and a later one of the same item.     *)
Stored == {Kept(old, new) : old \in Reported, new \in Reported}

RuleBody == [category : Category, predicate : Predicate]
Row      == [content : Stored, category : Category \cup {NoCategory}]
Item     == [id : Tx, content : Reported]
Empty    == [x \in {} |-> x]     \* no rules, no rows

RuleTable == UNION {[D -> RuleBody] : D \in SUBSET Priority}
TxTable   == UNION {[D -> Row] : D \in SUBSET Tx}

Answer == {"none", "applied", "stale", "failed"}
NoPreview == [given |-> FALSE, rules |-> Empty, rows |-> Empty]
Answered(a) == [pc |-> "idle", answer |-> a, rules |-> Empty, scan |-> <<>>, seen |-> Empty]
NoSave == [busy |-> FALSE, left |-> <<>>, items |-> <<>>]

Init ==
  /\ categories = <<TRUE>>    \* the seed's category the rule names; others are created
  /\ rules \in [{1} -> [category : {1}, predicate : Predicate]]    \* the seed of migration 0004
  /\ rows = Empty
  /\ lockedBy = [t \in Tx |-> Free]
  /\ shown = [c \in Client |-> NoPreview]
  /\ op = [c \in Client |-> Answered("none")]
  /\ save = NoSave
  /\ doomed = NoCategory
  /\ edits = 0

-----------------------------------------------------------------------------
(* The token *)

CategoryOf(rw) == [t \in DOMAIN rw |-> rw[t].category]

(* Variant: the token does not cover the rules. *)
TokenOfRows(rs, rw) == CategoryOf(rw)

(* _compute_token; the hash is taken to be injective. *)
Token(rs, rw) == <<rs, CategoryOf(rw)>>

(* The rows of the diff. *)
Changed(rs, rw) == {t \in DOMAIN rw : Verdict(rs, rw[t].content) # rw[t].category}

-----------------------------------------------------------------------------
(* POST /api/rules/run/preview: two statements, no locks *)

PreviewReadRules(c) ==
  /\ op[c].pc = "idle"
  /\ op' = [op EXCEPT ![c] = [Answered("none") EXCEPT !.pc = "preview", !.rules = rules]]
  /\ UNCHANGED <<categories, rules, rows, lockedBy, shown, save, doomed, edits>>

PreviewReadRows(c) ==
  /\ op[c].pc = "preview"
  /\ shown' = [shown EXCEPT ![c] = [given |-> TRUE, rules |-> op[c].rules, rows |-> rows]]
  /\ op' = [op EXCEPT ![c] = Answered("none")]
  /\ UNCHANGED <<categories, rules, rows, lockedBy, save, doomed, edits>>

-----------------------------------------------------------------------------
(* POST /api/rules/run/commit with the token of the preview shown; nothing     *)
(* keeps a client from sending it twice.                                       *)

CommitReadRules(c) ==
  /\ op[c].pc = "idle" /\ shown[c].given
  /\ op' = [op EXCEPT ![c] = [Answered("none") EXCEPT !.pc = "scan", !.rules = rules]]
  /\ UNCHANGED <<categories, rules, rows, lockedBy, shown, save, doomed, edits>>

Orders(S) == {s \in [1..Cardinality(S) -> S] : \A i, j \in DOMAIN s : i # j => s[i] # s[j]}

(* SELECT ... FOR UPDATE starts: its snapshot fixes which rows it returns; it   *)
(* has no ORDER BY, so it meets them in any order.                             *)
CommitScan(c) ==
  /\ op[c].pc = "scan"
  /\ \E order \in Orders(DOMAIN rows) :
       op' = [op EXCEPT ![c].pc = "lock", ![c].scan = order]
  /\ UNCHANGED <<categories, rules, rows, lockedBy, shown, save, doomed, edits>>

See(seen, t) == [x \in DOMAIN seen \cup {t} |-> IF x = t THEN rows[t] ELSE seen[x]]

(* Variant: the sweep of the commit reads without FOR UPDATE, like the preview. *)
CommitReadRow(c) ==
  /\ op[c].pc = "lock" /\ op[c].scan # <<>>
  /\ op' = [op EXCEPT ![c].scan = Tail(@), ![c].seen = See(@, Head(op[c].scan))]
  /\ UNCHANGED <<categories, rules, rows, lockedBy, shown, save, doomed, edits>>

(* FOR UPDATE waits for the row's holder and returns its latest version.       *)
CommitLockRow(c) ==
  /\ op[c].pc = "lock" /\ op[c].scan # <<>>
  /\ LET t == Head(op[c].scan) IN
       /\ lockedBy[t] = Free
       /\ lockedBy' = [lockedBy EXCEPT ![t] = c]
       /\ op' = [op EXCEPT ![c].scan = Tail(@), ![c].seen = See(@, t)]
  /\ UNCHANGED <<categories, rules, rows, shown, save, doomed, edits>>

Released(x) == [t \in Tx |-> IF lockedBy[t] = x THEN Free ELSE lockedBy[t]]

Fresh(c) == Token(op[c].rules, op[c].seen) = Token(shown[c].rules, shown[c].rows)

NewCategory(c, t) == Verdict(op[c].rules, op[c].seen[t].content)

(* Variant: StaleRunError leaves the transaction open, with its row locks.     *)
CommitStaysOpen(c) ==
  /\ op[c].pc = "lock" /\ op[c].scan = <<>>
  /\ Fresh(c)
  /\ rows' = [t \in DOMAIN rows |->
                IF t \in Changed(op[c].rules, op[c].seen)
                  THEN [rows[t] EXCEPT !.category = NewCategory(c, t)] ELSE rows[t]]
  /\ op' = [op EXCEPT ![c] = Answered("applied")]
  /\ lockedBy' = Released(c)
  /\ UNCHANGED <<categories, rules, shown, save, doomed, edits>>

(* Token compare, apply_categories, commit.  An UPDATE to a category that is   *)
(* gone fails on the foreign key and rolls everything back.                    *)
CommitSweep(c) ==
  /\ op[c].pc = "lock" /\ op[c].scan = <<>>
  /\ LET diff == Changed(op[c].rules, op[c].seen)
         sound == \A t \in diff : NewCategory(c, t) \in Existing \cup {NoCategory}
     IN \/ /\ Fresh(c) /\ sound
           /\ rows' = [t \in DOMAIN rows |->
                         IF t \in diff THEN [rows[t] EXCEPT !.category = NewCategory(c, t)]
                                       ELSE rows[t]]
           /\ op' = [op EXCEPT ![c] = Answered("applied")]
        \/ /\ ~(Fresh(c) /\ sound)
           /\ op' = [op EXCEPT ![c] = Answered(IF Fresh(c) THEN "failed" ELSE "stale")]
           /\ UNCHANGED rows
  /\ lockedBy' = Released(c)
  /\ UNCHANGED <<categories, rules, shown, save, doomed, edits>>

(* Any failure of the transaction: the database, a deadlock, the process dies. *)
RollBack(c) ==
  /\ op[c].pc # "idle"
  /\ op' = [op EXCEPT ![c] = Answered("failed")]
  /\ lockedBy' = Released(c)
  /\ UNCHANGED <<categories, rules, rows, shown, save, doomed, edits>>

-----------------------------------------------------------------------------
(* The tick saves a statement: one INSERT ... ON CONFLICT DO UPDATE over its    *)
(* items, which locks the rows it meets in the order of the items.  A statement *)
(* names an item once.                                                         *)

Statements ==
  {s \in UNION {[1..n -> Item] : n \in 1..Cardinality(Tx)} :
     \A i, j \in DOMAIN s : i # j => s[i].id # s[j].id}

SaveBegin ==
  /\ ~save.busy /\ edits < MaxEdits
  /\ \E s \in Statements : save' = [busy |-> TRUE, left |-> s, items |-> s]
  /\ edits' = edits + 1
  /\ UNCHANGED <<categories, rules, rows, lockedBy, shown, op, doomed>>

SaveItem ==
  /\ save.busy /\ save.left # <<>>
  /\ LET t == Head(save.left).id IN
       \/ /\ t \in DOMAIN rows
          /\ lockedBy[t] = Free
          /\ lockedBy' = [lockedBy EXCEPT ![t] = Saver]
       \/ t \notin DOMAIN rows /\ UNCHANGED lockedBy
  /\ save' = [save EXCEPT !.left = Tail(@)]
  /\ UNCHANGED <<categories, rules, rows, shown, op, doomed, edits>>

Upserted(t) ==
  LET item == save.items[CHOOSE i \in DOMAIN save.items : save.items[i].id = t]
  IN IF t \in DOMAIN rows THEN [rows[t] EXCEPT !.content = Kept(@, item.content)]
     ELSE [content |-> item.content, category |-> NoCategory]

SavedIds == {save.items[i].id : i \in DOMAIN save.items}

(* Variant: the upsert writes every column, category_id = EXCLUDED's NULL too. *)
SaveClobbers ==
  /\ save.busy /\ save.left = <<>>
  /\ rows' = [t \in DOMAIN rows \cup SavedIds |->
                IF t \in SavedIds THEN [Upserted(t) EXCEPT !.category = NoCategory]
                                  ELSE rows[t]]
  /\ lockedBy' = Released(Saver)
  /\ save' = NoSave
  /\ UNCHANGED <<categories, rules, shown, op, doomed, edits>>

(* Commit of the tick's transaction: on conflict the statement's own columns,  *)
(* never category_id.                                                          *)
SaveCommit ==
  /\ save.busy /\ save.left = <<>>
  /\ rows' = [t \in DOMAIN rows \cup SavedIds |->
                IF t \in SavedIds THEN Upserted(t) ELSE rows[t]]
  /\ lockedBy' = Released(Saver)
  /\ save' = NoSave
  /\ UNCHANGED <<categories, rules, shown, op, doomed, edits>>

SaveRollBack ==
  /\ save.busy
  /\ save' = NoSave
  /\ lockedBy' = Released(Saver)
  /\ UNCHANGED <<categories, rules, rows, shown, op, doomed, edits>>

-----------------------------------------------------------------------------
(* PostgreSQL ends a deadlock by rolling one of its transactions back.         *)

Sweeping == {c \in Client : op[c].pc = "lock" /\ op[c].scan # <<>>}

WaitsFor(x) ==   \* the transaction x waits for, or Free
  IF x \in Client THEN IF x \in Sweeping THEN lockedBy[Head(op[x].scan)] ELSE Free
  ELSE IF save.busy /\ save.left # <<>> THEN lockedBy[Head(save.left).id] ELSE Free

Deadlocked(x) ==
  \E S \in SUBSET (Client \cup {Saver}) :
    /\ x \in S
    /\ \A y \in S : WaitsFor(y) \in S /\ \E z \in S : WaitsFor(z) = y

BreakDeadlock ==
  \/ \E c \in Client : Deadlocked(c) /\ RollBack(c)
  \/ Deadlocked(Saver) /\ SaveRollBack

-----------------------------------------------------------------------------
(* The rule editor: each route is one transaction.  priority is UNIQUE; a      *)
(* rule is known here by its priority, where the routes use its id.            *)

EditRules == /\ edits < MaxEdits /\ edits' = edits + 1
             /\ UNCHANGED <<categories, rows, lockedBy, shown, op, save, doomed>>

Put(rs, p, body) == [q \in DOMAIN rs \cup {p} |-> IF q = p THEN body ELSE rs[q]]
Drop(rs, p)      == [q \in DOMAIN rs \ {p} |-> rs[q]]

Body == [category : Existing, predicate : Predicate]    \* the foreign key of rules

CreateRule ==
  /\ \E p \in Priority \ DOMAIN rules, body \in Body : rules' = Put(rules, p, body)
  /\ EditRules

UpdateRule ==
  /\ \E p \in DOMAIN rules, body \in Body :
       \E q \in (Priority \ DOMAIN rules) \cup {p} : rules' = Put(Drop(rules, p), q, body)
  /\ EditRules

DeleteRule ==
  /\ \E p \in DOMAIN rules : rules' = Drop(rules, p)
  /\ EditRules

(* Variant: reorder numbers from 0. *)
ReorderFromZero ==
  /\ \E order \in Orders(DOMAIN rules) :
       rules' = [p \in 0..(Len(order) - 1) |-> rules[order[p + 1]]]
  /\ EditRules

(* Variant: priority is not UNIQUE, the rule that gets a place takes it over. *)
ReorderOverwrites ==
  /\ \E ids \in UNION {[1..n -> DOMAIN rules \cup {UnknownRule}] : n \in Priority} :
       LET named  == {i \in DOMAIN ids : ids[i] # UnknownRule}
           places == {i \in named : \A j \in named : ids[j] = ids[i] => j <= i}
           kept   == DOMAIN rules \ {ids[i] : i \in named}
       IN rules' = [p \in kept \cup places |->
                      IF p \in places THEN rules[ids[p]] ELSE rules[p]]
  /\ EditRules

(* reorder(ordered_ids): every rule named gets the place at which the list       *)
(* names it last; an unknown id leaves its place empty.  A place that belongs   *)
(* to a rule the list leaves out hits uq_rules_priority and rolls back.        *)
ReorderRules ==
  /\ \E ids \in UNION {[1..n -> DOMAIN rules \cup {UnknownRule}] : n \in Priority} :
       LET named  == {i \in DOMAIN ids : ids[i] # UnknownRule}
           places == {i \in named : \A j \in named : ids[j] = ids[i] => j <= i}
           kept   == DOMAIN rules \ {ids[i] : i \in named}
       IN /\ kept \cap named = {}
          /\ rules' = [p \in kept \cup places |->
                         IF p \in places THEN rules[ids[p]] ELSE rules[p]]
  /\ EditRules

-----------------------------------------------------------------------------
(* The category editor.  DELETE counts references in one statement and deletes *)
(* in another; ON DELETE RESTRICT makes the second fail if one has appeared.   *)

Referenced(k) == \/ \E p \in DOMAIN rules : rules[p].category = k
                 \/ \E t \in DOMAIN rows : rows[t].category = k

CreateCategory ==
  /\ Len(categories) < MaxCategory
  /\ categories' = Append(categories, TRUE)
  /\ UNCHANGED <<rules, rows, lockedBy, shown, op, save, doomed, edits>>

CountReferences ==
  /\ doomed = NoCategory
  /\ \E k \in Existing : ~Referenced(k) /\ doomed' = k
  /\ UNCHANGED <<categories, rules, rows, lockedBy, shown, op, save, edits>>

(* Variant: the counts alone decide, there is no foreign key.                  *)
DeleteUnchecked ==
  /\ doomed # NoCategory
  /\ categories' = [categories EXCEPT ![doomed] = FALSE]
  /\ doomed' = NoCategory
  /\ UNCHANGED <<rules, rows, lockedBy, shown, op, save, edits>>

DeleteCategory ==
  /\ doomed # NoCategory
  /\ categories' = [categories EXCEPT ![doomed] = Referenced(doomed)]
  /\ doomed' = NoCategory
  /\ UNCHANGED <<rules, rows, lockedBy, shown, op, save, edits>>

-----------------------------------------------------------------------------
Preview(c) == PreviewReadRules(c) \/ PreviewReadRows(c)
Commit(c)  == CommitScan(c) \/ CommitLockRow(c) \/ CommitSweep(c)
Save       == SaveItem \/ SaveCommit
EditorStep == \/ CreateRule \/ UpdateRule \/ DeleteRule \/ ReorderRules
              \/ CreateCategory \/ CountReferences \/ DeleteCategory

Next == \/ \E c \in Client : \/ Preview(c) \/ CommitReadRules(c) \/ Commit(c) \/ RollBack(c)
        \/ SaveBegin \/ Save \/ SaveRollBack
        \/ EditorStep

Spec == Init /\ [][Next]_vars

(* A transaction that can go on does, and the database finds deadlocks.  A     *)
(* lock that is free again and again is granted.                               *)
Fairness == /\ \A c \in Client : WF_vars(PreviewReadRows(c)) /\ SF_vars(Commit(c))
            /\ SF_vars(Save)
            /\ WF_vars(BreakDeadlock)

FairSpec == Spec /\ Fairness

-----------------------------------------------------------------------------
(* Properties *)

(* The tables, the locks and what clients and transactions hold in memory.     *)
TypeOK ==
  /\ categories \in Seq(BOOLEAN) /\ Len(categories) <= MaxCategory
  /\ rules \in RuleTable
  /\ rows \in TxTable
  /\ lockedBy \in [Tx -> Client \cup {Saver, Free}]
  /\ shown \in [Client -> [given : BOOLEAN, rules : RuleTable, rows : TxTable]]
  /\ op \in [Client -> [pc : {"idle", "preview", "scan", "lock"}, answer : Answer,
                        rules : RuleTable, scan : Seq(Tx), seen : TxTable]]
  /\ save \in [busy : BOOLEAN, left : Seq(Item), items : Seq(Item)]
  /\ doomed \in Category \cup {NoCategory}
  /\ edits \in Nat

(* Deleting categories beside rule edits and commits leaves no rule and no     *)
(* transaction that names a category which is gone.                            *)
NoDanglingCategory ==
  /\ \A p \in DOMAIN rules : rules[p].category \in Existing
  /\ \A t \in DOMAIN rows : rows[t].category \in Existing \cup {NoCategory}

Applies(c) == op[c].pc = "lock" /\ op'[c].pc = "idle" /\ op'[c].answer = "applied"

(* A commit that answers "applied" leaves every row it swept with the category *)
(* the rules it read give to what the row says now: nothing slips in between   *)
(* the read and the write.                                                     *)
CommitConverges ==
  [][\A c \in Client : Applies(c) =>
       \A t \in DOMAIN op[c].seen :
         rows'[t].category = Verdict(op[c].rules, rows'[t].content)]_vars

(* The handshake: an applied commit overwrites only categories its preview     *)
(* showed, on the rows its preview showed, and writes what the preview showed  *)
(* wherever the row still says what it said then.                              *)
CommitFollowsPreview ==
  [][\A c \in Client : Applies(c) =>
       /\ DOMAIN op[c].seen = DOMAIN shown[c].rows
       /\ \A t \in DOMAIN shown[c].rows :
            /\ rows[t].category = shown[c].rows[t].category
            /\ rows[t].content = shown[c].rows[t].content =>
                 rows'[t].category = Verdict(shown[c].rules, shown[c].rows[t].content)]_vars

Frozen(rs) == \A p \in DOMAIN rs : \A k \in rs[p].predicate : ReadsFrozen(k)

(* Where the token is enough after all: as long as no rule reads hold, the     *)
(* amount or raw_payload, what a commit writes is what its preview showed,     *)
(* because an upsert leaves the other columns as they were.                    *)
FrozenRulesWriteTheShownDiff ==
  [][\A c \in Client : Applies(c) /\ Frozen(shown[c].rules) =>
       \A t \in DOMAIN shown[c].rows :
         rows'[t].category = Verdict(shown[c].rules, shown[c].rows[t].content)]_vars

(* A row's category as the table has it, also of a row that is not there.      *)
CategoryNow(t) == IF t \in DOMAIN rows THEN rows[t].category ELSE NoCategory

(* A category comes, changes and goes in applied commits only.  A statement     *)
(* that is saved never takes one away, and never gives one either: what the    *)
(* tick imports arrives without a category and stays so until someone commits  *)
(* a run over history (04-CONTEXT.md:44 promises the contrary).                *)
OnlyCommitsCategorize ==
  [][(\E t \in Tx : CategoryNow(t)' # CategoryNow(t))
       => \E c \in Client : Applies(c)]_vars

(* Putting the rules in another order, with whatever list of ids, changes their *)
(* priorities and nothing else: none is lost, doubled or given another's body. *)
ReorderRenumbersOnly ==
  [][ReorderRules =>
       \E f \in [DOMAIN rules -> DOMAIN rules'] :
         /\ \A p, q \in DOMAIN rules : p # q => f[p] # f[q]
         /\ \A q \in DOMAIN rules' : \E p \in DOMAIN rules : f[p] = q
         /\ \A p \in DOMAIN rules : rules'[f[p]] = rules[p]]_vars

(* Every request and every save ends, row locks and deadlocks notwithstanding. *)
EveryTransactionEnds ==
  /\ \A c \in Client : op[c].pc # "idle" ~> op[c].pc = "idle"
  /\ save.busy ~> ~save.busy

(* transaction_repo.py:206: "any state change it made before we locked flips   *)
(* the recomputed token": a commit writes the diff its preview showed.         *)
CommitWritesTheShownDiff ==
  [][\A c \in Client : Applies(c) =>
       \A t \in DOMAIN shown[c].rows :
         rows'[t].category = Verdict(shown[c].rules, shown[c].rows[t].content)]_vars
=============================================================================
