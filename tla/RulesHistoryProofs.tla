------------------------- MODULE RulesHistoryProofs -------------------------
(* Proofs about RulesHistory for any number of clients, rows, rules,           *)
(* categories and edits: the two-phase commit of a run over history writes     *)
(* what the rules say of the rows as they are, and never past its preview.     *)
EXTENDS RulesHistory, Extrema

USE RulesHistoryAssumption

Request == [pc : {"idle", "preview", "scan", "lock"}, answer : Answer,
            rules : RuleTable, scan : Seq(Tx), seen : TxTable]
Shown   == [given : BOOLEAN, rules : RuleTable, rows : TxTable]
Saving  == [busy : BOOLEAN, left : Seq(Item), items : Seq(Item)]

(* What a sweep still has to lock exists; what it has seen is as it saw it, and *)
(* it holds the lock.                                                          *)
Sweeps(c, o) ==
  /\ \A i \in DOMAIN o.scan : o.scan[i] \in DOMAIN rows
  /\ \A t \in DOMAIN o.seen :
       t \in DOMAIN rows /\ rows[t] = o.seen[t] /\ lockedBy[t] = c

(* An item of a statement is still to come, is new, or its row is locked.       *)
Saves(s) ==
  \A i \in DOMAIN s.items :
    \/ \E k \in DOMAIN s.left : s.left[k] = s.items[i]
    \/ s.items[i].id \notin DOMAIN rows
    \/ lockedBy[s.items[i].id] = Saver

IInv == /\ TypeOK
        /\ NoDanglingCategory
        /\ \A c \in Client : Sweeps(c, op[c])
        /\ Saves(save)

-----------------------------------------------------------------------------
(* A table of rules is a function over some of the priorities.                 *)
LEMMA RuleTables ==
  /\ \A rs \in RuleTable : DOMAIN rs \subseteq Priority /\ rs \in [DOMAIN rs -> RuleBody]
  /\ \A rs : DOMAIN rs \subseteq Priority /\ rs \in [DOMAIN rs -> RuleBody] => rs \in RuleTable
  BY DEF RuleTable

(* A table of transactions is a function over some of the items.               *)
LEMMA TxTables ==
  /\ \A rw \in TxTable : DOMAIN rw \subseteq Tx /\ rw \in [DOMAIN rw -> Row]
  /\ \A rw : DOMAIN rw \subseteq Tx /\ rw \in [DOMAIN rw -> Row] => rw \in TxTable
  BY DEF TxTable

(* Nothing is a table. *)
LEMMA EmptyTables == Empty \in RuleTable /\ Empty \in TxTable /\ DOMAIN Empty = {}
<1>1. DOMAIN Empty = {}  BY DEF Empty
<1>2. Empty \in [{} -> RuleBody] /\ Empty \in [{} -> Row]  BY DEF Empty
<1> QED  BY <1>1, <1>2, RuleTables, TxTables

(* A request that has been answered, and a tick that saves nothing.            *)
LEMMA Quiet ==
  /\ \A a \in Answer : Answered(a) \in Request
  /\ \A a, c : Sweeps(c, Answered(a))
  /\ NoSave \in Saving /\ Saves(NoSave)
  BY EmptyTables DEF Answered, Request, Sweeps, NoSave, Saving, Saves

(* The categories that exist are among the first MaxCategory ids.              *)
LEMMA ExistingIds == TypeOK => Existing \subseteq Category /\ NoCategory \notin Category
  BY DEF TypeOK, Existing, Category, NoCategory

(* The migrated database satisfies the invariant. *)
LEMMA InitIInv == Init => IInv
<1> SUFFICES ASSUME Init PROVE IInv  OBVIOUS
<1>1. categories \in Seq(BOOLEAN) /\ Len(categories) = 1 /\ 1 \in Existing
  <2>1. categories = <<TRUE>>  BY DEF Init
  <2>2. DOMAIN categories = 1..1 /\ categories[1] = TRUE  BY <2>1
  <2>3. 1 \in DOMAIN categories /\ categories[1]  BY <2>2
  <2>4. categories \in Seq(BOOLEAN) /\ Len(categories) = 1  BY <2>1
  <2> QED  BY <2>3, <2>4 DEF Existing
<1>2. rules \in RuleTable /\ \A p \in DOMAIN rules : rules[p].category = 1
  <2>1. {1} \subseteq Priority /\ 1 \in Category  BY DEF Priority, Category
  <2>2. rules \in [{1} -> [category : {1}, predicate : Predicate]]  BY DEF Init
  <2>3. DOMAIN rules = {1} /\ rules \in [{1} -> RuleBody]  BY <2>1, <2>2 DEF RuleBody
  <2> QED  BY <2>1, <2>2, <2>3, RuleTables
<1>3. TypeOK
  <2>1. op \in [Client -> Request]  BY Quiet DEF Init, Answer
  <2>2. shown \in [Client -> Shown]  BY EmptyTables DEF Init, NoPreview, Shown
  <2>3. save \in Saving  BY Quiet DEF Init
  <2>4. Len(categories) <= MaxCategory  BY <1>1
  <2> QED  BY <1>1, <1>2, <2>1, <2>2, <2>3, <2>4, EmptyTables
           DEF Init, TypeOK, Request, Shown, Saving
<1>4. NoDanglingCategory  BY <1>1, <1>2, EmptyTables DEF Init, NoDanglingCategory
<1>5. (\A c \in Client : Sweeps(c, op[c])) /\ Saves(save)  BY Quiet DEF Init
<1> QED  BY <1>3, <1>4, <1>5 DEF IInv

(* A row can say what the bank reports, and an upsert of another report keeps   *)
(* it among what a row can say, with its frozen columns as they were.          *)
LEMMA StoredTables ==
  /\ Reported \subseteq Stored /\ Stored \subseteq Content
  /\ \A s \in Stored, new \in Reported :
       /\ Kept(s, new) \in Stored
       /\ Kept(s, new).description = s.description /\ Kept(s, new).mcc = s.mcc
       /\ Kept(s, new).account_id = s.account_id /\ Kept(s, new).currency = s.currency
<1>1. \A a \in Content, b \in Content : Kept(a, b) \in Content /\ Kept(a, a) = a
  BY DEF Kept, Content
<1>2. Reported \subseteq Stored /\ Stored \subseteq Content  BY <1>1 DEF Stored
<1>3. ASSUME NEW s \in Stored, NEW new \in Reported
      PROVE  /\ Kept(s, new) \in Stored
             /\ Kept(s, new).description = s.description /\ Kept(s, new).mcc = s.mcc
             /\ Kept(s, new).account_id = s.account_id /\ Kept(s, new).currency = s.currency
  <2>1. PICK a \in Reported, b \in Reported : s = Kept(a, b)  BY DEF Stored
  <2>2. a \in Content /\ b \in Content /\ new \in Content  OBVIOUS
  <2>3. Kept(s, new) = Kept(a, new)  BY <2>1, <2>2 DEF Kept, Content
  <2>4. s \in Content  BY <1>2
  <2>5. Kept(s, new) \in Stored  BY <2>1, <2>3 DEF Stored
  <2>6. /\ Kept(s, new).description = s.description /\ Kept(s, new).mcc = s.mcc
        /\ Kept(s, new).account_id = s.account_id /\ Kept(s, new).currency = s.currency
    BY <2>2, <2>4 DEF Kept, Content
  <2> QED  BY <2>5, <2>6
<1> QED  BY <1>2, <1>3

(* The engine's answer is the category of the matching rule with the lowest     *)
(* priority, and NULL exactly when no rule matches.                            *)
THEOREM FirstMatchWins ==
  ASSUME NEW rs \in RuleTable, NEW row
  PROVE  /\ Matching(rs, row) = {} <=> Verdict(rs, row) = NoCategory
         /\ Matching(rs, row) # {} =>
              \E p \in Matching(rs, row) : /\ Verdict(rs, row) = rs[p].category
                                           /\ \A q \in Matching(rs, row) : p <= q
<1> DEFINE M == Matching(rs, row)
<1>1. M \in SUBSET Int /\ M \subseteq DOMAIN rs /\ \A p \in M : 1 <= p
  BY RuleTables DEF Matching, Priority
<1>2. M # {} => \E m \in M : \A q \in M : m <= q
  <2> HIDE DEF M
  <2> QED  BY <1>1, Least
<1>3. M # {} => \E p \in M : Verdict(rs, row) = rs[p].category /\ \A q \in M : p <= q
  BY <1>2 DEF Verdict
<1>4. \A p \in M : rs[p].category # NoCategory
  <2>1. \A p \in M : rs[p] \in RuleBody  BY <1>1, RuleTables
  <2> QED  BY <2>1 DEF RuleBody, Category, NoCategory
<1>5. M = {} => Verdict(rs, row) = NoCategory  BY DEF Verdict
<1> QED  BY <1>3, <1>4, <1>5

-----------------------------------------------------------------------------
(* One request moves on; the tables stay, and so do the locks of the others.   *)
LEMMA RequestMoves ==
  ASSUME IInv, NEW c \in Client, NEW o \in Request, op' = [op EXCEPT ![c] = o],
         UNCHANGED <<categories, rules, rows, save, doomed, edits>>,
         shown' \in [Client -> Shown],
         lockedBy' \in [Tx -> Client \cup {Saver, Free}],
         \A t \in Tx : lockedBy[t] \in (Client \cup {Saver}) \ {c} => lockedBy'[t] = lockedBy[t],
         \A i \in DOMAIN o.scan : o.scan[i] \in DOMAIN rows,
         \A t \in DOMAIN o.seen :
           t \in DOMAIN rows /\ rows[t] = o.seen[t] /\ lockedBy'[t] = c
  PROVE  IInv'
<1>1. op \in [Client -> Request] /\ rows \in TxTable /\ DOMAIN rows \subseteq Tx
  BY TxTables DEF IInv, TypeOK, Request
<1>2. TypeOK'  BY <1>1 DEF IInv, TypeOK, Request, Shown
<1>3. NoDanglingCategory'  BY DEF IInv, NoDanglingCategory, Existing
<1>4. ASSUME NEW d \in Client PROVE Sweeps(d, op[d])'
  <2>1. CASE d = c  BY <2>1, <1>1 DEF Sweeps
  <2>2. CASE d # c
    <3>1. op'[d] = op[d]  BY <2>2, <1>1
    <3> QED  BY <3>1, <2>2, <1>1 DEF IInv, Sweeps
  <2> QED  BY <2>1, <2>2
<1>5. Saves(save)'
  <2> SUFFICES ASSUME NEW i \in DOMAIN save.items,
                      save.items[i].id \in DOMAIN rows, lockedBy[save.items[i].id] = Saver
               PROVE  lockedBy'[save.items[i].id] = Saver
    BY DEF IInv, Saves
  <2> QED  BY <1>1
<1> QED  BY <1>2, <1>3, <1>4, <1>5 DEF IInv

(* Releasing the locks of one holder keeps those of the others.                *)
LEMMA ReleasedKeeps ==
  ASSUME IInv, NEW x \in Client \cup {Saver}
  PROVE  /\ Released(x) \in [Tx -> Client \cup {Saver, Free}]
         /\ \A t \in Tx : lockedBy[t] # x => Released(x)[t] = lockedBy[t]
  BY DEF IInv, TypeOK, Released

(* A preview, and a commit up to its sweep, preserve the invariant, and so does *)
(* the rollback of either.                                                     *)
LEMMA RequestStep ==
  ASSUME IInv, NEW c \in Client,
         \/ Preview(c) \/ CommitReadRules(c) \/ CommitScan(c) \/ CommitLockRow(c) \/ RollBack(c)
  PROVE  IInv'
<1>1. /\ op \in [Client -> Request] /\ op[c] \in Request /\ shown \in [Client -> Shown]
      /\ rules \in RuleTable /\ rows \in TxTable /\ DOMAIN rows \subseteq Tx
      /\ lockedBy \in [Tx -> Client \cup {Saver, Free}]
  BY TxTables DEF IInv, TypeOK, Request, Shown
<1>2. Sweeps(c, op[c])  BY DEF IInv
<1>3. CASE PreviewReadRules(c) \/ CommitReadRules(c)
  <2> DEFINE o(p) == [Answered("none") EXCEPT !.pc = p, !.rules = rules]
  <2>1. ASSUME NEW p \in {"preview", "scan"}
        PROVE  o(p) \in Request /\ o(p).scan = <<>> /\ DOMAIN o(p).seen = {}
    <3>1. Answered("none") \in Request /\ Answered("none").scan = <<>>
          /\ Answered("none").seen = Empty
      BY Quiet DEF Answer, Answered
    <3> QED  BY <3>1, <1>1, EmptyTables DEF Request
  <2>2. op' = [op EXCEPT ![c] = o("preview")] \/ op' = [op EXCEPT ![c] = o("scan")]
    BY <1>3 DEF PreviewReadRules, CommitReadRules
  <2>3. UNCHANGED <<categories, rules, rows, lockedBy, shown, save, doomed, edits>>
    BY <1>3 DEF PreviewReadRules, CommitReadRules
  <2> HIDE DEF o
  <2> QED  BY <2>1, <2>2, <2>3, <1>1, RequestMoves
<1>4. CASE PreviewReadRows(c)
  <2>1. shown' \in [Client -> Shown]  BY <1>1, <1>4 DEF PreviewReadRows, Shown, Request
  <2>2. Answered("none") \in Request  BY Quiet DEF Answer
  <2>3. Answered("none").scan = <<>> /\ DOMAIN Answered("none").seen = {}
    BY EmptyTables DEF Answered
  <2>4. /\ op' = [op EXCEPT ![c] = Answered("none")]
        /\ UNCHANGED <<categories, rules, rows, lockedBy, save, doomed, edits>>
    BY <1>4 DEF PreviewReadRows
  <2>5. DOMAIN Answered("none").scan = {}  BY <2>3
  <2> QED  BY <2>1, <2>2, <2>3, <2>4, <2>5, <1>1, RequestMoves
<1>5. CASE CommitScan(c)
  <2>1. PICK order \in Orders(DOMAIN rows) :
          op' = [op EXCEPT ![c].pc = "lock", ![c].scan = order]
    BY <1>5 DEF CommitScan
  <2> DEFINE o == [op[c] EXCEPT !.pc = "lock", !.scan = order]
  <2>2. Cardinality(DOMAIN rows) \in Nat  BY <1>1, FS_Subset, FS_CardinalityType
  <2>3. order \in [1..Cardinality(DOMAIN rows) -> DOMAIN rows]  BY <2>1 DEF Orders
  <2>4. order \in Seq(Tx) /\ \A i \in DOMAIN order : order[i] \in DOMAIN rows
    BY <2>2, <2>3, <1>1
  <2>5. o \in Request /\ o.scan = order /\ o.seen = op[c].seen  BY <2>4, <1>1 DEF Request
  <2>6. op' = [op EXCEPT ![c] = o]  BY <2>1, <1>1 DEF Request
  <2> HIDE DEF o
  <2> QED  BY <2>4, <2>5, <2>6, <1>1, <1>2, <1>5, RequestMoves DEF CommitScan, Sweeps
<1>6. CASE CommitLockRow(c)
  <2> DEFINE t == Head(op[c].scan)
             o == [op[c] EXCEPT !.scan = Tail(@), !.seen = See(@, t)]
  <2>1. op[c].scan \in Seq(Tx) /\ op[c].scan # <<>> /\ op[c].seen \in TxTable
    BY <1>1, <1>6 DEF CommitLockRow, Request
  <2>2. t \in DOMAIN rows  BY <2>1, <1>2 DEF Sweeps
  <2>3. /\ Tail(op[c].scan) \in Seq(Tx)
        /\ \A i \in DOMAIN Tail(op[c].scan) : Tail(op[c].scan)[i] \in DOMAIN rows
    BY <2>1, <1>2 DEF Sweeps
  <2>4. /\ DOMAIN See(op[c].seen, t) = DOMAIN op[c].seen \cup {t}
        /\ \A x \in DOMAIN See(op[c].seen, t) :
             x \in DOMAIN rows /\ See(op[c].seen, t)[x] = rows[x]
    BY <2>2, <1>2 DEF See, Sweeps
  <2>5. See(op[c].seen, t) \in TxTable
    <3>1. rows \in [DOMAIN rows -> Row]  BY <1>1, TxTables
    <3>2. See(op[c].seen, t) \in [DOMAIN See(op[c].seen, t) -> Row]
      BY <3>1, <2>4 DEF See
    <3> QED  BY <3>2, <2>4, <1>1, TxTables
  <2>6. o \in Request /\ o.scan = Tail(op[c].scan) /\ o.seen = See(op[c].seen, t)
    BY <2>3, <2>5, <1>1 DEF Request
  <2>7. op' = [op EXCEPT ![c] = o]  BY <1>6, <1>1 DEF CommitLockRow, Request
  <2>8. lockedBy[t] = Free /\ lockedBy' = [lockedBy EXCEPT ![t] = c]
    BY <1>6 DEF CommitLockRow
  <2>9. /\ lockedBy' \in [Tx -> Client \cup {Saver, Free}]
        /\ \A x \in Tx : x # t => lockedBy'[x] = lockedBy[x]
        /\ lockedBy'[t] = c
    BY <2>8, <2>2, <1>1
  <2>10. \A x \in DOMAIN op[c].seen \cup {t} : lockedBy'[x] = c
    BY <2>9, <1>2, <1>1 DEF Sweeps
  <2>11. UNCHANGED <<categories, rules, rows, shown, save, doomed, edits>>
    BY <1>6 DEF CommitLockRow
  <2> HIDE DEF o, t
  <2> QED  BY <2>3, <2>4, <2>6, <2>7, <2>8, <2>9, <2>10, <2>11, <1>1, RequestMoves
<1>7. CASE RollBack(c)
  <2>1. Answered("failed") \in Request  BY Quiet DEF Answer
  <2>2. Answered("failed").scan = <<>> /\ DOMAIN Answered("failed").seen = {}
    BY EmptyTables DEF Answered
  <2>3. /\ op' = [op EXCEPT ![c] = Answered("failed")] /\ lockedBy' = Released(c)
        /\ UNCHANGED <<categories, rules, rows, shown, save, doomed, edits>>
    BY <1>7 DEF RollBack
  <2>4. DOMAIN Answered("failed").scan = {}  BY <2>2
  <2>5. \A t \in Tx : lockedBy[t] \in (Client \cup {Saver}) \ {c} => lockedBy'[t] = lockedBy[t]
    BY <2>3, ReleasedKeeps
  <2> QED  BY <2>1, <2>2, <2>3, <2>4, <2>5, <1>1, ReleasedKeeps, RequestMoves
<1> QED  BY <1>3, <1>4, <1>5, <1>6, <1>7 DEF Preview

(* A sweep writes only rows it has locked, and as it read them.                *)
LEMMA SweepStep ==
  ASSUME IInv, NEW c \in Client, CommitSweep(c) PROVE IInv'
<1> DEFINE diff == Changed(op[c].rules, op[c].seen)
           a == op'[c].answer
<1>1. /\ op \in [Client -> Request] /\ op[c] \in Request /\ rows \in TxTable
      /\ DOMAIN rows \subseteq Tx /\ rows \in [DOMAIN rows -> Row]
      /\ lockedBy \in [Tx -> Client \cup {Saver, Free}]
  BY TxTables DEF IInv, TypeOK, Request
<1>2. PICK b \in Answer : op' = [op EXCEPT ![c] = Answered(b)]
  <2>1. "applied" \in Answer /\ "failed" \in Answer /\ "stale" \in Answer  BY DEF Answer
  <2>2. (IF Fresh(c) THEN "failed" ELSE "stale") \in Answer  BY <2>1
  <2>3. \/ op' = [op EXCEPT ![c] = Answered("applied")]
        \/ op' = [op EXCEPT ![c] = Answered(IF Fresh(c) THEN "failed" ELSE "stale")]
    BY DEF CommitSweep
  <2> QED  BY <2>1, <2>2, <2>3
<1>3. /\ lockedBy' = Released(c)
      /\ UNCHANGED <<categories, rules, shown, save, doomed, edits>>
  BY DEF CommitSweep
<1>4. CASE UNCHANGED rows
  <2>1. Answered(b).scan = <<>> /\ DOMAIN Answered(b).seen = {}  BY EmptyTables DEF Answered
  <2>2. DOMAIN Answered(b).scan = {}  BY <2>1
  <2>3. \A t \in Tx : lockedBy[t] \in (Client \cup {Saver}) \ {c} => lockedBy'[t] = lockedBy[t]
    BY <1>3, ReleasedKeeps
  <2>4. shown' \in [Client -> Shown]  BY <1>3 DEF IInv, TypeOK, Shown
  <2>5. Answered(b) \in Request  BY Quiet
  <2> QED  BY <1>2, <1>3, <1>4, <2>1, <2>2, <2>3, <2>4, <2>5, ReleasedKeeps, RequestMoves
<1>5. CASE rows' # rows
  <2>1. /\ rows' = [t \in DOMAIN rows |->
                      IF t \in diff THEN [rows[t] EXCEPT !.category = NewCategory(c, t)]
                                    ELSE rows[t]]
        /\ \A t \in diff : NewCategory(c, t) \in Existing \cup {NoCategory}
    BY <1>5 DEF CommitSweep
  <2>2. diff \subseteq DOMAIN op[c].seen  BY DEF Changed
  <2>3. Existing \cup {NoCategory} \subseteq Category \cup {NoCategory}
    BY ExistingIds DEF IInv
  <2>4. DOMAIN rows' = DOMAIN rows  BY <2>1
  <2>5. ASSUME NEW t \in DOMAIN rows
        PROVE  /\ rows'[t] \in Row
               /\ rows'[t].category \in Existing \cup {NoCategory}
               /\ t \notin DOMAIN op[c].seen => rows'[t] = rows[t]
    <3>1. rows[t] \in Row /\ rows[t].category \in Existing \cup {NoCategory}
      BY <1>1 DEF IInv, NoDanglingCategory
    <3>2. CASE t \in diff
      <4>1. rows'[t] = [rows[t] EXCEPT !.category = NewCategory(c, t)]  BY <3>2, <2>1
      <4>2. NewCategory(c, t) \in Existing \cup {NoCategory}  BY <3>2, <2>1
      <4> QED  BY <4>1, <4>2, <3>1, <3>2, <2>2, <2>3 DEF Row
    <3>3. CASE t \notin diff  BY <3>1, <3>3, <2>1
    <3> QED  BY <3>2, <3>3
  <2>6. rows' \in TxTable
    <3>1. rows' \in [DOMAIN rows' -> Row]  BY <2>1, <2>4, <2>5
    <3> QED  BY <3>1, <2>4, <1>1, TxTables
  <2>7. TypeOK'
    <3>1. op' \in [Client -> Request]  BY <1>1, <1>2, Quiet
    <3> QED  BY <3>1, <2>6, <1>3, ReleasedKeeps DEF IInv, TypeOK, Request
  <2>8. NoDanglingCategory'
    BY <1>3, <2>4, <2>5 DEF IInv, NoDanglingCategory, Existing
  <2>9. ASSUME NEW d \in Client PROVE Sweeps(d, op[d])'
    <3>1. CASE d = c
      <4>1. op'[d] = Answered(b)  BY <3>1, <1>1, <1>2
      <4>2. DOMAIN op'[d].seen = {} /\ op'[d].scan = <<>>  BY <4>1, EmptyTables DEF Answered
      <4>3. DOMAIN op'[d].scan = {}  BY <4>2
      <4> QED  BY <4>2, <4>3 DEF Sweeps
    <3>2. CASE d # c
      <4>1. op'[d] = op[d] /\ Sweeps(d, op[d])  BY <3>2, <1>1, <1>2 DEF IInv
      <4>2. \A t \in DOMAIN op[d].seen : t \notin DOMAIN op[c].seen
        BY <4>1, <3>2 DEF IInv, Sweeps
      <4>3. \A t \in DOMAIN op[d].seen : rows'[t] = rows[t] /\ lockedBy'[t] = d
        BY <4>1, <4>2, <2>5, <3>2, <1>1, <1>3, ReleasedKeeps DEF Sweeps
      <4> QED  BY <4>1, <4>3, <2>4 DEF Sweeps
    <3> QED  BY <3>1, <3>2
  <2>10. Saves(save)'
    <3>1. \A t \in DOMAIN rows : lockedBy[t] = Saver => lockedBy'[t] = Saver
      BY <1>1, <1>3, ReleasedKeeps
    <3> QED  BY <3>1, <2>4, <1>3 DEF IInv, Saves
  <2> QED  BY <2>7, <2>8, <2>9, <2>10 DEF IInv
<1> QED  BY <1>4, <1>5

(* The statement moves on and the tables stay, with the locks of the sweeps.   *)
LEMMA SaveMoves ==
  ASSUME IInv, save' \in Saving, Saves(save)',
         UNCHANGED <<categories, rules, rows, shown, op, doomed>>, edits' \in Nat,
         lockedBy' \in [Tx -> Client \cup {Saver, Free}],
         \A t \in Tx : lockedBy[t] \in Client => lockedBy'[t] = lockedBy[t]
  PROVE  IInv'
<1>1. DOMAIN rows \subseteq Tx  BY TxTables DEF IInv, TypeOK
<1>2. TypeOK'  BY DEF IInv, TypeOK, Saving
<1>3. NoDanglingCategory'  BY DEF IInv, NoDanglingCategory, Existing
<1>4. ASSUME NEW c \in Client PROVE Sweeps(c, op[c])'  BY <1>1 DEF IInv, Sweeps
<1> QED  BY <1>2, <1>3, <1>4 DEF IInv

(* An item that is not the head is an item of the tail.                        *)
LEMMA TailAt ==
  ASSUME NEW S, NEW s \in Seq(S), s # <<>>, NEW k \in DOMAIN s, k # 1
  PROVE  k - 1 \in DOMAIN Tail(s) /\ Tail(s)[k - 1] = s[k]
OBVIOUS

(* Beginning, going on with and rolling back a statement preserve the invariant. *)
LEMMA StatementStep ==
  ASSUME IInv, SaveBegin \/ SaveItem \/ SaveRollBack PROVE IInv'
<1>1. /\ save \in Saving /\ lockedBy \in [Tx -> Client \cup {Saver, Free}] /\ edits \in Nat
      /\ DOMAIN rows \subseteq Tx
  BY TxTables DEF IInv, TypeOK, Saving
<1>2. CASE SaveBegin
  <2>1. PICK s \in Statements : save' = [busy |-> TRUE, left |-> s, items |-> s]
    BY <1>2 DEF SaveBegin
  <2>2. Cardinality(Tx) \in Nat  BY FS_CardinalityType
  <2>3. s \in Seq(Item)  BY <2>1, <2>2 DEF Statements
  <2>4. save' \in Saving /\ Saves(save)'  BY <2>1, <2>3 DEF Saving, Saves
  <2>5. edits' \in Nat  BY <1>1, <1>2 DEF SaveBegin
  <2>6. UNCHANGED <<categories, rules, rows, lockedBy, shown, op, doomed>>
    BY <1>2 DEF SaveBegin
  <2> QED  BY <2>4, <2>5, <2>6, <1>1, SaveMoves
<1>3. CASE SaveItem
  <2> DEFINE t == Head(save.left).id
  <2>1. save.left \in Seq(Item) /\ save.left # <<>> /\ save' = [save EXCEPT !.left = Tail(@)]
    BY <1>1, <1>3 DEF SaveItem, Saving
  <2>2. /\ save' \in Saving /\ save'.left = Tail(save.left) /\ save'.items = save.items
    <3>1. Tail(save.left) \in Seq(Item)  BY <2>1
    <3> QED  BY <2>1, <3>1, <1>1 DEF Saving
  <2>3. \/ t \in DOMAIN rows /\ lockedBy[t] = Free /\ lockedBy' = [lockedBy EXCEPT ![t] = Saver]
        \/ t \notin DOMAIN rows /\ lockedBy' = lockedBy
    BY <1>3 DEF SaveItem
  <2>4. /\ lockedBy' \in [Tx -> Client \cup {Saver, Free}]
        /\ \A x \in Tx : lockedBy[x] # Free => lockedBy'[x] = lockedBy[x]
        /\ t \notin DOMAIN rows \/ lockedBy'[t] = Saver
    BY <2>3, <1>1
  <2>5. UNCHANGED <<categories, rules, rows, shown, op, doomed, edits>>  BY <1>3 DEF SaveItem
  <2>6. Saves(save)'
    <3> SUFFICES ASSUME NEW i \in DOMAIN save.items
                 PROVE  \/ \E k \in DOMAIN Tail(save.left) : Tail(save.left)[k] = save.items[i]
                        \/ save.items[i].id \notin DOMAIN rows
                        \/ lockedBy'[save.items[i].id] = Saver
      BY <2>2, <2>5 DEF Saves
    <3>1. CASE \E k \in DOMAIN save.left : save.left[k] = save.items[i]
      <4>1. PICK k \in DOMAIN save.left : save.left[k] = save.items[i]  BY <3>1
      <4>2. CASE k = 1
        <5>1. t = save.items[i].id  BY <4>1, <4>2, <2>1
        <5> QED  BY <5>1, <2>4
      <4>3. CASE k # 1
        <5>1. k - 1 \in DOMAIN Tail(save.left) /\ Tail(save.left)[k - 1] = save.left[k]
          BY <2>1, <4>1, <4>3, TailAt
        <5> QED  BY <5>1, <4>1
      <4> QED  BY <4>2, <4>3
    <3>2. CASE lockedBy[save.items[i].id] = Saver
      <4>1. CASE save.items[i].id \in DOMAIN rows  BY <3>2, <4>1, <2>4, <1>1
      <4> QED  BY <4>1
    <3> QED  BY <3>1, <3>2 DEF IInv, Saves
  <2> HIDE DEF t
  <2> QED  BY <2>2, <2>4, <2>5, <2>6, <1>1, SaveMoves
<1>4. CASE SaveRollBack
  <2>1. save' = NoSave /\ lockedBy' = Released(Saver)
        /\ UNCHANGED <<categories, rules, rows, shown, op, doomed, edits>>
    BY <1>4 DEF SaveRollBack
  <2>2. save' \in Saving /\ Saves(save)'  BY <2>1, Quiet DEF NoSave, Saves
  <2>3. \A t \in Tx : lockedBy[t] \in Client => lockedBy'[t] = lockedBy[t]
    BY <2>1, ReleasedKeeps
  <2> QED  BY <2>1, <2>2, <2>3, <1>1, ReleasedKeeps, SaveMoves
<1> QED  BY <1>2, <1>3, <1>4

(* What an upsert leaves of a row: its category and its frozen columns.        *)
SameFrozen(a, b) ==
  /\ a.description = b.description /\ a.mcc = b.mcc
  /\ a.account_id = b.account_id /\ a.currency = b.currency

UpsertKeeps(t) ==
  /\ t \in DOMAIN rows => /\ Upserted(t).category = rows[t].category
                          /\ SameFrozen(Upserted(t).content, rows[t].content)
  /\ t \notin DOMAIN rows => Upserted(t).category = NoCategory

(* The upsert writes rows, and keeps what it must.                             *)
LEMMA UpsertedRow ==
  ASSUME IInv
  PROVE  SavedIds \subseteq Tx /\ \A t \in SavedIds : Upserted(t) \in Row /\ UpsertKeeps(t)
<1>1. rows \in [DOMAIN rows -> Row] /\ save.items \in Seq(Item)
  BY TxTables DEF IInv, TypeOK
<1>2. \A i \in DOMAIN save.items : save.items[i].id \in Tx /\ save.items[i].content \in Reported
  <2>1. \A i \in DOMAIN save.items : save.items[i] \in Item  BY <1>1
  <2> QED  BY <2>1 DEF Item
<1>3. SavedIds \subseteq Tx  BY <1>2 DEF SavedIds
<1>4. ASSUME NEW t \in SavedIds PROVE Upserted(t) \in Row /\ UpsertKeeps(t)
  <2> DEFINE i == CHOOSE i \in DOMAIN save.items : save.items[i].id = t
             new == save.items[i].content
  <2>1. i \in DOMAIN save.items  BY <1>4 DEF SavedIds
  <2>2. new \in Reported /\ new \in Stored  BY <2>1, <1>2, StoredTables
  <2>3. Upserted(t) = IF t \in DOMAIN rows
                        THEN [rows[t] EXCEPT !.content = Kept(@, new)]
                        ELSE [content |-> new, category |-> NoCategory]
    BY DEF Upserted
  <2> HIDE DEF i, new
  <2>4. CASE t \in DOMAIN rows
    <3>1. rows[t] \in Row /\ rows[t].content \in Stored  BY <1>1, <2>4 DEF Row
    <3>2. Kept(rows[t].content, new) \in Stored /\ SameFrozen(Kept(rows[t].content, new), rows[t].content)
      BY <3>1, <2>2, StoredTables DEF SameFrozen
    <3>3. Upserted(t) = [rows[t] EXCEPT !.content = Kept(rows[t].content, new)]
      BY <2>3, <2>4
    <3> QED  BY <2>4, <3>1, <3>2, <3>3 DEF Row, UpsertKeeps
  <2>5. CASE t \notin DOMAIN rows  BY <2>2, <2>3, <2>5 DEF Row, UpsertKeeps
  <2> QED  BY <2>4, <2>5
<1> QED  BY <1>3, <1>4

(* Committing a statement writes rows it has locked and rows that are new.     *)
LEMMA SaveCommitStep ==
  ASSUME IInv, SaveCommit PROVE IInv'
<1>1. /\ rows \in TxTable /\ DOMAIN rows \subseteq Tx /\ rows \in [DOMAIN rows -> Row]
      /\ lockedBy \in [Tx -> Client \cup {Saver, Free}] /\ save \in Saving
  BY TxTables DEF IInv, TypeOK, Saving
<1>2. /\ save.left = <<>> /\ save' = NoSave /\ lockedBy' = Released(Saver)
      /\ rows' = [t \in DOMAIN rows \cup SavedIds |->
                    IF t \in SavedIds THEN Upserted(t) ELSE rows[t]]
      /\ UNCHANGED <<categories, rules, shown, op, doomed, edits>>
  BY DEF SaveCommit
<1>3. DOMAIN rows' = DOMAIN rows \cup SavedIds  BY <1>2
<1>4. SavedIds \subseteq Tx  BY UpsertedRow
<1>5. \A t \in SavedIds : t \in DOMAIN rows => lockedBy[t] = Saver
  <2>1. DOMAIN save.left = {}  BY <1>2
  <2> QED  BY <2>1 DEF IInv, Saves, SavedIds
<1>6. \A t \in SavedIds : Upserted(t) \in Row /\ UpsertKeeps(t)  BY UpsertedRow
<1>7. rows' \in TxTable
  <2>1. \A t \in DOMAIN rows' : rows'[t] \in Row  BY <1>1, <1>2, <1>3, <1>6
  <2>2. rows' \in [DOMAIN rows' -> Row]  BY <2>1, <1>2, <1>3
  <2> QED  BY <2>2, <1>1, <1>3, <1>4, TxTables
<1>8. TypeOK'
  BY <1>2, <1>7, Quiet, ReleasedKeeps DEF IInv, TypeOK, Saving
<1>9. NoDanglingCategory'
  <2>1. \A t \in DOMAIN rows' : rows'[t].category \in Existing \cup {NoCategory}
    BY <1>2, <1>3, <1>6 DEF IInv, NoDanglingCategory, UpsertKeeps
  <2> QED  BY <2>1, <1>2 DEF IInv, NoDanglingCategory, Existing
<1>10. ASSUME NEW c \in Client PROVE Sweeps(c, op[c])'
  <2>1. Sweeps(c, op[c]) /\ c # Saver  BY DEF IInv
  <2>2. \A t \in DOMAIN op[c].seen : t \in DOMAIN rows /\ t \notin SavedIds
    BY <2>1, <1>5 DEF Sweeps
  <2>3. \A t \in DOMAIN op[c].seen : rows'[t] = rows[t] /\ lockedBy'[t] = c
    BY <2>1, <2>2, <1>1, <1>2, ReleasedKeeps DEF Sweeps
  <2> QED  BY <2>1, <2>2, <2>3, <1>2, <1>3 DEF Sweeps
<1>11. Saves(save)'  BY <1>2, Quiet DEF NoSave, Saves
<1> QED  BY <1>8, <1>9, <1>10, <1>11 DEF IInv

-----------------------------------------------------------------------------
(* The editors touch rules and categories only: what is to be shown is that    *)
(* they leave tables, and no rule and no row without its category.             *)
LEMMA EditorMoves ==
  ASSUME IInv, UNCHANGED <<rows, lockedBy, shown, op, save>>,
         categories' \in Seq(BOOLEAN), Len(categories') <= MaxCategory,
         rules' \in RuleTable, doomed' \in Category \cup {NoCategory}, edits' \in Nat,
         NoDanglingCategory'
  PROVE  IInv'
<1>1. TypeOK'  BY DEF IInv, TypeOK
<1>2. (\A c \in Client : Sweeps(c, op[c])') /\ Saves(save)'  BY DEF IInv, Sweeps, Saves
<1> QED  BY <1>1, <1>2 DEF IInv

(* A rules table of which every rule is an old one or has a body that exists.  *)
LEMMA RulesMove ==
  ASSUME IInv, EditRules, DOMAIN rules' \subseteq Priority,
         rules' \in [DOMAIN rules' -> RuleBody],
         \A p \in DOMAIN rules' : rules'[p].category \in Existing
  PROVE  IInv'
<1>1. /\ UNCHANGED <<categories, rows, lockedBy, shown, op, save, doomed>>
      /\ edits \in Nat /\ edits' \in Nat
  BY DEF EditRules, IInv, TypeOK
<1>2. NoDanglingCategory'  BY <1>1 DEF IInv, NoDanglingCategory, Existing
<1>3. rules' \in RuleTable  BY RuleTables
<1> QED  BY <1>1, <1>2, <1>3, EditorMoves DEF IInv, TypeOK

(* The routes of the rule editor preserve the invariant.                       *)
LEMMA RuleEditorStep ==
  ASSUME IInv, CreateRule \/ UpdateRule \/ DeleteRule \/ ReorderRules PROVE IInv'
<1>1. /\ DOMAIN rules \subseteq Priority
      /\ \A p \in DOMAIN rules : rules[p] \in RuleBody /\ rules[p].category \in Existing
  BY RuleTables DEF IInv, TypeOK, NoDanglingCategory
<1>2. \A body \in Body : body \in RuleBody /\ body.category \in Existing
  BY ExistingIds DEF IInv, Body, RuleBody
<1>3. CASE CreateRule
  <2>1. PICK p \in Priority \ DOMAIN rules, body \in Body : rules' = Put(rules, p, body)
    BY <1>3 DEF CreateRule
  <2>2. DOMAIN rules' \subseteq Priority  BY <2>1, <1>1 DEF Put, Drop
  <2>3. \A q \in DOMAIN rules' : rules'[q] \in RuleBody /\ rules'[q].category \in Existing
    <3>1. \A q \in DOMAIN rules' : rules'[q] = IF q = p THEN body ELSE rules[q]
      BY <2>1 DEF Put
    <3>2. DOMAIN rules' = DOMAIN rules \cup {p}  BY <2>1 DEF Put
    <3> QED  BY <3>1, <3>2, <1>1, <1>2
  <2>4. rules' \in [DOMAIN rules' -> RuleBody]  BY <2>1, <2>3 DEF Put
  <2>5. EditRules  BY <1>3 DEF CreateRule
  <2> QED  BY <2>2, <2>3, <2>4, <2>5, RulesMove
<1>4. CASE UpdateRule
  <2>1. PICK p \in DOMAIN rules, body \in Body :
          \E q \in (Priority \ DOMAIN rules) \cup {p} : rules' = Put(Drop(rules, p), q, body)
    BY <1>4 DEF UpdateRule
  <2>2. PICK q \in (Priority \ DOMAIN rules) \cup {p} : rules' = Put(Drop(rules, p), q, body)
    BY <2>1
  <2>3. DOMAIN rules' \subseteq Priority  BY <2>1, <2>2, <1>1 DEF Put, Drop
  <2>4. \A r \in DOMAIN rules' : rules'[r] \in RuleBody /\ rules'[r].category \in Existing
    <3> TAKE r \in DOMAIN rules'
    <3>1. rules'[r] = IF r = q THEN body ELSE Drop(rules, p)[r]  BY <2>2 DEF Put
    <3>2. r # q => r \in DOMAIN rules /\ Drop(rules, p)[r] = rules[r]  BY <2>2 DEF Put, Drop
    <3> QED  BY <3>1, <3>2, <1>1, <1>2
  <2>5. rules' \in [DOMAIN rules' -> RuleBody]  BY <2>2, <2>4 DEF Put
  <2>6. EditRules  BY <1>4 DEF UpdateRule
  <2> QED  BY <2>3, <2>4, <2>5, <2>6, RulesMove
<1>5. CASE DeleteRule
  <2>1. PICK p \in DOMAIN rules : rules' = Drop(rules, p)  BY <1>5 DEF DeleteRule
  <2>2. /\ DOMAIN rules' \subseteq Priority
        /\ \A q \in DOMAIN rules' : rules'[q] \in RuleBody /\ rules'[q].category \in Existing
    BY <2>1, <1>1 DEF Put, Drop
  <2>3. rules' \in [DOMAIN rules' -> RuleBody]  BY <2>1, <2>2 DEF Drop
  <2>4. EditRules  BY <1>5 DEF DeleteRule
  <2> QED  BY <2>2, <2>3, <2>4, RulesMove
<1>6. CASE ReorderRules
  <2> DEFINE Lists == UNION {[1..n -> DOMAIN rules \cup {UnknownRule}] : n \in Priority}
  <2>0. PICK ids \in Lists :
          LET named  == {i \in DOMAIN ids : ids[i] # UnknownRule}
              places == {i \in named : \A j \in named : ids[j] = ids[i] => j <= i}
              kept   == DOMAIN rules \ {ids[i] : i \in named}
          IN  rules' = [p \in kept \cup places |->
                          IF p \in places THEN rules[ids[p]] ELSE rules[p]]
    BY <1>6 DEF ReorderRules
  <2>1. PICK n \in Priority : ids \in [1..n -> DOMAIN rules \cup {UnknownRule}]  OBVIOUS
  <2> DEFINE named  == {i \in DOMAIN ids : ids[i] # UnknownRule}
             places == {i \in named : \A j \in named : ids[j] = ids[i] => j <= i}
             kept   == DOMAIN rules \ {ids[i] : i \in named}
  <2>2. rules' = [p \in kept \cup places |-> IF p \in places THEN rules[ids[p]] ELSE rules[p]]
    BY <2>0
  <2>3. places \subseteq Priority /\ \A p \in places : ids[p] \in DOMAIN rules
    BY <2>1 DEF Priority
  <2>4. kept \subseteq DOMAIN rules  OBVIOUS
  <2> HIDE DEF places, kept
  <2>5. DOMAIN rules' = kept \cup places /\ DOMAIN rules' \subseteq Priority
    BY <2>2, <2>3, <2>4, <1>1
  <2>6. \A p \in DOMAIN rules' : rules'[p] \in RuleBody /\ rules'[p].category \in Existing
    BY <2>2, <2>3, <2>4, <2>5, <1>1
  <2>7. rules' \in [DOMAIN rules' -> RuleBody]  BY <2>2, <2>5, <2>6
  <2>8. EditRules  BY <1>6 DEF ReorderRules
  <2> QED  BY <2>5, <2>6, <2>7, <2>8, RulesMove
<1> QED  BY <1>3, <1>4, <1>5, <1>6

(* The routes of the category editor preserve the invariant; DELETE because    *)
(* the foreign keys keep a category that is in use.                            *)
LEMMA CategoryEditorStep ==
  ASSUME IInv, CreateCategory \/ CountReferences \/ DeleteCategory PROVE IInv'
<1>1. /\ categories \in Seq(BOOLEAN) /\ Len(categories) <= MaxCategory
      /\ rules \in RuleTable /\ doomed \in Category \cup {NoCategory} /\ edits \in Nat
  BY DEF IInv, TypeOK
<1>2. CASE CreateCategory
  <2>1. /\ categories' = Append(categories, TRUE) /\ Len(categories) < MaxCategory
        /\ edits' = edits
        /\ UNCHANGED <<rules, rows, lockedBy, shown, op, save, doomed>>
    BY <1>2 DEF CreateCategory
  <2>2. /\ categories' \in Seq(BOOLEAN) /\ Len(categories') <= MaxCategory
        /\ \A k \in DOMAIN categories : k \in DOMAIN categories' /\ categories'[k] = categories[k]
    <3> DEFINE n == Len(categories)
    <3>1. n \in Nat /\ DOMAIN categories = 1..n  BY <1>1
    <3>2. categories' \in Seq(BOOLEAN)  BY <2>1, <1>1
    <3>3. Len(categories') = n + 1 /\ DOMAIN categories' = 1..(n + 1)  BY <2>1, <3>2, <1>1
    <3>4. \A k \in 1..n : categories'[k] = categories[k]  BY <2>1, <1>1
    <3> QED  BY <2>1, <3>1, <3>2, <3>3, <3>4
  <2>3. Existing \subseteq Existing'  BY <2>2 DEF Existing
  <2>4. NoDanglingCategory'  BY <2>1, <2>3 DEF IInv, NoDanglingCategory
  <2>5. edits' \in Nat  BY <2>1, <1>1
  <2> QED  BY <2>1, <2>2, <2>4, <2>5, <1>1, EditorMoves
<1>3. CASE CountReferences
  <2>1. /\ doomed' \in Existing /\ edits' = edits
        /\ UNCHANGED <<categories, rules, rows, lockedBy, shown, op, save>>
    BY <1>3 DEF CountReferences
  <2>2. doomed' \in Category \cup {NoCategory}  BY <2>1, ExistingIds DEF IInv
  <2>3. NoDanglingCategory'  BY <2>1 DEF IInv, NoDanglingCategory, Existing
  <2>4. edits' \in Nat  BY <2>1, <1>1
  <2> QED  BY <2>1, <2>2, <2>3, <2>4, <1>1, EditorMoves
<1>4. CASE DeleteCategory
  <2>1. /\ categories' = [categories EXCEPT ![doomed] = Referenced(doomed)]
        /\ doomed' = NoCategory
        /\ UNCHANGED <<rules, rows, lockedBy, shown, op, save, edits>>
    BY <1>4 DEF DeleteCategory
  <2> DEFINE left == Referenced(doomed)
  <2>2. left \in BOOLEAN  BY DEF Referenced
  <2> HIDE DEF left
  <2>3. /\ DOMAIN categories' = DOMAIN categories
        /\ categories' \in Seq(BOOLEAN) /\ Len(categories') = Len(categories)
        /\ \A k \in DOMAIN categories : categories'[k] = IF k = doomed THEN left ELSE categories[k]
    <3>1. categories' = [categories EXCEPT ![doomed] = left]  BY <2>1 DEF left
    <3>2. /\ categories \in [1..Len(categories) -> BOOLEAN] /\ Len(categories) \in Nat
          /\ DOMAIN categories = 1..Len(categories)
      BY <1>1
    <3>3. categories' \in [1..Len(categories) -> BOOLEAN]  BY <3>1, <3>2, <2>2
    <3>4. categories' \in Seq(BOOLEAN) /\ Len(categories') = Len(categories)  BY <3>2, <3>3
    <3>5. \A k \in DOMAIN categories : categories'[k] = IF k = doomed THEN left ELSE categories[k]
      BY <3>1, <3>2
    <3> QED  BY <3>2, <3>3, <3>4, <3>5
  <2>4. ASSUME NEW k \in Existing, Referenced(k) PROVE k \in Existing'
    <3>1. CASE k = doomed  BY <3>1, <2>3, <2>4 DEF left, Existing
    <3>2. CASE k # doomed  BY <3>2, <2>3 DEF Existing
    <3> QED  BY <3>1, <3>2
  <2>5. NoDanglingCategory'
    <3>1. \A p \in DOMAIN rules : rules[p].category \in Existing'
      BY <2>4 DEF IInv, NoDanglingCategory, Referenced
    <3>2. \A t \in DOMAIN rows : rows[t].category \in Existing' \cup {NoCategory}
      BY <2>4 DEF IInv, NoDanglingCategory, Referenced
    <3> QED  BY <3>1, <3>2, <2>1 DEF NoDanglingCategory
  <2> QED  BY <2>1, <2>3, <2>5, <1>1, EditorMoves
<1> QED  BY <1>2, <1>3, <1>4

(* The invariant is inductive. *)
LEMMA StepIInv == IInv /\ [Next]_vars => IInv'
<1> SUFFICES ASSUME IInv, [Next]_vars PROVE IInv'
  OBVIOUS
<1>1. CASE UNCHANGED vars
  BY <1>1 DEF vars, IInv, TypeOK, NoDanglingCategory, Existing, Sweeps, Saves
<1>2. ASSUME NEW c \in Client,
             Preview(c) \/ CommitReadRules(c) \/ Commit(c) \/ RollBack(c)
      PROVE  IInv'
  BY <1>2, RequestStep, SweepStep DEF Commit
<1>3. CASE SaveBegin \/ Save \/ SaveRollBack
  BY <1>3, StatementStep, SaveCommitStep DEF Save
<1>4. CASE EditorStep  BY <1>4, RuleEditorStep, CategoryEditorStep DEF EditorStep
<1> QED  BY <1>1, <1>2, <1>3, <1>4 DEF Next

-----------------------------------------------------------------------------
(* Locks, tables and requests hold together in every state.                    *)
THEOREM Invariance == Spec => []IInv
  BY InitIInv, StepIInv, PTL DEF Spec

(* The tables and requests keep their shape.                                   *)
THEOREM TypeCorrect == Spec => []TypeOK
<1>1. IInv => TypeOK  BY DEF IInv
<1> QED  BY <1>1, Invariance, PTL

(* Neither a rule nor a transaction is ever left with a category that is gone. *)
THEOREM NeverDangling == Spec => []NoDanglingCategory
<1>1. IInv => NoDanglingCategory  BY DEF IInv
<1> QED  BY <1>1, Invariance, PTL

(* Only the sweep of a request ends it with the answer "applied".              *)
LEMMA AppliesIsSweep ==
  ASSUME IInv, [Next]_vars, NEW c \in Client, Applies(c)
  PROVE  /\ CommitSweep(c) /\ Fresh(c)
         /\ rows' = [t \in DOMAIN rows |->
                       IF t \in Changed(op[c].rules, op[c].seen)
                         THEN [rows[t] EXCEPT !.category = NewCategory(c, t)] ELSE rows[t]]
<1>1. op \in [Client -> Request]  BY DEF IInv, TypeOK, Request
<1>2. op[c].pc = "lock" /\ op'[c].pc = "idle" /\ op'[c].answer = "applied"  BY DEF Applies
<1>3. op' # op  BY <1>2
<1>4. ~(SaveBegin \/ Save \/ SaveRollBack \/ EditorStep)
  BY <1>3 DEF SaveBegin, Save, SaveItem, SaveCommit, SaveRollBack, EditorStep, CreateRule,
              UpdateRule, DeleteRule, ReorderRules, EditRules, CreateCategory,
              CountReferences, DeleteCategory
<1>5. PICK d \in Client : Preview(d) \/ CommitReadRules(d) \/ Commit(d) \/ RollBack(d)
  BY <1>3, <1>4 DEF Next, vars
<1>6. d = c
  BY <1>1, <1>2, <1>5 DEF Preview, PreviewReadRules, PreviewReadRows, CommitReadRules, Commit,
     CommitScan, CommitLockRow, CommitSweep, RollBack
<1>7. ~(Preview(c) \/ CommitReadRules(c))
  BY <1>1, <1>2 DEF Preview, PreviewReadRules, PreviewReadRows, CommitReadRules, Answered
<1>8. ~(CommitScan(c) \/ CommitLockRow(c))
  BY <1>1, <1>2 DEF CommitScan, CommitLockRow, Request
<1>9. ~RollBack(c)  BY <1>1, <1>2 DEF RollBack, Answered
<1>10. CommitSweep(c)  BY <1>5, <1>6, <1>7, <1>8, <1>9 DEF Commit
<1>11. op'[c] # Answered(IF Fresh(c) THEN "failed" ELSE "stale")
  BY <1>2 DEF Answered
<1> QED  BY <1>1, <1>10, <1>11 DEF CommitSweep

(* What one swept row gets: the verdict of the rules on what it says.          *)
LEMMA SweptRow ==
  ASSUME IInv, [Next]_vars, NEW c \in Client, Applies(c), NEW t \in DOMAIN op[c].seen
  PROVE  /\ t \in DOMAIN rows /\ rows[t] = op[c].seen[t]
         /\ rows'[t].content = rows[t].content
         /\ rows'[t].category = Verdict(op[c].rules, rows[t].content)
<1>1. t \in DOMAIN rows /\ rows[t] = op[c].seen[t]  BY DEF IInv, Sweeps
<1>2. rows[t] \in Row  BY <1>1, TxTables DEF IInv, TypeOK
<1>3. CASE t \in Changed(op[c].rules, op[c].seen)
  <2>1. rows'[t] = [rows[t] EXCEPT !.category = NewCategory(c, t)]
    BY <1>1, <1>3, AppliesIsSweep
  <2> QED  BY <2>1, <1>1, <1>2 DEF NewCategory, Row
<1>4. CASE t \notin Changed(op[c].rules, op[c].seen)
  <2>1. rows'[t] = rows[t]  BY <1>1, <1>4, AppliesIsSweep
  <2> QED  BY <2>1, <1>1, <1>4 DEF Changed
<1> QED  BY <1>1, <1>3, <1>4

(* A commit that answers "applied" leaves every row it swept with the category *)
(* the rules it read give to what the row says: the row locks close the gap    *)
(* between its read and its write.                                             *)
THEOREM CommitAlwaysConverges == Spec => CommitConverges
<1>1. IInv /\ [Next]_vars =>
        [\A c \in Client : Applies(c) =>
           \A t \in DOMAIN op[c].seen :
             rows'[t].category = Verdict(op[c].rules, rows'[t].content)]_vars
  BY SweptRow
<1> QED  BY <1>1, Invariance, PTL DEF Spec, CommitConverges

(* The handshake of token and preview: an applied commit sweeps the rows of its *)
(* preview, overwrites the categories its preview showed, and writes what the   *)
(* preview said wherever the row still says the same.                          *)
THEOREM CommitAlwaysFollowsPreview == Spec => CommitFollowsPreview
<1> DEFINE Follows(c) ==
      /\ DOMAIN op[c].seen = DOMAIN shown[c].rows
      /\ \A t \in DOMAIN shown[c].rows :
           /\ rows[t].category = shown[c].rows[t].category
           /\ rows[t].content = shown[c].rows[t].content =>
                rows'[t].category = Verdict(shown[c].rules, shown[c].rows[t].content)
<1>1. ASSUME IInv, [Next]_vars, NEW c \in Client, Applies(c) PROVE Follows(c)
  <2>1. Fresh(c)  BY <1>1, AppliesIsSweep
  <2>2. op[c].rules = shown[c].rules /\ CategoryOf(op[c].seen) = CategoryOf(shown[c].rows)
    BY <2>1 DEF Fresh, Token
  <2>3. DOMAIN op[c].seen = DOMAIN shown[c].rows
    <3>1. DOMAIN CategoryOf(op[c].seen) = DOMAIN op[c].seen  BY DEF CategoryOf
    <3>2. DOMAIN CategoryOf(shown[c].rows) = DOMAIN shown[c].rows  BY DEF CategoryOf
    <3> QED  BY <2>2, <3>1, <3>2
  <2>4. ASSUME NEW t \in DOMAIN shown[c].rows
        PROVE  op[c].seen[t].category = shown[c].rows[t].category
    <3>1. CategoryOf(op[c].seen)[t] = op[c].seen[t].category  BY <2>3 DEF CategoryOf
    <3>2. CategoryOf(shown[c].rows)[t] = shown[c].rows[t].category  BY DEF CategoryOf
    <3> QED  BY <2>2, <3>1, <3>2
  <2> QED  BY <1>1, <2>2, <2>3, <2>4, SweptRow
<1>2. IInv /\ [Next]_vars => [\A c \in Client : Applies(c) => Follows(c)]_vars
  BY <1>1
<1> QED  BY <1>2, Invariance, PTL DEF Spec, CommitFollowsPreview
-----------------------------------------------------------------------------
(* Which steps change rows: the sweep of a commit that answers "applied", and  *)
(* the commit of a statement.                                                  *)
LEMMA RowsWritten ==
  ASSUME IInv, [Next]_vars, rows' # rows
  PROVE  SaveCommit \/ \E c \in Client : Applies(c)
<1>1. op \in [Client -> Request]  BY DEF IInv, TypeOK, Request
<1>2. ~(SaveBegin \/ SaveItem \/ SaveRollBack \/ EditorStep)
  BY DEF SaveBegin, SaveItem, SaveRollBack, EditorStep, CreateRule, UpdateRule, DeleteRule,
         ReorderRules, EditRules, CreateCategory, CountReferences, DeleteCategory
<1>3. \A c \in Client : ~(\/ Preview(c) \/ CommitReadRules(c) \/ CommitScan(c)
                          \/ CommitLockRow(c) \/ RollBack(c))
  BY DEF Preview, PreviewReadRules, PreviewReadRows, CommitReadRules, CommitScan,
         CommitLockRow, RollBack
<1>4. SaveCommit \/ \E c \in Client : CommitSweep(c)
  BY <1>2, <1>3 DEF Next, vars, Save, Commit
<1>5. ASSUME NEW c \in Client, CommitSweep(c) PROVE Applies(c)
  <2>1. op[c].pc = "lock" /\ op' = [op EXCEPT ![c] = Answered("applied")]
    BY <1>5 DEF CommitSweep
  <2> QED  BY <2>1, <1>1 DEF Applies, Answered
<1> QED  BY <1>4, <1>5

(* A statement that is saved leaves every row its category and its frozen      *)
(* columns.                                                                    *)
LEMMA SavedRow ==
  ASSUME IInv, SaveCommit, NEW t \in DOMAIN rows
  PROVE  /\ t \in DOMAIN rows' /\ rows'[t].category = rows[t].category
         /\ SameFrozen(rows'[t].content, rows[t].content)
<1>1. rows' = [x \in DOMAIN rows \cup SavedIds |->
                IF x \in SavedIds THEN Upserted(x) ELSE rows[x]]
  BY DEF SaveCommit
<1>2. CASE t \in SavedIds  BY <1>1, <1>2, UpsertedRow DEF UpsertKeeps
<1>3. CASE t \notin SavedIds  BY <1>1, <1>3 DEF SameFrozen
<1> QED  BY <1>2, <1>3

(* No import, and nothing else but an applied commit, gives a transaction a     *)
(* category, another one or none: new rows come without.                       *)
THEOREM OnlyCommitsEverCategorize == Spec => OnlyCommitsCategorize
<1>1. ASSUME IInv, [Next]_vars, NEW t \in Tx, CategoryNow(t)' # CategoryNow(t)
      PROVE  \E c \in Client : Applies(c)
  <2>1. rows' # rows  BY <1>1 DEF CategoryNow
  <2>2. ~SaveCommit
    <3> SUFFICES ASSUME SaveCommit PROVE CategoryNow(t)' = CategoryNow(t)  BY <1>1
    <3>1. CASE t \in DOMAIN rows  BY <1>1, <3>1, SavedRow DEF CategoryNow
    <3>2. CASE t \notin DOMAIN rows
      <4>1. rows' = [x \in DOMAIN rows \cup SavedIds |->
                      IF x \in SavedIds THEN Upserted(x) ELSE rows[x]]
        BY DEF SaveCommit
      <4>2. t \in SavedIds => Upserted(t).category = NoCategory
        BY <1>1, <3>2, UpsertedRow DEF UpsertKeeps
      <4> QED  BY <3>2, <4>1, <4>2 DEF CategoryNow
    <3> QED  BY <3>1, <3>2
  <2> QED  BY <1>1, <2>1, <2>2, RowsWritten
<1>2. IInv /\ [Next]_vars =>
        [(\E t \in Tx : CategoryNow(t)' # CategoryNow(t)) => \E c \in Client : Applies(c)]_vars
  BY <1>1
<1> QED  BY <1>2, Invariance, PTL DEF Spec, OnlyCommitsCategorize

-----------------------------------------------------------------------------
(* Reordering maps every rule to a place of its own: the last at which the     *)
(* list names it, or the place it has.                                         *)
THEOREM ReorderKeepsEveryRule == Spec => ReorderRenumbersOnly
<1>1. ASSUME IInv, ReorderRules
      PROVE  \E f \in [DOMAIN rules -> DOMAIN rules'] :
               /\ \A p, q \in DOMAIN rules : p # q => f[p] # f[q]
               /\ \A q \in DOMAIN rules' : \E p \in DOMAIN rules : f[p] = q
               /\ \A p \in DOMAIN rules : rules'[f[p]] = rules[p]
  <2>1. DOMAIN rules \subseteq Priority  BY <1>1, RuleTables DEF IInv, TypeOK
  <2> DEFINE Lists == UNION {[1..k -> DOMAIN rules \cup {UnknownRule}] : k \in Priority}
  <2>2. PICK ids \in Lists :
          LET named  == {i \in DOMAIN ids : ids[i] # UnknownRule}
              places == {i \in named : \A j \in named : ids[j] = ids[i] => j <= i}
              kept   == DOMAIN rules \ {ids[i] : i \in named}
          IN /\ kept \cap named = {}
             /\ rules' = [p \in kept \cup places |->
                            IF p \in places THEN rules[ids[p]] ELSE rules[p]]
    BY <1>1 DEF ReorderRules
  <2>0. PICK n \in Priority : ids \in [1..n -> DOMAIN rules \cup {UnknownRule}]  OBVIOUS
  <2> HIDE DEF Lists
  <2> DEFINE named  == {i \in DOMAIN ids : ids[i] # UnknownRule}
             places == {i \in named : \A j \in named : ids[j] = ids[i] => j <= i}
             kept   == DOMAIN rules \ {ids[i] : i \in named}
             f == [p \in DOMAIN rules |->
                     IF p \in kept THEN p ELSE CHOOSE i \in places : ids[i] = p]
  <2>3. n \in Int /\ named \in SUBSET Int /\ \A i \in named : i <= n /\ ids[i] \in DOMAIN rules
    <3>1. n \in Int  BY DEF Priority
    <3>2. DOMAIN ids = 1..n /\ \A i \in 1..n : ids[i] \in DOMAIN rules \cup {UnknownRule}
      BY <2>0
    <3> QED  BY <3>1, <3>2
  <2>4. kept \cap named = {} /\ places \subseteq named /\ kept \subseteq DOMAIN rules
    BY <2>2
  <2>5. rules' = [p \in kept \cup places |-> IF p \in places THEN rules[ids[p]] ELSE rules[p]]
    BY <2>2
  <2>6. ASSUME NEW p \in DOMAIN rules, p \notin kept PROVE \E i \in places : ids[i] = p
    <3> DEFINE naming == {i \in named : ids[i] = p}
    <3>1. naming \in SUBSET Int /\ naming # {} /\ \A i \in naming : i <= n  BY <2>3, <2>6
    <3>2. PICK m \in naming : \A i \in naming : i <= m
      <4> HIDE DEF naming
      <4> QED  BY <2>3, <3>1, Greatest
    <3> QED  BY <3>2
  <2>7. \A i, j \in places : ids[i] = ids[j] => i = j  BY <2>3
  <2> HIDE DEF named, places, kept
  <2>8. \A p \in DOMAIN rules : /\ p \in kept => f[p] = p
                                /\ p \notin kept => f[p] \in places /\ ids[f[p]] = p
    BY <2>6
  <2>9. \A i \in places : ids[i] \in DOMAIN rules \ kept  BY <2>3, <2>4 DEF kept
  <2>10. DOMAIN rules' = kept \cup places  BY <2>5
  <2>11. f \in [DOMAIN rules -> DOMAIN rules']  BY <2>8, <2>10
  <2> HIDE DEF f
  <2>12. \A p, q \in DOMAIN rules : p # q => f[p] # f[q]  BY <2>4, <2>8
  <2>13. ASSUME NEW q \in DOMAIN rules' PROVE \E p \in DOMAIN rules : f[p] = q
    <3>1. CASE q \in kept  BY <3>1, <2>4, <2>8
    <3>2. CASE q \in places
      <4>1. ids[q] \in DOMAIN rules /\ ids[q] \notin kept  BY <3>2, <2>9
      <4>2. f[ids[q]] \in places /\ ids[f[ids[q]]] = ids[q]  BY <4>1, <2>8
      <4>3. f[ids[q]] = q  BY <3>2, <4>2, <2>7
      <4> QED  BY <4>1, <4>3
    <3> QED  BY <2>10, <2>13, <3>1, <3>2
  <2>14. ASSUME NEW p \in DOMAIN rules PROVE rules'[f[p]] = rules[p]
    <3>1. CASE p \in kept
      <4>1. p \notin places  BY <3>1, <2>4
      <4> QED  BY <3>1, <4>1, <2>5, <2>8
    <3>2. CASE p \notin kept  BY <3>2, <2>5, <2>8
    <3> QED  BY <3>1, <3>2
  <2> QED  BY <2>11, <2>12, <2>13, <2>14
<1>2. IInv => [ReorderRules =>
                 \E f \in [DOMAIN rules -> DOMAIN rules'] :
                   /\ \A p, q \in DOMAIN rules : p # q => f[p] # f[q]
                   /\ \A q \in DOMAIN rules' : \E p \in DOMAIN rules : f[p] = q
                   /\ \A p \in DOMAIN rules : rules'[f[p]] = rules[p]]_vars
  BY <1>1
<1> QED  BY <1>2, Invariance, PTL DEF ReorderRenumbersOnly

-----------------------------------------------------------------------------
(* Rules that read frozen columns only give two contents with the same frozen  *)
(* columns the same category.                                                  *)
LEMMA FrozenVerdict ==
  ASSUME NEW rs, Frozen(rs), NEW a, NEW b, SameFrozen(a, b)
  PROVE  Verdict(rs, a) = Verdict(rs, b)
<1>1. \A f \in FrozenField : FieldOf(f, a) = FieldOf(f, b)
  BY DEF FrozenField, FieldOf, SameFrozen
<1>2. ASSUME NEW p \in DOMAIN rs, NEW k \in rs[p].predicate
      PROVE  EvalCondition(k, a) <=> EvalCondition(k, b)
  <2>1. k.op \in {"icontains", "equals", "in_int", "in_str"} /\ k.field \in FrozenField
    BY DEF Frozen, ReadsFrozen
  <2>2. FieldOf(k.field, a) = FieldOf(k.field, b)  BY <1>1, <2>1
  <2> QED  BY <2>1, <2>2 DEF EvalCondition
<1>3. Matching(rs, a) = Matching(rs, b)  BY <1>2 DEF Matching, Matches
<1> QED  BY <1>3 DEF Verdict

(* Since a preview, a row has kept the columns that insert_many freezes.       *)
FrozenSince ==
  \A c \in Client : \A t \in DOMAIN shown[c].rows :
    t \in DOMAIN rows /\ SameFrozen(rows[t].content, shown[c].rows[t].content)

(* A table of rows keeps its rows and their frozen columns in every step.      *)
LEMMA RowsStay ==
  ASSUME IInv, [Next]_vars, NEW t \in DOMAIN rows
  PROVE  t \in DOMAIN rows' /\ SameFrozen(rows'[t].content, rows[t].content)
<1>1. CASE rows' = rows  BY <1>1 DEF SameFrozen
<1>2. CASE SaveCommit  BY <1>2, SavedRow
<1>3. ASSUME NEW c \in Client, Applies(c)
      PROVE  t \in DOMAIN rows' /\ SameFrozen(rows'[t].content, rows[t].content)
  <2>1. rows[t] \in Row  BY TxTables DEF IInv, TypeOK
  <2>2. t \in DOMAIN rows' /\ rows'[t].content = rows[t].content
    BY <1>3, <2>1, AppliesIsSweep DEF Row
  <2> QED  BY <2>2 DEF SameFrozen
<1> QED  BY <1>1, <1>2, <1>3, RowsWritten

(* A preview shows the rows as they are.                                       *)
LEMMA ShownStep ==
  ASSUME IInv, [Next]_vars, NEW c \in Client
  PROVE  shown'[c] = shown[c] \/ (shown'[c].rows = rows /\ rows' = rows)
<1>1. shown \in [Client -> Shown]  BY DEF IInv, TypeOK, Shown
<1>2. CASE \E d \in Client : PreviewReadRows(d)  BY <1>1, <1>2 DEF PreviewReadRows
<1>3. CASE ~\E d \in Client : PreviewReadRows(d)
  <2>1. UNCHANGED shown
    BY <1>3 DEF Next, vars, Preview, PreviewReadRules, CommitReadRules, Commit, CommitScan,
       CommitLockRow, CommitSweep, RollBack, SaveBegin, Save, SaveItem, SaveCommit,
       SaveRollBack, EditorStep, CreateRule, UpdateRule, DeleteRule, ReorderRules,
       EditRules, CreateCategory, CountReferences, DeleteCategory
  <2> QED  BY <2>1
<1> QED  BY <1>2, <1>3

(* That stays so.                                                              *)
LEMMA FrozenStep == IInv /\ FrozenSince /\ [Next]_vars => FrozenSince'
<1> SUFFICES ASSUME IInv, FrozenSince, [Next]_vars, NEW c \in Client,
                    NEW t \in DOMAIN shown'[c].rows
             PROVE  t \in DOMAIN rows' /\ SameFrozen(rows'[t].content, shown'[c].rows[t].content)
  BY DEF FrozenSince
<1>1. CASE shown'[c] = shown[c]
  <2>1. t \in DOMAIN rows /\ SameFrozen(rows[t].content, shown[c].rows[t].content)
    BY <1>1 DEF FrozenSince
  <2> QED  BY <1>1, <2>1, RowsStay DEF SameFrozen
<1>2. CASE shown'[c].rows = rows /\ rows' = rows  BY <1>2 DEF SameFrozen
<1> QED  BY <1>1, <1>2, ShownStep

(* The token, which does not cover what the rows say, is nevertheless enough   *)
(* as long as no rule reads hold, the amount or raw_payload: what the commit   *)
(* writes is then exactly what its preview showed.                             *)
THEOREM FrozenRulesAlwaysWriteTheShownDiff == Spec => FrozenRulesWriteTheShownDiff
<1>1. Init => FrozenSince  BY EmptyTables DEF Init, FrozenSince, NoPreview
<1>2. ASSUME IInv, FrozenSince, [Next]_vars, NEW c \in Client, Applies(c),
             Frozen(shown[c].rules), NEW t \in DOMAIN shown[c].rows
      PROVE  rows'[t].category = Verdict(shown[c].rules, shown[c].rows[t].content)
  <2>1. Fresh(c)  BY <1>2, AppliesIsSweep
  <2>2. op[c].rules = shown[c].rules /\ CategoryOf(op[c].seen) = CategoryOf(shown[c].rows)
    BY <2>1 DEF Fresh, Token
  <2>3. DOMAIN op[c].seen = DOMAIN shown[c].rows  BY <2>2 DEF CategoryOf
  <2>4. rows'[t].category = Verdict(op[c].rules, rows[t].content)  BY <1>2, <2>3, SweptRow
  <2>5. SameFrozen(rows[t].content, shown[c].rows[t].content)  BY <1>2 DEF FrozenSince
  <2>6. Verdict(shown[c].rules, rows[t].content)
          = Verdict(shown[c].rules, shown[c].rows[t].content)
    BY <1>2, <2>5, FrozenVerdict
  <2> QED  BY <2>2, <2>4, <2>6
<1>3. IInv /\ FrozenSince /\ [Next]_vars =>
        [\A c \in Client : Applies(c) /\ Frozen(shown[c].rules) =>
           \A t \in DOMAIN shown[c].rows :
             rows'[t].category = Verdict(shown[c].rules, shown[c].rows[t].content)]_vars
  BY <1>2
<1> QED  BY <1>1, <1>3, FrozenStep, Invariance, PTL DEF Spec, FrozenRulesWriteTheShownDiff
=============================================================================
