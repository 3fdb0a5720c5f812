------------------------------ MODULE MatchScan ------------------------------
(***************************************************************************)
(* Finding duplicate records in cmx-mdm.                                   *)
(*                                                                         *)
(* match_algo compares records of one block (those that agree in their     *)
(* first filled cluster key) field by field.  It has three users: the key  *)
(* check of what a new record is to contain, the search for the duplicates *)
(* of one record, and the scan of a whole dictionary, which stores what it *)
(* finds in md_match_scan for stewards, who ignore a finding or merge its  *)
(* members.  All three load their records with load_suspects, which leaves *)
(* the first step of blocking to the database.                             *)
(*                                                                         *)
(* Records change between the statements of a scan.  The caps on blocks    *)
(* and on loaded records are taken to be out of reach.                     *)
(***************************************************************************)
EXTENDS Integers, Sequences, FiniteSets, SequencesExt, FiniteSetsExt

CONSTANTS
  Records,     (* ids of master-data records                               *)
  Scanners,    (* requests that may scan at the same time                  *)
  Rows,        (* the contents a record may have: fields to texts          *)
  ClusterKeys, (* fields to block by, in the order of their priority       *)
  Specs,       (* how to compare: [field, weight, exact]                   *)
  Surviving,   (* further fields that a scan and the search load           *)
  Displayed,   (* further fields that the search loads                     *)
  Texts,       (* the texts whose distances are compared with the definition *)
  MinScore,    (* the score from which a scan takes records together       *)
  MaxChanges,  (* bound: changes of records                                *)
  MaxScans     (* bound: scans                                             *)

(* A text is a sequence of characters; NULL and the empty text are both    *)
(* empty for every use of them here.  Every row has the columns that are   *)
(* compared or blocked by.                                                 *)
ASSUME MatchScanAssumption ==
  /\ \A row \in Rows :
       /\ Range(ClusterKeys) \cup {spec.field : spec \in Specs} \subseteq DOMAIN row
       /\ \A f \in DOMAIN row : row[f] \in Seq(Range(row[f]))
  /\ \A text \in Texts : text \in Seq(Range(text))
  /\ ClusterKeys \in Seq(Range(ClusterKeys)) /\ IsFiniteSet(Specs)
  /\ \A spec \in Specs : spec.weight \in Nat \ {0} /\ spec.exact \in BOOLEAN
  /\ Rows # {} /\ MinScore \in 1 .. 100
  /\ MaxChanges \in Nat /\ MaxScans \in Nat

Empty == <<>>

-----------------------------------------------------------------------------
(* match_algo.                                                             *)

(* Mutant: a replacement counts as a removal and an insertion.             *)
CostOfTwo(c, d) == IF c = d THEN 0 ELSE 2
Cost(c, d) == IF c = d THEN 0 ELSE 1

(* One row of the table of edit distances follows from the row before it.  *)
NextRow(prev, c, b) ==
  LET curr[j \in 0 .. Len(b)] ==
        IF j = 0 THEN prev[0] + 1
        ELSE Min({prev[j] + 1, curr[j - 1] + 1, prev[j - 1] + Cost(c, b[j])})
  IN curr

Levenshtein(a, b) ==
  FoldLeft(LAMBDA prev, c : NextRow(prev, c, b), [j \in 0 .. Len(b) |-> j], a)[Len(b)]

FieldScore(spec, x, y) ==
  LET longest == Max({Len(x), Len(y)}) IN
  IF spec.exact THEN (IF x # Empty /\ x = y THEN 100 ELSE 0)
  ELSE (100 * (longest - Min({Levenshtein(x, y), longest}))) \div longest

(* The weighted scores of the fields that one of the rows has filled.      *)
Scores(row, other) ==
  [spec \in {spec \in Specs : row[spec.field] # Empty \/ other[spec.field] # Empty} |->
     FieldScore(spec, row[spec.field], other[spec.field]) * spec.weight]

(* Their mean.                                                             *)
(* Mutant: the sum is not divided by the weights.                          *)
CompareSum(row, other) == SumFunction(Scores(row, other))
Compare(row, other) ==
  LET scores == Scores(row, other) IN
  IF DOMAIN scores = {} THEN 0
  ELSE SumFunction(scores) \div SumFunction([spec \in DOMAIN scores |-> spec.weight])

Decide(score) ==
  IF score >= 95 THEN "AutoMerge" ELSE IF score >= 80 THEN "Review" ELSE "NoMatch"

(* blocking: the first filled cluster key and its text; a row without one  *)
(* has no such pair, and is in no block.                                   *)
BlockKey(row) ==
  LET filled(i) == row[ClusterKeys[i]] # Empty
      first == {i \in DOMAIN ClusterKeys : filled(i) /\ \A j \in 1 .. i - 1 : ~filled(j)}
  IN {<<ClusterKeys[i], row[ClusterKeys[i]]>> : i \in first}

SameBlock(row, other) == BlockKey(row) # {} /\ BlockKey(row) = BlockKey(other)

(* find_candidates: the other rows of the target's block that are not      *)
(* NoMatch.  Loaded rows are a function from their ids.                    *)
Candidates(id, target, loaded) ==
  {r \in DOMAIN loaded \ {id} :
     SameBlock(target, loaded[r]) /\ Decide(Compare(target, loaded[r])) # "NoMatch"}

(* scan_clusters: of every block those members that are like another one.  *)
(* Mutant: only compared with the first one of the block.                  *)
PartnersOfFirst(r, block, loaded) ==
  {q \in block \ {r} : /\ (CHOOSE first \in block : TRUE) \in {q, r}
                       /\ Compare(loaded[r], loaded[q]) >= MinScore}
Partners(r, block, loaded) ==
  {q \in block \ {r} : Compare(loaded[r], loaded[q]) >= MinScore}

ScanClusters(loaded) ==
  LET blocks == {{r \in DOMAIN loaded : SameBlock(loaded[r], loaded[q])} : q \in DOMAIN loaded}
      members(block) == {r \in block : Partners(r, block, loaded) # {}}
      score(r, block) == Max({Compare(loaded[r], loaded[q]) : q \in block \ {r}})
      cluster(block) == [members |-> members(block),
                         score |-> Max({score(r, block) : r \in members(block)})]
  IN {cluster(block) : block \in {b \in blocks : members(b) # {}}}

-----------------------------------------------------------------------------
VARIABLES
  table,    (* the records: their life and row                             *)
  scan,     (* the scanners                                                *)
  findings, (* md_match_scan                                               *)
  merged,   (* findings whose merge has committed and is not linked yet    *)
  changes,  (* changes so far                                              *)
  scans     (* scans so far                                                *)

vars == <<table, scan, findings, merged, changes, scans>>

Lives   == {"unborn", "published", "merged"}
States  == {"pending", "ignored", "resolved"}

(* Which scanner stored a finding is history.                              *)
Finding == [members : SUBSET Records, score : 0 .. 100, status : States, by : Scanners]

(* A scanner: what it has read (the table; history), the clusters it still *)
(* has to store, and the findings it saw pending or stored.                *)
Idle == [at |-> "idle", read |-> table, todo |-> {}, known |-> {}]

(* A record that does not exist yet; its row means nothing.                *)
Unborn == [life |-> "unborn", row |-> CHOOSE row \in Rows : TRUE]

Init ==
  /\ table \in [Records -> [life : {"published"}, row : Rows] \cup {Unborn}]
  /\ scan = [s \in Scanners |-> Idle]
  /\ findings = <<>>
  /\ merged = {}
  /\ changes = 0
  /\ scans = 0

Published == {r \in Records : table[r].life = "published"}

(* load_suspects: published records that share a cluster key with another  *)
(* one.                                                                    *)
(* Mutant: only the first cluster key is looked at.                        *)
SharesFirst(r, q) ==
  table[r].row[ClusterKeys[1]] # Empty /\ table[r].row[ClusterKeys[1]] = table[q].row[ClusterKeys[1]]
Shares(r, q) ==
  \E k \in Range(ClusterKeys) : table[r].row[k] # Empty /\ table[r].row[k] = table[q].row[k]

Suspicious == {r \in Published : \E q \in Published \ {r} : Shares(r, q)}

(* A request reads the columns it names; a field it has not read is empty  *)
(* for it, a cluster key too.                                              *)
Seen(columns, row) == [f \in DOMAIN row |-> IF f \in columns THEN row[f] ELSE Empty]

Suspects(columns) == [r \in Suspicious |-> Seen(columns, table[r].row)]

(* Nobody adds the cluster keys to them.                                   *)
Compared      == {spec.field : spec \in Specs}
ScanColumns   == Compared \cup Surviving
SearchColumns == Compared \cup Surviving \cup Displayed
KeyColumns    == Compared \cup {"code", "name"}

(* mdm_find_duplicates answers for a record of its suspects only.           *)
FindDuplicates(r) ==
  LET suspects == Suspects(SearchColumns) IN Candidates(r, suspects[r], suspects)

(* mdm_check_key lets a row pass that has no candidate: its own id is 0.   *)
KeyIsNew(row) == Candidates(0, row, Suspects(KeyColumns)) = {}

-----------------------------------------------------------------------------
(* Records come and change: creation and update by CRs, merge.             *)

Change == changes < MaxChanges /\ changes' = changes + 1

Create(r, row) ==
  /\ Change
  /\ table[r].life = "unborn"
  /\ table' = [table EXCEPT ![r] = [life |-> "published", row |-> row]]
  /\ UNCHANGED <<scan, findings, merged, scans>>

Update(r, row) ==
  /\ Change
  /\ table[r].life = "published" /\ table[r].row # row
  /\ table' = [table EXCEPT ![r].row = row]
  /\ UNCHANGED <<scan, findings, merged, scans>>

(* A steward merges members of a finding into one of them; the handler     *)
(* marks the finding afterwards, in a statement of its own.                *)
Merge(f, master, victims) ==
  /\ Change
  /\ victims # {} /\ master \notin victims
  /\ \A r \in victims \cup {master} : table[r].life = "published"
  /\ table' = [r \in Records |->
                 IF r \in victims THEN [table[r] EXCEPT !.life = "merged"] ELSE table[r]]
  /\ merged' = merged \cup {f}
  /\ UNCHANGED <<scan, findings, scans>>

(* transition_scan_status: a compare-and-set.                              *)
(* Mutant: an update by id alone.                                          *)
SettledAnyway(f, to) == [findings EXCEPT ![f].status = to]
Settled(f, to) == IF findings[f].status = "pending" THEN [findings EXCEPT ![f].status = to] ELSE findings

(* The link fails silently when the finding is settled already, or when    *)
(* the statement does.                                                     *)
Resolve(f) ==
  /\ f \in merged
  /\ merged' = merged \ {f}
  /\ findings' \in {findings, Settled(f, "resolved")}
  /\ UNCHANGED <<table, scan, changes, scans>>

(* The page offers it for pending findings, of a list that may be stale.   *)
Ignore(f) ==
  /\ findings' = Settled(f, "ignored")
  /\ UNCHANGED <<table, scan, merged, changes, scans>>

-----------------------------------------------------------------------------
(* mdm_match_scan_run: load and cluster; read what is pending; insert.     *)

ScanLoad(s) ==
  LET clusters == ScanClusters(Suspects(ScanColumns)) IN
  /\ scan[s].at \in {"idle", "done"} /\ scans < MaxScans
  /\ scans' = scans + 1
  /\ scan' = [scan EXCEPT ![s] = [at |-> IF clusters = {} THEN "done" ELSE "hashes",
                                  read |-> table, todo |-> clusters, known |-> {}]]
  /\ UNCHANGED <<table, findings, merged, changes>>

(* load_pending_hashes: a cluster hash stands for a set of members.        *)
Pending == {f \in DOMAIN findings : findings[f].status = "pending"}

ScanHashes(s) ==
  /\ scan[s].at = "hashes"
  /\ scan' = [scan EXCEPT ![s] = [@ EXCEPT !.at = "insert", !.known = Pending]]
  /\ UNCHANGED <<table, findings, merged, changes, scans>>

(* Mutant: no cluster is taken for known.                                  *)
KnownNever(s, cluster) == FALSE
Known(s, cluster) == \E f \in scan[s].known : findings[f].members = cluster.members

(* Clusters are stored in the order of their scores.                       *)
ScanInsert(s, cluster) ==
  /\ scan[s].at = "insert"
  /\ cluster \in scan[s].todo
  /\ \A other \in scan[s].todo : other.score <= cluster.score
  /\ findings' = IF Known(s, cluster) THEN findings
                 ELSE Append(findings, [members |-> cluster.members, score |-> cluster.score,
                                        status |-> "pending", by |-> s])
  /\ scan' = [scan EXCEPT ![s] =
                [scan[s] EXCEPT !.at = IF scan[s].todo = {cluster} THEN "done" ELSE "insert",
                                !.todo = @ \ {cluster},
                                !.known = IF Known(s, cluster) THEN @ ELSE @ \cup {Len(findings) + 1}]]
  /\ UNCHANGED <<table, merged, changes, scans>>

(* A statement fails or the process dies: what is stored stays.            *)
ScanFails(s) ==
  /\ scan[s].at \in {"hashes", "insert"}
  /\ scan' = [scan EXCEPT ![s] = Idle]
  /\ UNCHANGED <<table, findings, merged, changes, scans>>

Next ==
  \/ \E r \in Records, row \in Rows : Create(r, row) \/ Update(r, row)
  \/ \E f \in DOMAIN findings :
       \/ Resolve(f) \/ Ignore(f)
       \/ \E master \in findings[f].members, victims \in SUBSET findings[f].members :
            Merge(f, master, victims)
  \/ \E s \in Scanners :
       \/ ScanLoad(s) \/ ScanHashes(s) \/ ScanFails(s)
       \/ \E cluster \in scan[s].todo : ScanInsert(s, cluster)

Spec == Init /\ [][Next]_vars

-----------------------------------------------------------------------------
(* What blocking and comparison promise, said of a table: two published    *)
(* records that share their first filled cluster key and score enough.     *)
Duplicates(rows, r, q) ==
  /\ r # q /\ rows[r].life = "published" /\ rows[q].life = "published"
  /\ SameBlock(rows[r].row, rows[q].row)
  /\ Compare(rows[r].row, rows[q].row) >= MinScore

(* Every variable stays in its type; scores are percentages, and a scanner *)
(* knows only findings that exist.                                         *)
TypeOK ==
  /\ table \in [Records -> [life : Lives, row : Rows]]
  /\ \A s \in Scanners :
       /\ scan[s].at \in {"idle", "hashes", "insert", "done"}
       /\ scan[s].todo \subseteq [members : SUBSET Records, score : 0 .. 100]
       /\ scan[s].known \subseteq DOMAIN findings
  /\ findings \in Seq(Finding)
  /\ merged \subseteq DOMAIN findings
  /\ changes \in 0 .. MaxChanges /\ scans \in 0 .. MaxScans

(* The two-row table of levenshtein computes the edit distance: the least  *)
(* number of characters that no alignment of the texts can leave alone.    *)
(* The distance and the score are symmetric, so that it is enough to       *)
(* compare every pair of a block once, whatever order the rows come in.    *)
Alignments(a, b) ==
  {pairs \in SUBSET ((DOMAIN a) \X (DOMAIN b)) :
     \A p, q \in pairs : p = q \/ (p[1] < q[1] /\ p[2] < q[2]) \/ (q[1] < p[1] /\ q[2] < p[2])}

EditDistance(a, b) ==
  Min({Len(a) + Len(b) - Cardinality(pairs) - Cardinality({p \in pairs : a[p[1]] = b[p[2]]}) :
         pairs \in Alignments(a, b)})

DistanceIsEditDistance == \A x, y \in Texts : Levenshtein(x, y) = EditDistance(x, y)

DistanceIsMinimal ==
  /\ DistanceIsEditDistance
  /\ \A r, q \in Published : Compare(table[r].row, table[q].row) = Compare(table[q].row, table[r].row)

(* When a scan is done, a steward has or had every pair of duplicates that *)
(* was in the table it read in one finding: leaving the first step of      *)
(* blocking to the database loses none, nor does the memory of findings    *)
(* that are pending, whatever is settled while the scan runs.  The pair    *)
(* must be joined by a cluster key that the scan loads: it loads what it   *)
(* compares and what survives, and its callers block by other fields too.  *)
JoinedBy(row, columns) == \E key \in BlockKey(row) : key[1] \in columns

Sought(rows, r, q) == Duplicates(rows, r, q) /\ JoinedBy(rows[r].row, ScanColumns)

ScanFindsAll ==
  \A s \in Scanners : scan[s].at = "done" =>
    \A r, q \in Records : Sought(scan[s].read, r, q) =>
      \E f \in scan[s].known : {r, q} \subseteq findings[f].members

(* The search for the duplicates of one record and the scan agree as far   *)
(* as they see the same: a candidate of the one is in a cluster of the     *)
(* other with its target, unless only the search has loaded the cluster    *)
(* key that joins them.                                                    *)
SearchAgreesWithScan ==
  LET clusters == ScanClusters(Suspects(ScanColumns)) IN
  \A r \in Suspicious : \A q \in FindDuplicates(r) :
    JoinedBy(Seen(SearchColumns, table[r].row), ScanColumns) =>
      \E cluster \in clusters : {r, q} \subseteq cluster.members

(* Nobody stores a finding that he has stored and that is still pending:   *)
(* of pending findings with the same members no two come from the same     *)
(* scanner, so that only scans at the same time can store a cluster twice, *)
(* each of them once (insert_findings).                                    *)
ScannerRepeatsNothing ==
  \A f, g \in Pending :
    findings[f].members = findings[g].members /\ findings[f].by = findings[g].by => f = g

(* A finding is settled once: ignored and resolved do not replace each     *)
(* other, although the merge links its finding after it has committed.     *)
SettledIsFinal ==
  [][\A f \in DOMAIN findings : findings[f].status # "pending" => findings'[f] = findings[f]]_vars

(* "Compared with the published records of the active area; a hit blocks"  *)
(* (mdm_check_key): a row that passes the key check is like no published   *)
(* record of its block.                                                    *)
CheckedIsNew ==
  \A row \in Rows, q \in Published :
    KeyIsNew(row) /\ SameBlock(row, table[q].row) => Compare(row, table[q].row) < 80
=============================================================================
